---------------------------- MODULE ScreensProofs ----------------------------
(***************************************************************************)
(* Theorems about the browser: the session of a tab, the widgets that      *)
(* poll, and the screens.  Each part has an inductive invariant of its     *)
(* own; the first state picks the part that moves, and the others stay as  *)
(* they are.                                                               *)
(***************************************************************************)
EXTENDS Browser, Screens, SequenceTheorems, FiniteSetTheorems, TLAPS

-----------------------------------------------------------------------------
(* Which screen moves *)

\* The screen that is used takes the step, the others stay as they are.
LEMMA ScreenMoves ==
    ASSUME [ScreensNext]_screensVars
    PROVE  /\ screen' = screen
           /\ screen = "cache" => (Cache!Next \/ UNCHANGED cacheVars)
           /\ screen = "wizard" => (Wizard!Next \/ UNCHANGED wizardVars)
           /\ screen = "calendar" => (Calendar!Next \/ UNCHANGED calendarVars)
           /\ Bell!Next \/ UNCHANGED bellVars
           /\ screen = "filter" => (Filter!Next \/ UNCHANGED filterVars)
           /\ screen = "typing" => (Typing!Next \/ UNCHANGED filterVars)
           /\ screen = "timeline" => (Timeline!Next \/ UNCHANGED timelineVars)
           /\ Preferences!Next \/ UNCHANGED preferenceVars
<1>1. CASE UNCHANGED screensVars
  BY <1>1 DEF screensVars
<1>2. CASE ScreensNext
  BY <1>2 DEF ScreensNext, Others
<1> QED
  BY <1>1, <1>2

LEMMA SessionMoves ==
    ASSUME [BrowserNext]_browserVars
    PROVE  /\ running' = running
           /\ SessionRuns => (Session!Next \/ UNCHANGED sessionVars)
           /\ running = "dashboard" => (Dashboard!Next \/ UNCHANGED widgetVars)
<1>1. CASE UNCHANGED browserVars
  BY <1>1 DEF browserVars
<1>2. CASE BrowserNext
  BY <1>2 DEF BrowserNext, SessionRuns
<1> QED
  BY <1>1, <1>2

-----------------------------------------------------------------------------
(* The session of a tab *)

\* A store and the tokens it is about.
Holder(new, exps) ==
    /\ new \in [token : Nat, auth : BOOLEAN]
    /\ new.token <= Len(exps) /\ (new.auth => new.token # 0)

Warnings == [shown : BOOLEAN, timer : Nat, again : BOOLEAN, end : Nat]

\* A timer is still to come, and not later than the warning may be.
TimerHolds(w, new, exps, now) ==
    w.timer # 0 =>
      /\ new.token # 0 /\ now <= w.timer
      /\ w.timer <= exps[new.token] - WarnBefore + Debounce
      /\ ~w.again => w.timer <= exps[new.token] - WarnBefore

\* Whoever looks at a page with a session is shown the dialog, or a timer runs.
Warned(w) == w.shown \/ w.timer # 0
Watches(new, p) == new.auth /\ p \notin Session!AuthPages

Visits == [to : Session!Pages, load : BOOLEAN]

CallRow == [at : {"idle", "sent", "queued", "refreshing", "lost"}, bearer : BOOLEAN, retry : BOOLEAN]

SessionInv ==
    /\ seconds \in Nat /\ lastActive \in Nat /\ lastActive <= seconds
    /\ expiry \in Seq(Nat)
    /\ Holder(authStore, expiry)
    /\ cookie \in Nat /\ cookie <= Len(expiry)
    /\ location \in Session!Pages
    /\ visit = Session!Nowhere \/ visit \in Visits
    /\ call \in [Session!Calls -> CallRow]
    /\ refresher \in Session!Calls \cup {NoCall}
    /\ staying \in BOOLEAN
    /\ warning \in Warnings
    /\ TimerHolds(warning, authStore, expiry, seconds)
    /\ Watches(authStore, location) /\ ~staying => Warned(warning)

LEMMA SessionNumbers ==
    /\ Life \in Nat /\ WarnBefore \in Nat /\ Debounce \in Nat
    /\ MaxToken \in Nat /\ MaxSecond \in Nat
BY BrowserAssumption DEF Session!BrowserSessionAssumption

\* The warnings there are, as records.
LEMMA WarningRows ==
    /\ Session!Quiet \in Warnings
    /\ Session!Quiet.timer = 0 /\ ~Session!Quiet.shown
    /\ \A end \in Nat : /\ Session!Show(end) \in Warnings
                        /\ Session!Show(end).shown /\ Session!Show(end).timer = 0
    /\ \A t \in Nat : LET w == [Session!Quiet EXCEPT !.timer = t] IN
         /\ w \in Warnings /\ w.timer = t /\ ~w.again
BY DEF Session!Quiet, Session!Show, Warnings

\* What the effect sets: the dialog, a timer that is not late, or nothing without a session.
LEMMA WarningIsDue ==
    ASSUME seconds \in Nat, NEW exps \in Seq(Nat), NEW new, Holder(new, exps), NEW p
    PROVE  LET w == Session!WarningFor(new, p, exps) IN
             /\ w \in Warnings
             /\ TimerHolds(w, new, exps, seconds)
             /\ Watches(new, p) => Warned(w)
<1> DEFINE w == Session!WarningFor(new, p, exps)
           exp == exps[new.token]
<1>1. new.token \in Nat /\ Len(exps) \in Nat /\ DOMAIN exps = 1 .. Len(exps)
  BY DEF Holder
<1>2. ASSUME new.token # 0 PROVE exp \in Nat
  <2>1. new.token \in 1 .. Len(exps)
    BY <1>1, <1>2 DEF Holder
  <2> QED
    BY <2>1, ElementOfSeq
<1>3. CASE ~new.auth \/ new.token = 0 \/ p \in Session!AuthPages
  <2>1. w = Session!Quiet
    BY <1>3 DEF Session!WarningFor, Session!NoToken
  <2>2. ~Watches(new, p)
    BY <1>3 DEF Watches, Holder
  <2> QED
    BY <2>1, <2>2, WarningRows DEF TimerHolds
<1>4. CASE new.auth /\ new.token # 0 /\ p \notin Session!AuthPages
  <2>1. w = Session!ScheduleWarning(exp)
    BY <1>4 DEF Session!WarningFor, Session!NoToken
  <2>2. CASE exp - WarnBefore <= seconds
    <3>1. w = Session!Show(IF exp > seconds THEN exp ELSE seconds)
      BY <2>1, <2>2 DEF Session!ScheduleWarning
    <3>2. (IF exp > seconds THEN exp ELSE seconds) \in Nat
      BY <1>2, <1>4
    <3>3. w \in Warnings /\ w.shown /\ w.timer = 0
      BY <3>1, <3>2, WarningRows
    <3> QED
      BY <3>3 DEF TimerHolds, Warned
  <2>3. CASE ~(exp - WarnBefore <= seconds)
    <3>1. w = [Session!Quiet EXCEPT !.timer = exp - WarnBefore]
      BY <2>1, <2>3 DEF Session!ScheduleWarning
    <3>2. exp - WarnBefore \in Nat /\ seconds <= exp - WarnBefore /\ exp - WarnBefore # 0
          /\ exp - WarnBefore <= exp - WarnBefore + Debounce
      BY <1>2, <1>4, <2>3, SessionNumbers
    <3>3. w \in Warnings /\ w.timer = exp - WarnBefore /\ ~w.again
      BY <3>1, <3>2, WarningRows
    <3> QED
      BY <3>2, <3>3, <1>4 DEF TimerHolds, Warned
  <2> QED
    BY <2>2, <2>3
<1> QED
  BY <1>3, <1>4 DEF Holder

LEMMA SessionInit == ASSUME Session!Init PROVE SessionInv
<1>1. expiry \in Seq(Nat) /\ Len(expiry) = 0
  BY EmptySeq DEF Session!Init
<1>2. authStore = Session!SignedOut /\ Holder(authStore, expiry) /\ ~Watches(authStore, location)
  BY <1>1 DEF Session!Init, Session!SignedOut, Session!NoToken, Holder, Watches
<1>3. warning \in Warnings /\ TimerHolds(warning, authStore, expiry, seconds)
  BY WarningRows DEF Session!Init, TimerHolds
<1>4. call \in [Session!Calls -> CallRow] /\ refresher \in Session!Calls \cup {NoCall}
  BY DEF Session!Init, Session!Idle, CallRow
<1>5. location \in Session!Pages /\ visit = Session!Nowhere /\ staying \in BOOLEAN
  BY DEF Session!Init, Session!Pages
<1>6. seconds = 0 /\ lastActive = 0 /\ cookie = 0
  BY DEF Session!Init, Session!NoToken
<1> QED
  BY <1>1, <1>2, <1>3, <1>4, <1>5, <1>6 DEF SessionInv

\* The tokens of a step: those that were issued stay as they are.
Issues ==
    /\ expiry' \in Seq(Nat) /\ Len(expiry) <= Len(expiry')
    /\ \A t \in Nat : t # 0 /\ t <= Len(expiry) => expiry'[t] = expiry[t]

LEMMA IssueGrows ==
    ASSUME SessionInv, Session!Issue
    PROVE  /\ Issues
           /\ Session!NewToken \in Nat /\ Session!NewToken # 0 /\ Session!NewToken # authStore.token
           /\ Session!NewToken <= Len(expiry')
           /\ Holder([token |-> Session!NewToken, auth |-> TRUE], expiry')
<1>1. expiry \in Seq(Nat) /\ Len(expiry) \in Nat /\ seconds + Life \in Nat
  BY SessionNumbers DEF SessionInv
<1>2. expiry' = Append(expiry, seconds + Life)
  BY DEF Session!Issue
<1>3. /\ expiry' \in Seq(Nat) /\ Len(expiry') = Len(expiry) + 1
      /\ \A i \in 1 .. Len(expiry) : expiry'[i] = expiry[i]
  BY <1>1, <1>2, AppendProperties
<1>4. Session!NewToken = Len(expiry) + 1
  BY DEF Session!NewToken
<1>5. authStore.token \in Nat /\ authStore.token <= Len(expiry)
  BY DEF SessionInv, Holder
<1>6. Issues
  <2>1. \A t \in Nat : t # 0 /\ t <= Len(expiry) => t \in 1 .. Len(expiry)
    BY <1>1
  <2> QED
    BY <1>1, <1>3, <2>1 DEF Issues
<1>7. Holder([token |-> Session!NewToken, auth |-> TRUE], expiry')
  BY <1>1, <1>3, <1>4 DEF Holder
<1> QED
  BY <1>1, <1>3, <1>4, <1>5, <1>6, <1>7

LEMMA SameIssues == ASSUME SessionInv, UNCHANGED expiry PROVE Issues
BY DEF SessionInv, Issues

\* A store that is kept holds its token still, and its timer keeps its meaning.
LEMMA StillHeld ==
    ASSUME SessionInv, Issues
    PROVE  /\ Holder(authStore, expiry')
           /\ \A w, now : TimerHolds(w, authStore, expiry, now) => TimerHolds(w, authStore, expiry', now)
           /\ cookie <= Len(expiry')
<1>1. /\ Len(expiry) \in Nat /\ Len(expiry') \in Nat
      /\ authStore.token \in Nat /\ authStore.token <= Len(expiry) /\ cookie \in Nat
  BY DEF SessionInv, Holder, Issues
<1>2. authStore.token # 0 => expiry'[authStore.token] = expiry[authStore.token]
  BY <1>1 DEF Issues
<1> QED
  BY <1>1, <1>2 DEF Issues, Holder, TimerHolds, SessionInv

\* What a rendering leaves of the warning.
LEMMA RenderedWarns ==
    ASSUME SessionInv, Issues, NEW new, Holder(new, expiry'), NEW p,
           Session!Rendered(new, p, expiry')
    PROVE  /\ warning' \in Warnings
           /\ TimerHolds(warning', new, expiry', seconds)
           /\ (~staying \/ new # authStore) /\ Watches(new, p) => Warned(warning')
<1>1. expiry' \in Seq(Nat) /\ seconds \in Nat
  BY DEF Issues, SessionInv
<1>2. CASE new = authStore /\ (p \in Session!AuthPages <=> location \in Session!AuthPages)
  <2>1. warning' = warning
    BY <1>2, Zenon DEF Session!Rendered
  <2>2. TimerHolds(warning, new, expiry', seconds)
    BY <1>2, StillHeld DEF SessionInv
  <2>3. ~staying /\ Watches(new, p) => Warned(warning)
    BY <1>2 DEF SessionInv, Watches
  <2>4. warning \in Warnings
    BY DEF SessionInv
  <2> QED
    BY <1>2, <2>1, <2>2, <2>3, <2>4
<1>3. CASE ~(new = authStore /\ (p \in Session!AuthPages <=> location \in Session!AuthPages))
  <2>1. warning' = Session!WarningFor(new, p, expiry')
    BY <1>3, Zenon DEF Session!Rendered
  <2> QED
    BY <1>1, <2>1, WarningIsDue
<1> QED
  BY <1>2, <1>3

LEMMA CallIdle == Session!Idle \in CallRow /\ [Session!Idle EXCEPT !.at = "sent"] \in CallRow
BY DEF Session!Idle, CallRow

LEMMA ByeCalls == Bye \in Session!Calls
BY DEF Session!Calls

\* Logging out leaves no session, no warning and a page to load.
LEMMA LogsOut ==
    ASSUME SessionInv, Issues, NEW calls \in [Session!Calls -> CallRow], Session!LogOut(calls)
    PROVE  /\ Holder(authStore', expiry')
           /\ cookie' \in Nat /\ cookie' <= Len(expiry')
           /\ visit' \in Visits
           /\ call' \in [Session!Calls -> CallRow]
           /\ warning' \in Warnings
           /\ TimerHolds(warning', authStore', expiry', seconds)
           /\ \A p : ~Watches(authStore', p)
<1>1. /\ authStore' = [token |-> 0, auth |-> FALSE] /\ cookie' = 0
      /\ visit' = [to |-> "/login", load |-> TRUE]
      /\ call' = [calls EXCEPT ![Bye] = [Session!Idle EXCEPT !.at = "sent"]]
      /\ warning' = Session!Quiet
  BY DEF Session!LogOut, Session!SignedOut, Session!NoToken, Session!LoginPage
<1>2. Len(expiry') \in Nat
  BY DEF Issues
<1>3. call' \in [Session!Calls -> CallRow]
  BY <1>1, CallIdle, ByeCalls
<1>4. "/login" \in Session!Pages
  BY DEF Session!Pages, Session!AuthPages
<1>5. Holder(authStore', expiry') /\ \A p : ~Watches(authStore', p)
  BY <1>1, <1>2 DEF Holder, Watches
<1>6. visit' \in Visits
  BY <1>1, <1>4 DEF Visits
<1> QED
  BY <1>1, <1>2, <1>3, <1>5, <1>6, WarningRows DEF TimerHolds

LEMMA LoginKept == ASSUME SessionInv, Session!Login PROVE SessionInv'
<1> DEFINE new == [token |-> Session!NewToken, auth |-> TRUE]
<1>1. /\ Issues /\ Holder(new, expiry') /\ new # authStore
      /\ Session!NewToken \in Nat /\ Session!NewToken <= Len(expiry')
  BY IssueGrows DEF Session!Login
<1>2. /\ authStore' = new /\ cookie' = Session!NewToken /\ \E load \in BOOLEAN : visit' = [to |-> "/dashboard", load |-> load]
      /\ Session!Rendered(new, location, expiry')
      /\ UNCHANGED <<seconds, location, call, refresher, staying, lastActive>>
  BY DEF Session!Login, Session!callVars
<1> HIDE DEF new
<1>3. /\ warning' \in Warnings /\ TimerHolds(warning', new, expiry', seconds)
      /\ Watches(new, location) => Warned(warning')
  BY <1>1, <1>2, RenderedWarns
<1>4. visit' \in Visits
  BY <1>2 DEF Visits, Session!Pages, Session!Protected
<1> QED
  BY <1>1, <1>2, <1>3, <1>4 DEF SessionInv, Issues

LEMMA VerifyOtpKept == ASSUME SessionInv, Session!VerifyOtp PROVE SessionInv'
<1>1. Issues /\ Session!NewToken \in Nat /\ Session!NewToken <= Len(expiry')
  BY IssueGrows DEF Session!VerifyOtp
<1>2. /\ cookie' = Session!NewToken /\ \E load \in BOOLEAN : visit' = [to |-> "/dashboard", load |-> load]
      /\ UNCHANGED <<seconds, authStore, location, call, refresher, staying, lastActive, warning>>
  BY DEF Session!VerifyOtp, Session!callVars
<1>3. Holder(authStore, expiry') /\ TimerHolds(warning, authStore, expiry', seconds)
  BY <1>1, StillHeld DEF SessionInv
<1>4. visit' \in Visits
  BY <1>2 DEF Visits, Session!Pages, Session!Protected
<1> QED
  BY <1>1, <1>2, <1>3, <1>4 DEF SessionInv, Issues

LEMMA SessionVisitKept ==
    ASSUME SessionInv, NEW p \in Session!Pages, Session!Visit(p)
    PROVE  SessionInv'
BY DEF Session!Visit, SessionInv, Session!callVars, Visits

LEMMA PagesAre == Session!Pages = {"/", "/login", "/verify-otp", "/dashboard", "/admin"}
BY DEF Session!Pages, Session!AuthPages, Session!Protected

\* A navigation under way goes to a page.
LEMMA RedirectedIsAPage ==
    ASSUME SessionInv, visit # Session!Nowhere
    PROVE  /\ visit \in Visits /\ visit.to \in Session!Pages
           /\ Session!Redirected(visit.to) \in Session!Pages
<1>1. visit \in Visits /\ visit.to \in Session!Pages
  BY DEF SessionInv, Visits
<1>2. {"/dashboard", "/login"} \subseteq Session!Pages
  BY PagesAre
<1>3. Session!Redirected(visit.to) \in {visit.to, "/dashboard", "/login"}
  BY Zenon DEF Session!Redirected
<1> QED
  BY <1>1, <1>2, <1>3

LEMMA RedirectKept == ASSUME SessionInv, Session!Redirect PROVE SessionInv'
<1>1. visit # Session!Nowhere /\ visit' = [visit EXCEPT !.to = Session!Redirected(visit.to)]
  BY DEF Session!Redirect
<1>2. visit' \in Visits
  BY <1>1, RedirectedIsAPage DEF Visits
<1> QED
  BY <1>1, <1>2 DEF Session!Redirect, Session!callVars, SessionInv

LEMMA ShowPageKept == ASSUME SessionInv, Session!ShowPage PROVE SessionInv'
<1>1. visit # Session!Nowhere /\ visit.to \in Session!Pages
  BY RedirectedIsAPage DEF Session!ShowPage
<1>2. /\ location' = visit.to /\ visit' = Session!Nowhere
      /\ Session!Rendered(authStore, visit.to, expiry')
      /\ UNCHANGED <<seconds, expiry, authStore, cookie, call, refresher, staying, lastActive>>
  BY DEF Session!ShowPage, Session!callVars
<1>3. Issues /\ Holder(authStore, expiry')
  BY <1>2, SameIssues DEF SessionInv
<1>4. /\ warning' \in Warnings /\ TimerHolds(warning', authStore, expiry', seconds)
      /\ ~staying /\ Watches(authStore, visit.to) => Warned(warning')
  BY <1>2, <1>3, RenderedWarns
<1> QED
  BY <1>1, <1>2, <1>3, <1>4 DEF SessionInv

LEMMA InitializedHolds ==
    ASSUME SessionInv
    PROVE  Holder(Session!Initialized, expiry)
<1>1. authStore \in [token : Nat, auth : BOOLEAN] /\ authStore.token <= Len(expiry) /\ Len(expiry) \in Nat
  BY DEF SessionInv, Holder
<1>2. CASE authStore.token # 0 /\ ~Session!IsTokenExpired(authStore.token)
  <2>1. Session!Initialized = [authStore EXCEPT !.auth = TRUE]
    BY <1>2 DEF Session!Initialized, Session!NoToken
  <2> QED
    BY <1>1, <1>2, <2>1 DEF Holder
<1>3. CASE ~(authStore.token # 0 /\ ~Session!IsTokenExpired(authStore.token))
  <2>1. Session!Initialized = [token |-> 0, auth |-> FALSE]
    BY <1>3 DEF Session!Initialized, Session!NoToken, Session!SignedOut
  <2> QED
    BY <1>1, <2>1 DEF Holder
<1> QED
  BY <1>2, <1>3

LEMMA LoadPageKept == ASSUME SessionInv, Session!LoadPage PROVE SessionInv'
<1> DEFINE new == Session!Initialized
<1>1. visit # Session!Nowhere /\ visit.to \in Session!Pages
  BY RedirectedIsAPage DEF Session!LoadPage
<1>2. Holder(new, expiry) /\ new.token \in Nat /\ new.token <= Len(expiry)
  BY InitializedHolds DEF Holder
<1>3. /\ location' = visit.to /\ visit' = Session!Nowhere
      /\ authStore' = new /\ cookie' = new.token
      /\ call' = [c \in Session!Calls |-> Session!Idle] /\ refresher' = NoCall /\ staying' = FALSE
      /\ lastActive' = seconds /\ warning' = Session!WarningFor(new, visit.to, expiry)
      /\ UNCHANGED <<seconds, expiry>>
  BY DEF Session!LoadPage
<1> HIDE DEF new
<1>4. seconds \in Nat /\ expiry \in Seq(Nat)
  BY DEF SessionInv
<1>5. /\ warning' \in Warnings /\ TimerHolds(warning', new, expiry, seconds)
      /\ Watches(new, visit.to) => Warned(warning')
  BY <1>2, <1>3, <1>4, WarningIsDue
<1>6. call' \in [Session!Calls -> CallRow]
  BY <1>3, CallIdle
<1>7. Watches(authStore, location)' => Warned(warning')
  BY <1>3, <1>5 DEF Watches
<1>8. /\ Holder(authStore', expiry') /\ TimerHolds(warning', authStore', expiry', seconds')
      /\ cookie' \in Nat /\ cookie' <= Len(expiry') /\ warning' \in Warnings
      /\ location' \in Session!Pages
  BY <1>1, <1>2, <1>3, <1>5
<1>9. lastActive' \in Nat /\ lastActive' <= seconds'
  <2>1. lastActive' = seconds /\ seconds' = seconds
    BY <1>3
  <2> QED
    BY <2>1, <1>4
<1>10. staying' \in BOOLEAN
  BY <1>3
<1> QED
  BY <1>3, <1>4, <1>6, <1>7, <1>8, <1>9, <1>10 DEF SessionInv

\* A step that only makes a call go on.
CallsGoOn ==
    /\ call' \in [Session!Calls -> CallRow]
    /\ refresher' \in Session!Calls \cup {NoCall}
    /\ UNCHANGED <<seconds, expiry, authStore, cookie, location, visit, staying, lastActive, warning>>

LEMMA CallsGoOnKept == ASSUME SessionInv, CallsGoOn PROVE SessionInv'
BY DEF CallsGoOn, SessionInv

LEMMA CallStepKept ==
    ASSUME SessionInv, NEW c \in Session!Calls,
           Session!Send(c) \/ Session!Settle(c) \/ Session!Unauthorized(c)
    PROVE  SessionInv'
<1>1. call \in [Session!Calls -> CallRow] /\ call[c] \in CallRow /\ refresher \in Session!Calls \cup {NoCall}
  BY DEF SessionInv
<1>2. CASE Session!Send(c)
  <2>1. (authStore.token # Session!NoToken) \in BOOLEAN
    OBVIOUS
  <2>2. [at |-> "sent", bearer |-> authStore.token # Session!NoToken, retry |-> FALSE] \in CallRow
    BY <2>1 DEF CallRow
  <2>3. CallsGoOn
    BY <1>1, <1>2, <2>2 DEF Session!Send, CallsGoOn, Session!pageVars
  <2> QED
    BY <2>3, CallsGoOnKept
<1>3. CASE Session!Settle(c)
  <2>1. CallsGoOn
    BY <1>1, <1>3, CallIdle DEF Session!Settle, CallsGoOn, Session!pageVars
  <2> QED
    BY <2>1, CallsGoOnKept
<1>4. CASE Session!Unauthorized(c)
  <2>1. \A at \in {"queued", "refreshing"} : [call[c] EXCEPT !.at = at] \in CallRow
    BY <1>1 DEF CallRow
  <2>2. call' \in [Session!Calls -> CallRow] /\ refresher' \in Session!Calls \cup {NoCall}
    <3>1. CASE call' = [call EXCEPT ![c] = Session!Idle] /\ UNCHANGED refresher
      BY <1>1, <3>1, CallIdle
    <3>2. CASE call' = [call EXCEPT ![c].at = "queued"] /\ UNCHANGED refresher
      BY <1>1, <2>1, <3>2
    <3>3. CASE call' = [call EXCEPT ![c].at = "refreshing"] /\ refresher' = c
      BY <1>1, <2>1, <3>3
    <3> QED
      BY <1>4, <3>1, <3>2, <3>3 DEF Session!Unauthorized
  <2>3. CallsGoOn
    BY <1>4, <2>2 DEF Session!Unauthorized, CallsGoOn, Session!pageVars
  <2> QED
    BY <2>3, CallsGoOnKept
<1> QED
  BY <1>2, <1>3, <1>4

LEMMA RefreshedKept == ASSUME SessionInv, Session!Refreshed PROVE SessionInv'
<1> DEFINE new == [token |-> Session!NewToken, auth |-> TRUE]
<1>1. Issues /\ Holder(new, expiry') /\ new # authStore
  BY IssueGrows DEF Session!Refreshed
<1>2. /\ authStore' = new /\ Session!Rendered(new, location, expiry')
      /\ call' = Session!Resent /\ refresher' = NoCall
      /\ UNCHANGED <<seconds, cookie, location, visit, staying, lastActive>>
  BY DEF Session!Refreshed, Session!pageVars
<1> HIDE DEF new
<1>3. /\ warning' \in Warnings /\ TimerHolds(warning', new, expiry', seconds)
      /\ Watches(new, location) => Warned(warning')
  BY <1>1, <1>2, RenderedWarns
<1>4. call' \in [Session!Calls -> CallRow]
  <2>1. \A c \in Session!Calls : call[c] \in CallRow
    BY DEF SessionInv
  <2>2. \A retry \in BOOLEAN : [at |-> "sent", bearer |-> TRUE, retry |-> retry] \in CallRow
    BY DEF CallRow
  <2>3. \A c \in Session!Calls : (call[c].at = "refreshing") \in BOOLEAN
    OBVIOUS
  <2>4. \A c \in Session!Calls : Session!Resent[c] \in CallRow
    BY <2>1, <2>2, <2>3 DEF Session!Resent
  <2>5. call' = [c \in Session!Calls |-> Session!Resent[c]]
    BY <1>2 DEF Session!Resent
  <2> QED
    BY <2>4, <2>5
<1>5. cookie <= Len(expiry')
  BY <1>1, StillHeld
<1> QED
  BY <1>1, <1>2, <1>3, <1>4, <1>5 DEF SessionInv, Issues

LEMMA RefreshFailsKept == ASSUME SessionInv, Session!RefreshFails PROVE SessionInv'
<1> DEFINE calls == [c \in Session!Calls |->
                       CASE call[c].at = "refreshing" -> Session!Idle
                         [] call[c].at = "queued" -> [call[c] EXCEPT !.at = "lost"]
                         [] OTHER -> call[c]]
<1>1. calls \in [Session!Calls -> CallRow]
  <2>1. \A c \in Session!Calls : call[c] \in CallRow /\ [call[c] EXCEPT !.at = "lost"] \in CallRow
    BY DEF SessionInv, CallRow
  <2> QED
    BY <2>1, CallIdle
<1>2. /\ Session!LogOut(calls) /\ refresher' = NoCall
      /\ UNCHANGED <<seconds, expiry, location, staying, lastActive>>
  BY DEF Session!RefreshFails
<1> HIDE DEF calls
<1>3. Issues
  BY <1>2, SameIssues
<1> QED
  BY <1>1, <1>2, <1>3, LogsOut DEF SessionInv

LEMMA ActivityKept == ASSUME SessionInv, Session!Activity PROVE SessionInv'
BY DEF Session!Activity, SessionInv, Session!pageVars, Session!callVars

LEMMA TimerFiresKept == ASSUME SessionInv, Session!TimerFires PROVE SessionInv'
<1>1. UNCHANGED <<seconds, expiry, authStore, cookie, location, visit, call, refresher, staying, lastActive>>
  BY DEF Session!TimerFires, Session!pageVars, Session!callVars
<1>2. /\ warning \in Warnings /\ seconds \in Nat /\ lastActive \in Nat /\ lastActive <= seconds
      /\ warning.timer \in Nat /\ warning.timer # 0 /\ warning.timer <= seconds
      /\ TimerHolds(warning, authStore, expiry, seconds)
      /\ Holder(authStore, expiry) /\ expiry \in Seq(Nat)
  BY DEF SessionInv, Session!TimerFires, Session!TimerDue, Warnings
<1>3. authStore.token \in 1 .. Len(expiry)
  BY <1>2 DEF TimerHolds, Holder
<1>4. expiry[authStore.token] \in Nat
  BY <1>2, <1>3, ElementOfSeq
<1>5. /\ warning' \in Warnings /\ Warned(warning')
      /\ TimerHolds(warning', authStore, expiry, seconds)
  <2>1. CASE ~warning.again /\ seconds - lastActive < Debounce
    <3>1. warning' = [warning EXCEPT !.timer = lastActive + Debounce, !.again = TRUE]
      BY <2>1 DEF Session!TimerFires
    <3>2. /\ lastActive + Debounce \in Nat /\ seconds <= lastActive + Debounce
          /\ lastActive + Debounce # 0
          /\ warning.timer <= expiry[authStore.token] - WarnBefore
          /\ seconds <= warning.timer /\ authStore.token # 0
      BY <2>1, <1>2, SessionNumbers DEF TimerHolds
    <3>3. lastActive + Debounce <= expiry[authStore.token] - WarnBefore + Debounce
      BY <3>2, <1>2, <1>4, SessionNumbers
    <3>4. warning' \in Warnings /\ warning'.timer = lastActive + Debounce /\ warning'.again
      BY <3>1, <3>2, <1>2 DEF Warnings
    <3> QED
      BY <3>2, <3>3, <3>4 DEF TimerHolds, Warned
  <2>2. CASE ~(~warning.again /\ seconds - lastActive < Debounce)
    <3>1. warning' = Session!Show(seconds + WarnBefore)
      BY <2>2 DEF Session!TimerFires
    <3>2. seconds + WarnBefore \in Nat
      BY <1>2, SessionNumbers
    <3> QED
      BY <3>1, <3>2, WarningRows DEF TimerHolds, Warned
  <2> QED
    BY <2>1, <2>2
<1> QED
  BY <1>1, <1>5 DEF SessionInv

LEMMA OnLogOutKept == ASSUME SessionInv, Session!OnLogOut PROVE SessionInv'
<1>1. /\ Session!LogOut(call) /\ call \in [Session!Calls -> CallRow]
      /\ UNCHANGED <<seconds, expiry, location, refresher, staying, lastActive>>
  BY DEF Session!OnLogOut, SessionInv
<1>2. Issues
  BY <1>1, SameIssues
<1> QED
  BY <1>1, <1>2, LogsOut DEF SessionInv

LEMMA OnStayLoggedInKept == ASSUME SessionInv, Session!OnStayLoggedIn PROVE SessionInv'
<1>1. /\ UNCHANGED <<seconds, expiry, authStore, cookie, location, visit, call, refresher, lastActive>>
      /\ warning' = Session!Quiet /\ staying' = TRUE
  BY DEF Session!OnStayLoggedIn, Session!pageVars, Session!callVars
<1>2. warning' \in Warnings /\ TimerHolds(warning', authStore, expiry, seconds)
  BY <1>1, WarningRows DEF TimerHolds
<1> QED
  BY <1>1, <1>2 DEF SessionInv

LEMMA StayAnsweredKept == ASSUME SessionInv, Session!StayAnswered PROVE SessionInv'
<1>1. /\ staying' = FALSE /\ Session!Rendered(authStore', location, expiry')
      /\ UNCHANGED <<seconds, cookie, location, visit, call, refresher, lastActive>>
  BY DEF Session!StayAnswered, Session!pageVars, Session!callVars
<1>2. /\ Issues /\ Holder(authStore', expiry')
      /\ authStore' # authStore \/ ~Watches(authStore', location)
  <2>1. CASE Session!Issue /\ authStore' = [token |-> Session!NewToken, auth |-> TRUE]
    BY <2>1, IssueGrows
  <2>2. CASE authStore' = Session!SignedOut /\ UNCHANGED expiry
    <3>1. Issues
      BY <2>2, SameIssues
    <3> QED
      BY <2>2, <3>1 DEF Session!SignedOut, Session!NoToken, Holder, Watches, Issues
  <2> QED
    BY <2>1, <2>2 DEF Session!StayAnswered
<1>3. PICK new : new = authStore'
  OBVIOUS
<1>4. /\ warning' \in Warnings /\ TimerHolds(warning', new, expiry', seconds)
      /\ Watches(new, location) => Warned(warning')
  BY <1>1, <1>2, <1>3, RenderedWarns
<1>5. cookie <= Len(expiry')
  BY <1>2, StillHeld
<1> QED
  BY <1>1, <1>2, <1>3, <1>4, <1>5 DEF SessionInv, Issues

LEMMA TickKept == ASSUME SessionInv, Session!Tick PROVE SessionInv'
<1>1. /\ UNCHANGED <<expiry, authStore, cookie, location, visit, call, refresher, staying, lastActive, warning>>
      /\ seconds' = seconds + 1 /\ ~Session!TimerDue
  BY DEF Session!Tick, Session!pageVars, Session!callVars
<1>2. seconds \in Nat /\ warning.timer \in Nat /\ lastActive \in Nat /\ lastActive <= seconds
  BY DEF SessionInv, Warnings
<1>3. warning.timer = 0 \/ seconds + 1 <= warning.timer
  BY <1>1, <1>2 DEF Session!TimerDue
<1>4. TimerHolds(warning, authStore, expiry, seconds + 1)
  BY <1>3 DEF SessionInv, TimerHolds
<1> QED
  BY <1>1, <1>2, <1>4 DEF SessionInv

LEMMA SessionKept == ASSUME SessionInv, Session!Next \/ UNCHANGED sessionVars PROVE SessionInv'
<1>1. CASE UNCHANGED sessionVars
  BY <1>1 DEF sessionVars, SessionInv
<1>2. CASE Session!Next
  BY <1>2, LoginKept, VerifyOtpKept, SessionVisitKept, RedirectKept, ShowPageKept, LoadPageKept, CallStepKept,
     RefreshedKept, RefreshFailsKept, ActivityKept, TimerFiresKept, OnLogOutKept, OnStayLoggedInKept,
     StayAnsweredKept, TickKept
     DEF Session!Next
<1> QED
  BY <1>1, <1>2

\* useSessionTimeout.ts: whoever looks at a page with a session is shown the dialog in time.
LEMMA SessionWarns == ASSUME SessionInv PROVE Session!TypeOK /\ Session!WarnedInTime
<1>1. Session!TypeOK
  <2>1. authStore \in [token : 0 .. Len(expiry), auth : BOOLEAN] /\ cookie \in 0 .. Len(expiry)
    BY DEF SessionInv, Holder
  <2>2. visit.to \in Session!Pages \cup {"nowhere"}
    BY DEF SessionInv, Visits, Session!Nowhere
  <2> QED
    BY <2>1, <2>2 DEF SessionInv, Session!TypeOK, CallRow, Warnings
<1>2. Session!WarnedInTime
  <2> SUFFICES ASSUME authStore.auth, location \notin Session!AuthPages, ~staying, ~Session!TimerDue,
                      seconds >= expiry[authStore.token] - WarnBefore + Debounce
               PROVE  warning.shown
    BY DEF Session!WarnedInTime
  <2>1. Warned(warning)
    BY DEF SessionInv, Watches
  <2>2. ASSUME warning.timer # 0 PROVE FALSE
    <3>1. /\ authStore.token # 0 /\ Holder(authStore, expiry) /\ expiry \in Seq(Nat)
          /\ warning.timer <= expiry[authStore.token] - WarnBefore + Debounce
          /\ seconds \in Nat /\ warning.timer \in Nat /\ ~(warning.timer <= seconds)
      BY <2>2 DEF SessionInv, TimerHolds, Session!TimerDue, Warnings
    <3>2. authStore.token \in 1 .. Len(expiry)
      BY <3>1 DEF Holder
    <3>3. expiry[authStore.token] \in Nat
      BY <3>1, <3>2, ElementOfSeq
    <3> QED
      BY <3>1, <3>3, SessionNumbers
  <2> QED
    BY <2>1, <2>2 DEF Warned
<1> QED
  BY <1>1, <1>2

-----------------------------------------------------------------------------
(* The widgets of the dashboard *)

QueryRow == [status : {"pending", "success", "error"}, data : BOOLEAN, fetching : BOOLEAN]

WidgetsInv ==
    /\ hidden \in BOOLEAN
    /\ paused \in [Dashboard!Widget -> BOOLEAN] /\ caught \in [Dashboard!Widget -> BOOLEAN]
    /\ query \in [Dashboard!Widget -> QueryRow]

LEMMA NewQuery ==
    /\ Dashboard!New \in QueryRow
    /\ \A q \in QueryRow : [q EXCEPT !.fetching = TRUE] \in QueryRow
    /\ \A w, q : Dashboard!Throws(w, q) \in BOOLEAN
BY DEF Dashboard!New, QueryRow, Dashboard!Throws

LEMMA WidgetsInit == ASSUME Dashboard!Init PROVE WidgetsInv
BY NewQuery DEF Dashboard!Init, WidgetsInv

LEMMA VisibilityChangeKept == ASSUME WidgetsInv, Dashboard!VisibilityChange PROVE WidgetsInv'
<1>1. hidden' \in BOOLEAN /\ UNCHANGED caught /\ (~hidden) \in BOOLEAN
  BY DEF Dashboard!VisibilityChange, WidgetsInv
<1>2. \A w \in Dashboard!Widget :
        /\ paused[w] \in BOOLEAN /\ Dashboard!PausedNow(w, ~hidden) \in BOOLEAN
        /\ query[w] \in QueryRow /\ [query[w] EXCEPT !.fetching = TRUE] \in QueryRow
  BY <1>1, NewQuery DEF WidgetsInv, Dashboard!PausedNow
<1>3. paused' \in [Dashboard!Widget -> BOOLEAN]
  <2>1. \A w \in Dashboard!Widget :
          (IF caught[w] THEN paused[w] ELSE Dashboard!PausedNow(w, ~hidden)) \in BOOLEAN
    BY <1>2, Zenon
  <2> QED
    BY <2>1, Zenon DEF Dashboard!VisibilityChange
<1>4. query' \in [Dashboard!Widget -> QueryRow]
  <2>1. \A w \in Dashboard!Widget :
          (IF hidden /\ (~caught[w] \/ w \in Shared)
           THEN [query[w] EXCEPT !.fetching = TRUE] ELSE query[w]) \in QueryRow
    BY <1>2, Zenon
  <2> QED
    BY <2>1, Zenon DEF Dashboard!VisibilityChange
<1> QED
  BY <1>1, <1>3, <1>4 DEF WidgetsInv

LEMMA WidgetStepKept ==
    ASSUME WidgetsInv, NEW w \in Dashboard!Widget,
           Dashboard!Poll(w) \/ Dashboard!Answer(w) \/ Dashboard!TryAgain(w) \/ Dashboard!Collect(w)
    PROVE  WidgetsInv'
<1>1. query[w] \in QueryRow /\ caught[w] \in BOOLEAN /\ query[w].data \in BOOLEAN
  BY DEF WidgetsInv, QueryRow
<1>2. CASE Dashboard!Poll(w)
  <2>1. query' = [query EXCEPT ![w] = [query[w] EXCEPT !.fetching = TRUE]]
    BY <1>2 DEF Dashboard!Poll
  <2> QED
    BY <1>1, <1>2, <2>1, NewQuery DEF Dashboard!Poll, WidgetsInv
<1>3. CASE Dashboard!Answer(w)
  <2>1. PICK status \in {"success", "error"} :
          LET q == [status |-> status, data |-> query[w].data \/ status = "success", fetching |-> FALSE] IN
          /\ query' = [query EXCEPT ![w] = q]
          /\ caught' = [caught EXCEPT ![w] = @ \/ Dashboard!Throws(w, q)]
    BY <1>3 DEF Dashboard!Answer
  <2> DEFINE q == [status |-> status, data |-> query[w].data \/ status = "success", fetching |-> FALSE]
  <2>2. (query[w].data \/ status = "success") \in BOOLEAN
    BY <1>1
  <2>3. q \in QueryRow
    BY <2>2 DEF QueryRow
  <2>4. query' = [query EXCEPT ![w] = q] /\ caught' = [caught EXCEPT ![w] = @ \/ Dashboard!Throws(w, q)]
    BY <2>1
  <2>5. (caught[w] \/ Dashboard!Throws(w, q)) \in BOOLEAN
    BY <1>1, NewQuery
  <2> HIDE DEF q
  <2>6. UNCHANGED <<hidden, paused>>
    BY <1>3 DEF Dashboard!Answer
  <2>7. caught' \in [Dashboard!Widget -> BOOLEAN]
    BY <2>4, <2>5 DEF WidgetsInv
  <2> QED
    BY <2>3, <2>4, <2>6, <2>7 DEF WidgetsInv
<1>4. CASE Dashboard!TryAgain(w)
  <2> DEFINE q == IF query[w].data THEN query[w] ELSE [Dashboard!New EXCEPT !.fetching = TRUE]
  <2>1. q \in QueryRow
    BY <1>1, NewQuery
  <2>2. UNCHANGED <<paused, caught, query>>
        \/ /\ caught' = [caught EXCEPT ![w] = FALSE]
           /\ paused' = [paused EXCEPT ![w] = hidden]
           /\ query' = [query EXCEPT ![w] = [q EXCEPT !.fetching = TRUE]]
    BY <1>4, Zenon DEF Dashboard!TryAgain
  <2> HIDE DEF q
  <2>3. UNCHANGED hidden
    BY <1>4 DEF Dashboard!TryAgain
  <2>4. CASE UNCHANGED <<paused, caught, query>>
    BY <2>3, <2>4 DEF WidgetsInv
  <2>5. CASE /\ caught' = [caught EXCEPT ![w] = FALSE]
             /\ paused' = [paused EXCEPT ![w] = hidden]
             /\ query' = [query EXCEPT ![w] = [q EXCEPT !.fetching = TRUE]]
    BY <2>1, <2>3, <2>5, NewQuery DEF WidgetsInv
  <2> QED
    BY <2>2, <2>4, <2>5
<1>5. CASE Dashboard!Collect(w)
  BY <1>5, NewQuery DEF Dashboard!Collect, WidgetsInv
<1> QED
  BY <1>2, <1>3, <1>4, <1>5

LEMMA WidgetsKept == ASSUME WidgetsInv, Dashboard!Next \/ UNCHANGED widgetVars PROVE WidgetsInv'
<1>1. CASE UNCHANGED widgetVars
  BY <1>1 DEF widgetVars, WidgetsInv
<1>2. CASE Dashboard!Next
  BY <1>2, VisibilityChangeKept, WidgetStepKept DEF Dashboard!Next
<1> QED
  BY <1>1, <1>2

LEMMA WidgetsTyped == ASSUME WidgetsInv PROVE Dashboard!TypeOK
BY DEF WidgetsInv, Dashboard!TypeOK, QueryRow

-----------------------------------------------------------------------------
(* The bell *)

BellInv == Bell!TypeOK

LEMMA BellNumbers == MaxAge \in Nat /\ MaxClock \in Nat \ {0}
BY ScreensAssumption DEF Bell!NotificationsAssumption

LEMMA BellInit == ASSUME Bell!Init PROVE BellInv
BY BellNumbers DEF Bell!Init, Bell!Unread, BellInv, Bell!TypeOK

\* What is written back is no younger than the clock.
LEMMA StoredTimes ==
    ASSUME BellInv, NEW ids
    PROVE  /\ Bell!Retained \in [Notification -> 0 .. clock]
           /\ Bell!Persisted(ids) \in [Notification -> 0 .. clock]
<1>1. clock \in Nat /\ clock # 0 /\ \A n \in Notification : stored[n] \in 0 .. clock
  BY BellNumbers DEF BellInv, Bell!TypeOK
<1>2. \A n \in Notification : Bell!Retained[n] \in 0 .. clock
  BY <1>1 DEF Bell!Retained, Bell!Unread
<1>3. Bell!Retained \in [Notification -> 0 .. clock]
  BY <1>1 DEF Bell!Retained, Bell!Unread
<1>4. \A n \in Notification :
        (IF n \in ids /\ Bell!Retained[n] = Bell!Unread THEN clock ELSE Bell!Retained[n]) \in 0 .. clock
  BY <1>1, <1>2
<1>5. Bell!Persisted(ids) \in [Notification -> 0 .. clock]
  BY <1>4, Zenon DEF Bell!Persisted
<1> QED
  BY <1>3, <1>5

LEMMA BellKept == ASSUME BellInv, Bell!Next \/ UNCHANGED bellVars PROVE BellInv'
<1>1. CASE UNCHANGED bellVars
  BY <1>1 DEF bellVars, BellInv, Bell!TypeOK
<1>2. ASSUME NEW t \in Tab, Bell!Open(t) PROVE BellInv'
  <2>1. stored' \in [Notification -> 0 .. clock] /\ UNCHANGED <<clock, activity>>
    BY <1>2, StoredTimes DEF Bell!Open
  <2>2. Bell!ReadIn(Bell!Retained) \subseteq Notification
    BY DEF Bell!ReadIn
  <2> QED
    BY <1>2, <2>1, <2>2 DEF Bell!Open, BellInv, Bell!TypeOK
<1>3. ASSUME NEW t \in Tab, Bell!Fetch(t) PROVE BellInv'
  BY <1>3 DEF Bell!Fetch, BellInv, Bell!TypeOK
<1>4. ASSUME NEW t \in Tab, Bell!MarkAllAsRead(t) PROVE BellInv'
  <2>1. stored' \in [Notification -> 0 .. clock] /\ UNCHANGED <<clock, activity, seen>>
    BY <1>4, StoredTimes DEF Bell!MarkAllAsRead
  <2>2. readIds' \in [Tab -> SUBSET Notification]
    BY <1>4 DEF Bell!MarkAllAsRead, BellInv, Bell!TypeOK
  <2> QED
    BY <2>1, <2>2 DEF BellInv, Bell!TypeOK
<1>5. ASSUME NEW t \in Tab, NEW n \in Notification, Bell!MarkAsRead(t, n) PROVE BellInv'
  <2>1. stored' \in [Notification -> 0 .. clock] /\ UNCHANGED <<clock, activity, seen>>
    BY <1>5, StoredTimes DEF Bell!MarkAsRead
  <2>2. readIds' \in [Tab -> SUBSET Notification]
    BY <1>5 DEF Bell!MarkAsRead, BellInv, Bell!TypeOK
  <2> QED
    BY <2>1, <2>2 DEF BellInv, Bell!TypeOK
<1>6. ASSUME NEW n \in Notification, Bell!Report(n) PROVE BellInv'
  BY <1>6 DEF Bell!Report, BellInv, Bell!TypeOK
<1>7. CASE Bell!Tick
  BY <1>7, BellNumbers DEF Bell!Tick, BellInv, Bell!TypeOK
<1> QED
  BY <1>1, <1>2, <1>3, <1>4, <1>5, <1>6, <1>7 DEF Bell!Next

\* A time that is not old yet is written back as it was, whatever is marked.
LEMMA YoungStays ==
    ASSUME NEW n \in Notification, stored[n] # Bell!Unread, clock - stored[n] <= MaxAge
    PROVE  /\ Bell!Retained[n] = stored[n]
           /\ \A ids : Bell!Persisted(ids)[n] = stored[n]
BY DEF Bell!Retained, Bell!Persisted

LEMMA BellKeepsRead ==
    ASSUME Bell!Next \/ UNCHANGED bellVars
    PROVE  \A n \in Notification :
             stored[n] # Bell!Unread /\ clock - stored[n] <= MaxAge => stored'[n] = stored[n]
<1> SUFFICES ASSUME NEW n \in Notification, stored[n] # Bell!Unread, clock - stored[n] <= MaxAge
             PROVE  stored'[n] = stored[n]
  OBVIOUS
<1>1. \/ UNCHANGED stored
      \/ stored' = Bell!Retained
      \/ \E ids : stored' = Bell!Persisted(ids)
  BY Zenon DEF Bell!Next, Bell!Open, Bell!Fetch, Bell!MarkAllAsRead, Bell!MarkAsRead, Bell!Report,
               Bell!Tick, bellVars
<1> QED
  BY <1>1, YoungStays

-----------------------------------------------------------------------------
(* The cache of the bookings *)

\* What the cache may hold under a key.
Entry(k) == {Nothing} \cup [Cache!Covers(k) -> Cache!Status]

\* Nothing of an entry was invented: every booking once had the status it shows.
Genuine(k, entry) == entry = Nothing \/ \A b \in Cache!Covers(k) : entry[b] \in was[b]

\* Mutation m is under way, and the entry of k shows its guess, or may be put back by it.
Touches(m, k) == Cache!UnderWay(m) /\ k \in {List, mutation[m].booking}

MutationHolds(m) ==
    /\ DOMAIN mutation[m] = {"booking", "to", "at", "here", "list", "detail"}
    /\ mutation[m].booking \in Booking \cup {Nothing}
    /\ mutation[m].list \in Entry(List)
    /\ Cache!UnderWay(m) => /\ mutation[m].booking \in Booking
                            /\ mutation[m].to \in Cache!Status
                            /\ mutation[m].detail \in Entry(mutation[m].booking)

FetchHolds(k) ==
    /\ fetch[k].at \in {"idle", "asked", "answered"}
    /\ fetch[k].at = "answered" => fetch[k].answer \in Entry(k) /\ Genuine(k, fetch[k].answer)

\* The page that is shown is asked for anew after every mutation that touched it.
PageHolds ==
    (fetch[page].at = "idle" /\ \A m \in Mutation : ~Touches(m, page)) => Genuine(page, data[page])

CacheInv ==
    /\ server \in [Booking -> Cache!Status] /\ was \in [Booking -> SUBSET Cache!Status]
    /\ \A b \in Booking : server[b] \in was[b]
    /\ page \in Cache!Key
    /\ DOMAIN data = Cache!Key /\ \A k \in Cache!Key : data[k] \in Entry(k)
    /\ DOMAIN fetch = Cache!Key /\ \A k \in Cache!Key : FetchHolds(k)
    /\ DOMAIN mutation = Mutation /\ \A m \in Mutation : MutationHolds(m)
    /\ PageHolds

LEMMA Keys ==
    /\ List \notin Booking /\ List \in Cache!Key /\ Booking \subseteq Cache!Key
    /\ Cache!Covers(List) = Booking
    /\ \A b \in Booking : Cache!Covers(b) = {b}
    /\ \A k \in Cache!Key : Cache!Covers(k) \subseteq Booking
BY ScreensAssumption DEF Cache!BookingCacheAssumption, Cache!Key, Cache!Covers

LEMMA CacheInit == ASSUME Cache!Init PROVE CacheInv
<1>1. \A k \in Cache!Key : data[k] = Nothing /\ fetch[k].at \in {"idle", "asked"}
  BY Keys DEF Cache!Init, Cache!Idle, Cache!Asked
<1>2. \A m \in Mutation : /\ mutation[m].booking = Nothing /\ mutation[m].list = Nothing
                          /\ DOMAIN mutation[m] = {"booking", "to", "at", "here", "list", "detail"}
                          /\ ~Cache!UnderWay(m)
  BY DEF Cache!Init, Cache!Free, Cache!UnderWay
<1>3. PageHolds
  BY <1>1, Keys DEF PageHolds, Genuine, Cache!Init
<1>4. \A k \in Cache!Key : FetchHolds(k)
  BY <1>1 DEF FetchHolds
<1>5. \A m \in Mutation : MutationHolds(m)
  BY <1>2, Zenon DEF MutationHolds, Entry
<1>6. DOMAIN data = Cache!Key /\ \A k \in Cache!Key : data[k] \in Entry(k)
  BY <1>1 DEF Entry, Cache!Init
<1>7. DOMAIN fetch = Cache!Key /\ DOMAIN mutation = Mutation
  BY DEF Cache!Init
<1>8. /\ server \in [Booking -> Cache!Status] /\ was \in [Booking -> SUBSET Cache!Status]
      /\ \A b \in Booking : server[b] \in was[b]
      /\ page \in Cache!Key
  BY Keys DEF Cache!Init, Cache!Status
<1> QED
  BY <1>3, <1>4, <1>5, <1>6, <1>7, <1>8 DEF CacheInv

\* A step on the queries: nothing the server keeps and no mutation but where it was made.
QueryStep ==
    /\ UNCHANGED <<server, was>>
    /\ DOMAIN mutation' = Mutation
    /\ \A m \in Mutation : /\ DOMAIN mutation'[m] = DOMAIN mutation[m]
                           /\ mutation'[m].at = mutation[m].at /\ mutation'[m].to = mutation[m].to
                           /\ mutation'[m].booking = mutation[m].booking
                           /\ mutation'[m].list = mutation[m].list
                           /\ mutation'[m].detail = mutation[m].detail

LEMMA SameMutations ==
    ASSUME CacheInv, QueryStep
    PROVE  /\ \A m \in Mutation : MutationHolds(m)'
           /\ \A m \in Mutation : \A k : Touches(m, k)' <=> Touches(m, k)
           /\ \A k, e : Genuine(k, e)' <=> Genuine(k, e)
<1>1. \A m \in Mutation : Cache!UnderWay(m)' <=> Cache!UnderWay(m)
  BY DEF QueryStep, Cache!UnderWay
<1>2. \A m \in Mutation : MutationHolds(m)'
  BY <1>1 DEF QueryStep, CacheInv, MutationHolds, Entry
<1>3. \A m \in Mutation : \A k : Touches(m, k)' <=> Touches(m, k)
  BY <1>1 DEF QueryStep, Touches
<1>4. \A k, e : Genuine(k, e)' <=> Genuine(k, e)
  BY DEF QueryStep, Genuine
<1> QED
  BY <1>2, <1>3, <1>4

LEMMA VisitKept ==
    ASSUME CacheInv, NEW k \in Cache!Key, Cache!Visit(k)
    PROVE  CacheInv'
<1>1. QueryStep
  BY DEF Cache!Visit, QueryStep, CacheInv, MutationHolds
<1>2. /\ page' = k /\ UNCHANGED data /\ DOMAIN fetch' = Cache!Key
      /\ \A j \in Cache!Key : fetch'[j] = fetch[j] \/ fetch'[j] = Cache!Asked
      /\ fetch'[k].at # "idle"
  BY DEF Cache!Visit, CacheInv, Cache!Asked
<1>3. \A j \in Cache!Key : FetchHolds(j)'
  BY <1>1, <1>2, SameMutations DEF CacheInv, FetchHolds, Cache!Asked
<1>4. PageHolds'
  BY <1>2 DEF PageHolds
<1>5. \A m \in Mutation : MutationHolds(m)'
  BY <1>1, SameMutations
<1> QED
  BY <1>1, <1>2, <1>3, <1>4, <1>5 DEF CacheInv, QueryStep

LEMMA ServerReadsKept ==
    ASSUME CacheInv, NEW k \in Cache!Key, Cache!ServerReads(k)
    PROVE  CacheInv'
<1>1. QueryStep
  BY DEF Cache!ServerReads, QueryStep, CacheInv
<1>2. /\ UNCHANGED <<page, data>> /\ DOMAIN fetch' = Cache!Key
      /\ \A j \in Cache!Key \ {k} : fetch'[j] = fetch[j]
      /\ fetch'[k] = [at |-> "answered", answer |-> Cache!Show(k)]
      /\ fetch[k].at = "asked"
  BY DEF Cache!ServerReads, CacheInv
<1>3. Cache!Show(k) \in Entry(k) /\ Genuine(k, Cache!Show(k))
  BY Keys DEF Cache!Show, Entry, Genuine, CacheInv
<1>4. \A j \in Cache!Key : FetchHolds(j)'
  <2> TAKE j \in Cache!Key
  <2>1. CASE j = k
    BY <2>1, <1>1, <1>2, <1>3, SameMutations DEF FetchHolds
  <2>2. CASE j # k
    BY <2>2, <1>1, <1>2, SameMutations DEF CacheInv, FetchHolds
  <2> QED
    BY <2>1, <2>2
<1>5. PageHolds'
  <2>1. CASE page = k
    BY <2>1, <1>2 DEF PageHolds
  <2>2. CASE page # k
    BY <2>2, <1>1, <1>2, SameMutations DEF CacheInv, PageHolds
  <2> QED
    BY <2>1, <2>2
<1>6. \A m \in Mutation : MutationHolds(m)'
  BY <1>1, SameMutations
<1> QED
  BY <1>1, <1>2, <1>4, <1>5, <1>6 DEF CacheInv, QueryStep

LEMMA FetchArrivesKept ==
    ASSUME CacheInv, NEW k \in Cache!Key, Cache!FetchArrives(k)
    PROVE  CacheInv'
<1>1. QueryStep
  BY DEF Cache!FetchArrives, QueryStep, CacheInv
<1>2. /\ UNCHANGED page /\ DOMAIN fetch' = Cache!Key /\ DOMAIN data' = Cache!Key
      /\ \A j \in Cache!Key \ {k} : fetch'[j] = fetch[j] /\ data'[j] = data[j]
      /\ fetch'[k] = Cache!Idle /\ data'[k] = fetch[k].answer
      /\ fetch[k].at = "answered"
  BY DEF Cache!FetchArrives, CacheInv
<1>3. fetch[k].answer \in Entry(k) /\ Genuine(k, fetch[k].answer)
  BY <1>2 DEF CacheInv, FetchHolds
<1>4. \A j \in Cache!Key : FetchHolds(j)'
  <2> TAKE j \in Cache!Key
  <2>1. CASE j = k
    BY <2>1, <1>2 DEF FetchHolds, Cache!Idle
  <2>2. CASE j # k
    BY <2>2, <1>1, <1>2, SameMutations DEF CacheInv, FetchHolds
  <2> QED
    BY <2>1, <2>2
<1>5. PageHolds'
  <2>1. CASE page = k
    BY <2>1, <1>1, <1>2, <1>3, SameMutations DEF PageHolds
  <2>2. CASE page # k
    BY <2>2, <1>1, <1>2, SameMutations DEF CacheInv, PageHolds
  <2> QED
    BY <2>1, <2>2
<1>6. \A j \in Cache!Key : data'[j] \in Entry(j)
  BY <1>2, <1>3 DEF CacheInv
<1>7. \A m \in Mutation : MutationHolds(m)'
  BY <1>1, SameMutations
<1> QED
  BY <1>1, <1>2, <1>4, <1>5, <1>6, <1>7 DEF CacheInv, QueryStep

LEMMA MutateKept ==
    ASSUME CacheInv, NEW m \in Mutation, NEW b \in Booking, NEW to \in {"confirmed", "cancelled"},
           Cache!Mutate(m, b, to)
    PROVE  CacheInv'
<1>1. /\ UNCHANGED <<server, was, page>> /\ page = b
      /\ DOMAIN fetch' = Cache!Key /\ DOMAIN data' = Cache!Key /\ DOMAIN mutation' = Mutation
      /\ \A k \in Cache!Key : fetch'[k] = fetch[k] \/ fetch'[k] = Cache!Idle
      /\ \A n \in Mutation \ {m} : mutation'[n] = mutation[n]
      /\ mutation'[m] = [booking |-> b, to |-> to, at |-> "sent", here |-> TRUE,
                         list |-> data[List], detail |-> data[b]]
  BY DEF Cache!Mutate, CacheInv
<1>2. \A k \in Cache!Key : data'[k] = data[k] \/ (k = b /\ data'[k] = Cache!Overwritten(b, b, to))
                             \/ (k = List /\ data'[k] = Cache!Overwritten(List, b, to))
  BY Keys DEF Cache!Mutate, CacheInv
<1>3. /\ Cache!Overwritten(b, b, to) \in Entry(b)
      /\ Cache!Overwritten(List, b, to) \in Entry(List)
  <2>1. \A k \in {b, List} : data[k] \in Entry(k) /\ b \in Cache!Covers(k)
    BY Keys DEF CacheInv
  <2>2. to \in Cache!Status
    BY DEF Cache!Status
  <2>3. \A k \in {b, List} : Cache!Overwritten(k, b, to) \in Entry(k)
    BY <2>1, <2>2 DEF Entry, Cache!Overwritten
  <2> QED
    BY <2>3
<1>4. \A k \in Cache!Key : data'[k] \in Entry(k)
  BY <1>2, <1>3 DEF CacheInv
<1>5. \A k \in Cache!Key : FetchHolds(k)'
  BY <1>1 DEF CacheInv, FetchHolds, Cache!Idle, Genuine
<1>6. \A n \in Mutation : MutationHolds(n)'
  <2> TAKE n \in Mutation
  <2>1. CASE n = m
    <3>1. /\ data[List] \in Entry(List) /\ data[b] \in Entry(b) /\ to \in Cache!Status
          /\ Entry(List)' = Entry(List) /\ Entry(b)' = Entry(b)
      BY Keys DEF CacheInv, Cache!Status, Entry
    <3>2. /\ mutation'[m].booking = b /\ mutation'[m].to = to
          /\ mutation'[m].list = data[List] /\ mutation'[m].detail = data[b]
          /\ DOMAIN mutation'[m] = {"booking", "to", "at", "here", "list", "detail"}
      BY <1>1
    <3> QED
      BY <2>1, <3>1, <3>2 DEF MutationHolds
  <2>2. CASE n # m
    BY <2>2, <1>1 DEF CacheInv, MutationHolds, Cache!UnderWay
  <2> QED
    BY <2>1, <2>2
<1>7. Touches(m, page)'
  BY <1>1 DEF Touches, Cache!UnderWay
<1>8. PageHolds'
  BY <1>7 DEF PageHolds
<1> QED
  BY <1>1, <1>4, <1>5, <1>6, <1>8 DEF CacheInv

LEMMA ServerActsKept ==
    ASSUME CacheInv, NEW m \in Mutation, Cache!ServerActs(m)
    PROVE  CacheInv'
<1>1. /\ UNCHANGED <<page, data, fetch>> /\ mutation[m].at = "sent"
      /\ DOMAIN mutation' = Mutation
      /\ \A n \in Mutation \ {m} : mutation'[n] = mutation[n]
      /\ mutation'[m].at \in {"refused", "done"} /\ DOMAIN mutation'[m] = DOMAIN mutation[m]
      /\ mutation'[m].to = mutation[m].to
      /\ mutation'[m].booking = mutation[m].booking
      /\ mutation'[m].list = mutation[m].list /\ mutation'[m].detail = mutation[m].detail
  BY DEF Cache!ServerActs, CacheInv, MutationHolds
<1>2. mutation[m].booking \in Booking /\ mutation[m].to \in Cache!Status
  BY <1>1 DEF CacheInv, MutationHolds, Cache!UnderWay
<1>3. /\ server' \in [Booking -> Cache!Status] /\ was' \in [Booking -> SUBSET Cache!Status]
      /\ \A b \in Booking : server'[b] \in was'[b] /\ was[b] \subseteq was'[b]
  <2>1. CASE UNCHANGED <<server, was>>
    BY <2>1 DEF CacheInv
  <2>2. CASE /\ server' = [server EXCEPT ![mutation[m].booking] = mutation[m].to]
             /\ was' = [was EXCEPT ![mutation[m].booking] = @ \cup {mutation[m].to}]
    BY <2>2, <1>2 DEF CacheInv
  <2> QED
    BY <2>1, <2>2 DEF Cache!ServerActs
<1>4. \A k \in Cache!Key : \A e : Genuine(k, e) => Genuine(k, e)'
  BY <1>3, Keys DEF Genuine
<1>5. \A n \in Mutation : Cache!UnderWay(n)' <=> Cache!UnderWay(n)
  BY <1>1 DEF Cache!UnderWay
<1>6. \A n \in Mutation : MutationHolds(n)'
  BY <1>1, <1>5 DEF MutationHolds, CacheInv, Entry
<1>7. \A n \in Mutation : \A k : Touches(n, k)' <=> Touches(n, k)
  BY <1>1, <1>5 DEF Touches
<1>8. \A k \in Cache!Key : FetchHolds(k)'
  BY <1>1, <1>4 DEF CacheInv, FetchHolds
<1>9. PageHolds'
  BY <1>1, <1>4, <1>7 DEF CacheInv, PageHolds
<1> QED
  BY <1>1, <1>3, <1>6, <1>8, <1>9 DEF CacheInv

\* A mutation that is over: the entries it touched are as they were or put back, and the page
\* is asked for anew when it shows one of them.
Ends(m) ==
    /\ Cache!UnderWay(m) /\ UNCHANGED <<server, was, page>>
    /\ fetch' = Cache!Settled(mutation[m].booking)
    /\ mutation' = [mutation EXCEPT ![m] = Cache!Over]
    /\ DOMAIN data' = Cache!Key /\ \A k \in Cache!Key : data'[k] \in Entry(k)
    /\ \A k \in Cache!Key \ {List, mutation[m].booking} : data'[k] = data[k]

LEMMA EndsKept == ASSUME CacheInv, NEW m \in Mutation, Ends(m) PROVE CacheInv'
<1>1. /\ DOMAIN mutation' = Mutation /\ mutation'[m] = Cache!Over
      /\ \A n \in Mutation \ {m} : mutation'[n] = mutation[n]
  BY DEF Ends, CacheInv
<1>2. /\ DOMAIN fetch' = Cache!Key
      /\ \A k \in Cache!Key : fetch'[k] = fetch[k] \/ fetch'[k] = Cache!Asked
      /\ page \in {List, mutation[m].booking} => fetch'[page] = Cache!Asked
  BY DEF Ends, CacheInv, Cache!Settled
<1>3. ~Cache!UnderWay(m)' /\ \A n \in Mutation \ {m} : Cache!UnderWay(n)' <=> Cache!UnderWay(n)
  BY <1>1 DEF Cache!UnderWay, Cache!Over
<1>4. \A n \in Mutation : MutationHolds(n)'
  <2> TAKE n \in Mutation
  <2>1. CASE n = m
    BY <2>1, <1>1, <1>3 DEF MutationHolds, Cache!Over, Cache!Free, Entry
  <2>2. CASE n # m
    BY <2>2, <1>1, <1>3 DEF MutationHolds, CacheInv, Entry
  <2> QED
    BY <2>1, <2>2
<1>5. \A k, e : Genuine(k, e)' <=> Genuine(k, e)
  BY DEF Ends, Genuine
<1>6. \A k \in Cache!Key : FetchHolds(k)'
  BY <1>2, <1>5 DEF CacheInv, FetchHolds, Cache!Asked
<1>7. PageHolds'
  <2>1. CASE page \in {List, mutation[m].booking}
    BY <2>1, <1>2 DEF PageHolds, Ends, Cache!Asked
  <2>2. CASE page \notin {List, mutation[m].booking}
    <3>1. data'[page] = data[page] /\ page' = page
      BY <2>2 DEF Ends, CacheInv
    <3>2. ~Touches(m, page)
      BY <2>2 DEF Touches
    <3>3. \A n \in Mutation \ {m} : Touches(n, page)' <=> Touches(n, page)
      BY <3>1, <1>1, <1>3 DEF Touches
    <3>4. fetch'[page].at = "idle" => fetch[page].at = "idle"
      BY <1>2 DEF CacheInv, Cache!Asked
    <3>5. (\A n \in Mutation : ~Touches(n, page)') => \A n \in Mutation : ~Touches(n, page)
      BY <3>2, <3>3
    <3> QED
      BY <3>1, <3>4, <3>5, <1>5 DEF PageHolds, CacheInv
  <2> QED
    BY <2>1, <2>2
<1> QED
  BY <1>1, <1>2, <1>4, <1>6, <1>7 DEF CacheInv, Ends

LEMMA SucceedKept == ASSUME CacheInv, NEW m \in Mutation, Cache!Succeed(m) PROVE CacheInv'
<1>1. Cache!UnderWay(m)
  BY DEF Cache!Succeed, Cache!UnderWay
<1>2. Ends(m)
  BY <1>1 DEF Cache!Succeed, Ends, CacheInv
<1> QED
  BY <1>2, EndsKept

LEMMA FailKept == ASSUME CacheInv, NEW m \in Mutation, Cache!Fail(m) PROVE CacheInv'
<1> DEFINE b == mutation[m].booking
<1>1. Cache!UnderWay(m) /\ b \in Booking /\ b # List
  BY Keys DEF Cache!Fail, CacheInv, MutationHolds
<1>2. /\ mutation[m].list \in Entry(List) /\ mutation[m].detail \in Entry(b)
      /\ data[List] \in Entry(List) /\ data[b] \in Entry(b)
  BY <1>1, Keys DEF CacheInv, MutationHolds
<1>3. /\ DOMAIN data' = Cache!Key
      /\ data'[List] = Cache!PutBack(List, mutation[m].list)
      /\ data'[b] = Cache!PutBack(b, mutation[m].detail)
      /\ \A k \in Cache!Key \ {List, b} : data'[k] = data[k]
  BY <1>1, Keys DEF Cache!Fail, CacheInv
<1>4. data'[List] \in Entry(List) /\ data'[b] \in Entry(b)
  BY <1>2, <1>3 DEF Cache!PutBack
<1>5. \A k \in Cache!Key : data'[k] \in Entry(k)
  BY <1>3, <1>4 DEF CacheInv
<1>6. Ends(m)
  BY <1>1, <1>3, <1>5 DEF Cache!Fail, Ends
<1> QED
  BY <1>6, EndsKept

LEMMA CacheKept == ASSUME CacheInv, Cache!Next \/ UNCHANGED cacheVars PROVE CacheInv'
<1>1. CASE UNCHANGED cacheVars
  BY <1>1 DEF cacheVars, CacheInv, PageHolds, FetchHolds, MutationHolds, Genuine, Touches,
              Cache!UnderWay, Entry
<1>2. ASSUME NEW k \in Cache!Key, Cache!Visit(k) \/ Cache!ServerReads(k) \/ Cache!FetchArrives(k)
      PROVE  CacheInv'
  BY <1>2, VisitKept, ServerReadsKept, FetchArrivesKept
<1>3. ASSUME NEW m \in Mutation, NEW b \in Booking, NEW to \in {"confirmed", "cancelled"},
             Cache!Mutate(m, b, to)
      PROVE  CacheInv'
  BY <1>3, MutateKept
<1>4. ASSUME NEW m \in Mutation, Cache!ServerActs(m) \/ Cache!Succeed(m) \/ Cache!Fail(m)
      PROVE  CacheInv'
  BY <1>4, ServerActsKept, SucceedKept, FailKept
<1> QED
  BY <1>1, <1>2, <1>3, <1>4 DEF Cache!Next

LEMMA CacheIsGenuine == ASSUME CacheInv PROVE Cache!TypeOK /\ Cache!NothingInvented
<1>1. Cache!TypeOK
  BY DEF CacheInv, Cache!TypeOK, FetchHolds, MutationHolds, Entry
<1>2. ASSUME Cache!Quiet PROVE \A b \in DOMAIN data[page] : data[page][b] \in was[b]
  <2>1. Genuine(page, data[page]) /\ data[page] # Nothing
    BY <1>2 DEF CacheInv, PageHolds, Touches, Cache!Quiet
  <2>2. DOMAIN data[page] = Cache!Covers(page)
    BY <2>1 DEF CacheInv, Entry
  <2> QED
    BY <2>1, <2>2 DEF Genuine
<1> QED
  BY <1>1, <1>2 DEF Cache!NothingInvented

-----------------------------------------------------------------------------
(* The pages that make a booking *)

Slots == [start : Time \cup {0}, end : Time \cup {0}]

WizardStore ==
    [currentStep : 1 .. 4, workspaceId : Workspace \cup {Nothing}, timeSlot : Slots,
     confirmed : BOOLEAN, lastBookingId : {0} \cup DOMAIN post]

\* Nothing is asked for but from the third page, which checked the slot when it was opened:
\* the slot can be changed on the second page only.
WizardInv ==
    /\ store \in WizardStore
    /\ step \in 1 .. 4 /\ arriving \in BOOLEAN /\ mine \in {0} \cup DOMAIN post
    /\ \E n \in Nat : DOMAIN post = 1 .. n
    /\ \A i \in DOMAIN post : /\ DOMAIN post[i] = {"workspace", "slot", "answered"}
                              /\ post[i].workspace # Nothing
                              /\ Wizard!isValidTimeRange(post[i].slot)
    /\ step = 3 /\ ~arriving => Wizard!isValidTimeRange(store.timeSlot)

LEMMA WizardInit == ASSUME Wizard!Init PROVE WizardInv
<1>1. /\ step = 1 /\ arriving = FALSE /\ mine = 0 /\ DOMAIN post = {}
      /\ store = Wizard!initialState
  BY DEF Wizard!Init
<1>2. store \in WizardStore
  BY <1>1 DEF WizardStore, Wizard!initialState, Wizard!EmptySlot, Wizard!Blank, Slots
<1>3. \E n \in Nat : DOMAIN post = 1 .. n
  <2>1. DOMAIN post = 1 .. 0 /\ 0 \in Nat
    BY <1>1
  <2> QED
    BY <2>1
<1>4. step \in 1 .. 4 /\ mine \in {0} \cup DOMAIN post
  BY <1>1
<1>5. arriving \in BOOLEAN
  BY <1>1
<1> QED
  BY <1>1, <1>2, <1>3, <1>4, <1>5 DEF WizardInv

\* A step that leaves the requests alone.
Browses ==
    /\ UNCHANGED post /\ store' \in WizardStore
    /\ step' \in 1 .. 4 /\ arriving' \in BOOLEAN /\ mine' \in {0, mine}
    /\ step' = 3 /\ ~arriving' => Wizard!isValidTimeRange(store'.timeSlot)

LEMMA BrowsesKept == ASSUME WizardInv, Browses PROVE WizardInv'
<1>1. UNCHANGED post /\ UNCHANGED DOMAIN post
  BY DEF Browses
<1>2. store' \in WizardStore'
  BY <1>1 DEF Browses, WizardStore
<1>3. mine' \in {0} \cup DOMAIN post
  BY DEF Browses, WizardInv
<1> QED
  BY <1>1, <1>2, <1>3 DEF Browses, WizardInv

LEMMA StoreFields ==
    ASSUME WizardInv
    PROVE  /\ store \in WizardStore /\ store.currentStep \in 1 .. 4
           /\ \A p \in 1 .. 4 : [store EXCEPT !.currentStep = p] \in WizardStore
           /\ \A w \in Workspace : [store EXCEPT !.workspaceId = w] \in WizardStore
           /\ \A slot \in Slots : [store EXCEPT !.timeSlot = slot] \in WizardStore
           /\ \A b \in BOOLEAN : [store EXCEPT !.confirmed = b] \in WizardStore
           /\ store.confirmed \in BOOLEAN
BY DEF WizardInv, WizardStore

LEMMA ArriveKept == ASSUME WizardInv, Wizard!Arrive PROVE WizardInv'
<1>1. UNCHANGED post /\ step \in 1 .. 4 /\ store \in WizardStore
  BY DEF Wizard!Arrive, WizardInv
<1>2. CASE Wizard!Needed(step) = step
  <2>1. store' = [store EXCEPT !.currentStep = step] /\ arriving' = FALSE /\ UNCHANGED <<step, mine>>
    BY <1>2 DEF Wizard!Arrive
  <2>2. store' \in WizardStore /\ store'.timeSlot = store.timeSlot
    BY <1>1, <2>1, StoreFields DEF WizardStore
  <2>3. step = 3 => Wizard!isValidTimeRange(store.timeSlot)
    BY <1>2 DEF Wizard!Needed, Wizard!canAdvance
  <2>4. Browses
    BY <1>1, <2>1, <2>2, <2>3 DEF Browses
  <2> QED
    BY <2>4, BrowsesKept
<1>3. CASE Wizard!Needed(step) # step
  <2>1. /\ step' = Wizard!Needed(step) /\ arriving' = TRUE /\ mine' = 0 /\ UNCHANGED store
    BY <1>3 DEF Wizard!Arrive, Wizard!Open
  <2>2. Wizard!Needed(step) \in {1, 2, step}
    BY Zenon DEF Wizard!Needed
  <2>3. Browses
    BY <1>1, <2>1, <2>2 DEF Browses
  <2> QED
    BY <2>3, BrowsesKept
<1> QED
  BY <1>2, <1>3

LEMMA GoToKept ==
    ASSUME WizardInv, NEW p \in Wizard!Step, Wizard!GoTo(p) \/ Wizard!StepClick(p)
    PROVE  WizardInv'
<1>1. p \in 1 .. 4
  BY DEF Wizard!Step
<1>2. step' = p /\ arriving' = TRUE /\ mine' = 0 /\ UNCHANGED post
  BY DEF Wizard!GoTo, Wizard!StepClick, Wizard!Open
<1>3. store' \in WizardStore
  BY <1>1, StoreFields DEF Wizard!GoTo, Wizard!StepClick
<1>4. Browses
  BY <1>1, <1>2, <1>3 DEF Browses
<1> QED
  BY <1>4, BrowsesKept

LEMMA LoadKept == ASSUME WizardInv, NEW p \in Wizard!Step, Wizard!Load(p) PROVE WizardInv'
<1>1. p \in 1 .. 4
  BY DEF Wizard!Step
<1>2. /\ step' = p /\ arriving' = TRUE /\ mine' = 0 /\ UNCHANGED store
      /\ DOMAIN post' = DOMAIN post
  BY DEF Wizard!Load, Wizard!Open
<1>3. \A i \in DOMAIN post : /\ DOMAIN post'[i] = {"workspace", "slot", "answered"}
                             /\ post'[i].workspace = post[i].workspace
                             /\ post'[i].slot = post[i].slot
  BY DEF Wizard!Load, WizardInv
<1>4. store' \in WizardStore'
  BY <1>2 DEF WizardInv, WizardStore
<1> QED
  BY <1>1, <1>2, <1>3, <1>4 DEF WizardInv

LEMMA FillInKept ==
    ASSUME WizardInv,
           \/ \E w \in Workspace : Wizard!SetWorkspaceId(w)
           \/ \E slot \in Slots : Wizard!SetTimeSlot(slot)
           \/ Wizard!SetPaymentDetails
    PROVE  WizardInv'
<1>1. UNCHANGED <<step, arriving, post, mine>> /\ step \in 1 .. 4 /\ arriving \in BOOLEAN
  BY DEF Wizard!SetWorkspaceId, Wizard!SetTimeSlot, Wizard!SetPaymentDetails, WizardInv
<1>2. store' \in WizardStore
  BY StoreFields DEF Wizard!SetWorkspaceId, Wizard!SetTimeSlot, Wizard!SetPaymentDetails
<1>3. step = 3 => store'.timeSlot = store.timeSlot
  BY StoreFields DEF Wizard!SetWorkspaceId, Wizard!SetTimeSlot, Wizard!SetPaymentDetails, Wizard!Shown,
     WizardStore
<1>4. Browses
  BY <1>1, <1>2, <1>3 DEF Browses, WizardInv
<1> QED
  BY <1>4, BrowsesKept

LEMMA TurnKept == ASSUME WizardInv, Wizard!NextPage \/ Wizard!Back PROVE WizardInv'
<1>1. store.currentStep \in 1 .. 4
  BY StoreFields
<1>2. Wizard!nextStep \in WizardStore
  <2>1. Wizard!canAdvance(store.currentStep) => store.currentStep + 1 \in 1 .. 4
    BY <1>1 DEF Wizard!canAdvance
  <2> QED
    BY <2>1, StoreFields DEF Wizard!nextStep
<1>3. Wizard!prevStep \in WizardStore
  BY <1>1, StoreFields DEF Wizard!prevStep
<1>4. /\ step' \in 1 .. 4 /\ arriving' = TRUE /\ mine' = 0 /\ UNCHANGED post
  BY DEF Wizard!NextPage, Wizard!Back, Wizard!Open
<1>5. store' \in WizardStore
  BY <1>2, <1>3 DEF Wizard!NextPage, Wizard!Back
<1>6. Browses
  BY <1>4, <1>5 DEF Browses
<1> QED
  BY <1>6, BrowsesKept

LEMMA ConfirmKept == ASSUME WizardInv, Wizard!Confirm PROVE WizardInv'
<1>1. PICK n \in Nat : DOMAIN post = 1 .. n
  BY DEF WizardInv
<1>2. Wizard!Cardinality(DOMAIN post) = n
  <2>1. Wizard!Cardinality(DOMAIN post) = Cardinality(DOMAIN post)
    BY Zenon DEF Wizard!Cardinality, Cardinality
  <2>2. Cardinality(1 .. n) = n
    BY FS_Interval
  <2> QED
    BY <1>1, <2>1, <2>2
<1>3. /\ post' = [j \in 1 .. n + 1 |->
                    IF j < n + 1 THEN post[j]
                    ELSE [workspace |-> store.workspaceId, slot |-> store.timeSlot, answered |-> FALSE]]
      /\ mine' = n + 1 /\ UNCHANGED <<store, step, arriving>>
  BY <1>2 DEF Wizard!Confirm
<1>4. /\ step = 3 /\ ~arriving /\ Wizard!isValidTimeRange(store.timeSlot)
      /\ store.workspaceId # Nothing
  BY DEF Wizard!Confirm, Wizard!Shown, WizardInv
<1>5. DOMAIN post' = 1 .. n + 1 /\ n + 1 \in Nat /\ DOMAIN post \subseteq DOMAIN post'
  BY <1>1, <1>3
<1>6. \A i \in DOMAIN post' : /\ DOMAIN post'[i] = {"workspace", "slot", "answered"}
                              /\ post'[i].workspace # Nothing
                              /\ Wizard!isValidTimeRange(post'[i].slot)
  <2> TAKE i \in DOMAIN post'
  <2>1. CASE i < n + 1
    <3>1. i \in DOMAIN post /\ post'[i] = post[i]
      BY <1>1, <1>3, <2>1
    <3> QED
      BY <3>1 DEF WizardInv
  <2>2. CASE ~(i < n + 1)
    BY <1>3, <1>4, <2>2
  <2> QED
    BY <2>1, <2>2
<1>7. store' \in WizardStore'
  BY <1>3, <1>5 DEF WizardInv, WizardStore
<1>8. mine' \in DOMAIN post'
  BY <1>3, <1>5
<1>9. \E k \in Nat : DOMAIN post' = 1 .. k
  BY <1>5
<1> QED
  BY <1>3, <1>4, <1>6, <1>7, <1>8, <1>9 DEF WizardInv

LEMMA AnsweredKept ==
    ASSUME WizardInv, NEW i \in DOMAIN post, Wizard!Booked(i) \/ Wizard!NotBooked(i)
    PROVE  WizardInv'
<1>1. post' = [post EXCEPT ![i].answered = TRUE]
  BY DEF Wizard!Booked, Wizard!NotBooked
<1>2. /\ DOMAIN post' = DOMAIN post
      /\ \A j \in DOMAIN post : /\ DOMAIN post'[j] = {"workspace", "slot", "answered"}
                                /\ post'[j].workspace = post[j].workspace
                                /\ post'[j].slot = post[j].slot
  BY <1>1 DEF WizardInv
<1>3. CASE Wizard!Booked(i)
  <2>1. /\ store' = [store EXCEPT !.lastBookingId = i, !.currentStep = 4]
        /\ step' = 4 /\ arriving' = TRUE /\ mine' = 0
    BY <1>3 DEF Wizard!Booked, Wizard!Open
  <2>2. store' \in WizardStore
    <3>1. store \in WizardStore /\ i \in {0} \cup DOMAIN post
      BY DEF WizardInv
    <3>2. [store EXCEPT !.lastBookingId = i] \in WizardStore
      BY <3>1 DEF WizardStore
    <3>3. store' = [[store EXCEPT !.lastBookingId = i] EXCEPT !.currentStep = 4]
      BY <2>1
    <3>4. \A s \in WizardStore : [s EXCEPT !.currentStep = 4] \in WizardStore
      BY DEF WizardStore
    <3> QED
      BY <3>2, <3>3, <3>4
  <2>3. store' \in WizardStore'
    BY <2>2, <1>2 DEF WizardStore
  <2> QED
    BY <1>2, <2>1, <2>3 DEF WizardInv
<1>4. CASE Wizard!NotBooked(i)
  <2>1. UNCHANGED <<store, step, arriving>> /\ mine' \in {0, mine}
    BY <1>4 DEF Wizard!NotBooked
  <2>2. store' \in WizardStore' /\ mine' \in {0} \cup DOMAIN post'
    BY <2>1, <1>2 DEF WizardInv, WizardStore
  <2> QED
    BY <1>2, <2>1, <2>2 DEF WizardInv
<1> QED
  BY <1>3, <1>4

LEMMA BookAnotherKept == ASSUME WizardInv, Wizard!BookAnother PROVE WizardInv'
<1>1. /\ store' = Wizard!initialState /\ step' = 1 /\ arriving' = TRUE /\ mine' = 0 /\ UNCHANGED post
  BY DEF Wizard!BookAnother, Wizard!Open
<1>2. store' \in WizardStore
  BY <1>1 DEF WizardStore, Wizard!initialState, Wizard!EmptySlot, Wizard!Blank, Slots
<1>3. Browses
  BY <1>1, <1>2 DEF Browses
<1> QED
  BY <1>3, BrowsesKept

LEMMA WizardKept == ASSUME WizardInv, Wizard!Next \/ UNCHANGED wizardVars PROVE WizardInv'
<1>1. CASE UNCHANGED wizardVars
  BY <1>1 DEF wizardVars, WizardInv, WizardStore
<1>2. ASSUME NEW a \in Time \cup {Wizard!Blank}, NEW b \in Time \cup {Wizard!Blank},
             Wizard!SetTimeSlot([start |-> a, end |-> b])
      PROVE  WizardInv'
  <2>1. [start |-> a, end |-> b] \in Slots
    BY DEF Slots, Wizard!Blank
  <2> QED
    BY <1>2, <2>1, FillInKept
<1>3. CASE \/ \E w \in Workspace : Wizard!SetWorkspaceId(w)
           \/ Wizard!SetPaymentDetails
  BY <1>3, FillInKept
<1>4. CASE Wizard!Next
  BY <1>2, <1>3, <1>4, ArriveKept, GoToKept, LoadKept, TurnKept, ConfirmKept, AnsweredKept, BookAnotherKept
     DEF Wizard!Next
<1> QED
  BY <1>1, <1>4

LEMMA WizardAsks == ASSUME WizardInv PROVE Wizard!TypeOK /\ Wizard!AskedForIsValid
BY DEF WizardInv, WizardStore, Wizard!TypeOK, Wizard!AskedForIsValid, Wizard!Step

-----------------------------------------------------------------------------
(* The calendar of a workspace *)

CalendarInv ==
    /\ offset \in Zones
    /\ week \in 0 .. Weeks - 1
    /\ \A b \in booked : b.by \in {"me", "other"}
    /\ DOMAIN day = Calendar!Days
    /\ \A d \in Calendar!Days : DOMAIN day[d] \in {{}, Calendar!Hours(d)}
    /\ posting.busy \in BOOLEAN

LEMMA CalendarNumbers ==
    WeekDays \in Nat /\ Weeks \in Nat /\ Weeks # 0
BY ScreensAssumption DEF Calendar!WorkspacePageAssumption

LEMMA CalendarInit == ASSUME Calendar!Init PROVE CalendarInv
<1>1. 0 \in 0 .. Weeks - 1
  BY CalendarNumbers
<1>2. \A d \in Calendar!Days : DOMAIN day[d] = {}
  BY DEF Calendar!Init, Calendar!NotLoaded
<1> QED
  BY <1>1, <1>2 DEF Calendar!Init, CalendarInv

LEMMA CalendarKept == ASSUME CalendarInv, Calendar!Next \/ UNCHANGED calendarVars PROVE CalendarInv'
<1>1. CASE UNCHANGED calendarVars
  BY <1>1 DEF calendarVars, CalendarInv, Calendar!Days, Calendar!Hours
<1>2. ASSUME NEW hour \in OtherHour, Calendar!OthersBook(hour) PROVE CalendarInv'
  <2>1. \A b \in booked' : b.by \in {"me", "other"}
    BY <1>2 DEF Calendar!OthersBook, Calendar!Reservation, CalendarInv
  <2> QED
    BY <1>2, <2>1 DEF Calendar!OthersBook, CalendarInv
<1>3. ASSUME NEW d \in Calendar!Days, Calendar!Fetch(d) PROVE CalendarInv'
  <2>1. /\ DOMAIN day' = Calendar!Days /\ \A e \in Calendar!Days \ {d} : day'[e] = day[e]
        /\ day'[d] = Calendar!GetHourlyAvailability(d)
    BY <1>3 DEF Calendar!Fetch, CalendarInv
  <2>2. DOMAIN day'[d] = Calendar!Hours(d)
    BY <2>1 DEF Calendar!GetHourlyAvailability
  <2>3. \A e \in Calendar!Days : DOMAIN day'[e] \in {{}, Calendar!Hours(e)}
    BY <2>1, <2>2 DEF CalendarInv
  <2> QED
    BY <1>3, <2>1, <2>3 DEF Calendar!Fetch, CalendarInv
<1>4. ASSUME NEW hour \in Clicked, Calendar!HandleSlotSelect(hour) PROVE CalendarInv'
  BY <1>4 DEF Calendar!HandleSlotSelect, CalendarInv
<1>5. ASSUME NEW w \in 0 .. Weeks - 1, Calendar!GoToWeek(w) PROVE CalendarInv'
  BY <1>5 DEF Calendar!GoToWeek, CalendarInv
<1>6. ASSUME NEW t \in Typed, Calendar!TypeStart(t) \/ Calendar!TypeEnd(t) PROVE CalendarInv'
  BY <1>6 DEF Calendar!TypeStart, Calendar!TypeEnd, CalendarInv
<1>7. CASE Calendar!HandleSubmit
  BY <1>7 DEF Calendar!HandleSubmit, CalendarInv
<1>8. CASE Calendar!Book
  <2>1. \A b \in booked' : b.by \in {"me", "other"}
    BY <1>8 DEF Calendar!Book, Calendar!Reservation, CalendarInv
  <2> QED
    BY <1>8, <2>1 DEF Calendar!Book, CalendarInv
<1>9. CASE Calendar!Refuse
  BY <1>9 DEF Calendar!Refuse, CalendarInv
<1> QED
  BY <1>1, <1>2, <1>3, <1>4, <1>5, <1>6, <1>7, <1>8, <1>9 DEF Calendar!Next

LEMMA CalendarTyped == ASSUME CalendarInv PROVE Calendar!TypeOK
BY DEF CalendarInv, Calendar!TypeOK

-----------------------------------------------------------------------------
(* The filters of the list of workspaces *)

FilterTerms == {<<>>} \cup [1 .. 2 -> Character]

\* Rows are those of their key, and a fetch under way brings those of its key; a page at rest
\* whose last fetch did not fail shows the rows of the key it observes.
FilterInv ==
    /\ url \in Filter!Filters /\ debounced \in FilterTerms
    /\ nav \in Filter!Filters \cup {Nothing}
    /\ cached \in [Filter!Filters -> Filter!Filters \cup {Nothing}]
    /\ fetching \in [Filter!Filters -> Filter!Filters \cup {Nothing}]
    /\ \A key \in Filter!Filters : cached[key] \in {Nothing, key} /\ fetching[key] \in {Nothing, key}
    /\ failed \subseteq Filter!Filters
    /\ shown \in Filter!Filters \cup {Nothing}
    /\ fetching[Filter!Asked] = Nothing => Filter!Asked \in failed \/ shown = Filter!Asked

LEMMA FilterNumbers == Nothing \notin Filter!Filters
BY ScreensAssumption DEF Filter!ListFiltersAssumption

\* What is asked for, and its key, is a choice of filters.
LEMMA FilterAsks ==
    ASSUME NEW f \in Filter!Filters, NEW term \in FilterTerms
    PROVE  /\ Filter!Request(f, term) \in Filter!Filters
           /\ Filter!QueryKey(Filter!Request(f, term)) = Filter!Request(f, term)
           /\ Filter!Request(f, term) # Nothing
<1>1. Filter!EffectiveSearch(term) \in {term, <<>>}
  BY Zenon DEF Filter!EffectiveSearch, Filter!NoTerm
<1>2. Filter!EffectiveSearch(term) \in FilterTerms
  BY <1>1 DEF FilterTerms
<1>3. Filter!Request(f, term) \in Filter!Filters
  BY <1>2 DEF Filter!Request, Filter!Filters, FilterTerms, Filter!NoTerm
<1>4. Filter!QueryKey(Filter!Request(f, term)) = Filter!Request(f, term)
  BY DEF Filter!QueryKey
<1> QED
  BY <1>3, <1>4, FilterNumbers

LEMMA FilterAskedIs ==
    ASSUME url \in Filter!Filters, debounced \in FilterTerms
    PROVE  Filter!Asked = Filter!Request(url, debounced) /\ Filter!Asked \in Filter!Filters
BY FilterAsks DEF Filter!Asked

LEMMA FilterInit == ASSUME Filter!Init PROVE FilterInv
<1>1. url \in Filter!Filters /\ debounced \in FilterTerms
  <2>1. PICK raw \in [kind : Kind \cup {Nothing, "bogus"}, search : {<<>>} \cup [1 .. 2 -> Character]] :
          url = Filter!Parse(raw) /\ debounced = raw.search
    BY Zenon DEF Filter!Init, Filter!NoTerm
  <2>2. raw.search \in FilterTerms /\ (IF raw.kind \in Kind THEN raw.kind ELSE Nothing) \in Kind \cup {Nothing}
    BY DEF FilterTerms
  <2>3. Filter!Parse(raw) = [kind |-> IF raw.kind \in Kind THEN raw.kind ELSE Nothing, search |-> raw.search]
    BY DEF Filter!Parse
  <2> QED
    BY <2>1, <2>2, <2>3 DEF Filter!Filters, FilterTerms, Filter!NoTerm
<1>2. /\ nav = Nothing /\ failed = {} /\ shown = Nothing
      /\ cached = [key \in Filter!Filters |-> Nothing]
      /\ fetching = [[key \in Filter!Filters |-> Nothing] EXCEPT ![Filter!Asked] = Filter!Request(url, debounced)]
  BY DEF Filter!Init
<1>3. Filter!Asked = Filter!Request(url, debounced) /\ Filter!Asked \in Filter!Filters
  BY <1>1, FilterAskedIs
<1>4. fetching[Filter!Asked] # Nothing
  BY <1>2, <1>3, FilterNumbers
<1> QED
  BY <1>1, <1>2, <1>3, <1>4 DEF FilterInv

\* A fetch leaves the key with one under way, and no key with another's rows.
LEMMA FilterFetches ==
    ASSUME FilterInv, NEW f \in Filter!Filters, NEW term \in FilterTerms, Filter!Fetch(Filter!Request(f, term))
    PROVE  /\ fetching' \in [Filter!Filters -> Filter!Filters \cup {Nothing}]
           /\ \A key \in Filter!Filters : fetching'[key] \in {Nothing, key}
           /\ fetching'[Filter!Request(f, term)] # Nothing
           /\ failed' \subseteq Filter!Filters
<1> DEFINE request == Filter!Request(f, term)
<1>1. request \in Filter!Filters /\ request # Nothing /\ Filter!QueryKey(request) = request
  BY FilterAsks
<1>2. /\ fetching' = [fetching EXCEPT ![request] = IF fetching[request] = Nothing THEN request
                                                   ELSE fetching[request]]
      /\ failed' \in {failed, failed \ {request}}
  BY <1>1 DEF Filter!Fetch
<1> HIDE DEF request
<1>3. fetching'[request] # Nothing /\ fetching'[request] = request
  BY <1>1, <1>2 DEF FilterInv
<1> QED
  BY <1>1, <1>2, <1>3 DEF FilterInv, request

LEMMA FilterObserves ==
    ASSUME FilterInv, NEW f \in Filter!Filters, NEW term \in FilterTerms, Filter!Observe(f, term),
           UNCHANGED cached, nav' \in Filter!Filters \cup {Nothing}
    PROVE  FilterInv'
<1> DEFINE request == Filter!Request(f, term)
<1>1. request \in Filter!Filters /\ request # Nothing /\ Filter!QueryKey(request) = request
  BY FilterAsks
<1>2. url' = f /\ debounced' = term /\ Filter!Asked' = request
  BY <1>1 DEF Filter!Observe, Filter!Asked, Filter!QueryKey, Filter!Request
<1>3. CASE request = Filter!Asked
  <2>1. UNCHANGED <<fetching, failed, shown>>
    BY <1>1, <1>3 DEF Filter!Observe
  <2> QED
    BY <1>2, <1>3, <2>1 DEF FilterInv
<1>4. CASE request # Filter!Asked
  <2>1. Filter!Fetch(request) /\ shown' = IF cached[request] = Nothing THEN shown ELSE cached[request]
    BY <1>1, <1>4 DEF Filter!Observe
  <2>2. shown' \in Filter!Filters \cup {Nothing}
    BY <1>1, <2>1 DEF FilterInv
  <2>3. /\ fetching' \in [Filter!Filters -> Filter!Filters \cup {Nothing}]
        /\ \A key \in Filter!Filters : fetching'[key] \in {Nothing, key}
        /\ fetching'[request] # Nothing /\ failed' \subseteq Filter!Filters
    BY <2>1, FilterFetches
  <2> HIDE DEF request
  <2> QED
    BY <1>2, <2>2, <2>3 DEF FilterInv
<1> QED
  BY <1>3, <1>4

LEMMA FilterAnswerKept ==
    ASSUME FilterInv, NEW key \in Filter!Filters, Filter!Answer(key) \/ Filter!FetchFails(key)
    PROVE  FilterInv'
<1>1. /\ fetching[key] # Nothing /\ fetching' = [fetching EXCEPT ![key] = Nothing]
      /\ UNCHANGED <<url, nav, debounced>>
  BY DEF Filter!Answer, Filter!FetchFails
<1>2. fetching[key] = key /\ Filter!Asked' = Filter!Asked /\ Filter!Asked \in Filter!Filters
  BY <1>1, FilterAskedIs DEF FilterInv, Filter!Asked, Filter!QueryKey, Filter!Request
<1>3. CASE Filter!Answer(key)
  <2>1. /\ failed' = failed \ {key} /\ cached' = [cached EXCEPT ![key] = key]
        /\ shown' = IF key = Filter!Asked THEN key ELSE shown
    BY <1>2, <1>3 DEF Filter!Answer
  <2> QED
    BY <1>1, <1>2, <2>1 DEF FilterInv
<1>4. CASE Filter!FetchFails(key)
  <2>1. failed' = failed \cup {key} /\ UNCHANGED <<cached, shown>>
    BY <1>4 DEF Filter!FetchFails
  <2> QED
    BY <1>1, <1>2, <2>1 DEF FilterInv
<1> QED
  BY <1>3, <1>4

LEMMA FilterFocusKept == ASSUME FilterInv, Filter!Focus PROVE FilterInv'
<1>1. Filter!Fetch(Filter!Request(url, debounced)) /\ UNCHANGED <<url, nav, debounced, cached, shown>>
  BY DEF Filter!Focus
<1>2. Filter!Asked' = Filter!Asked /\ Filter!Asked = Filter!Request(url, debounced)
  BY <1>1, FilterAskedIs DEF FilterInv, Filter!Asked, Filter!QueryKey, Filter!Request
<1>3. /\ fetching' \in [Filter!Filters -> Filter!Filters \cup {Nothing}]
      /\ \A key \in Filter!Filters : fetching'[key] \in {Nothing, key}
      /\ fetching'[Filter!Asked] # Nothing /\ failed' \subseteq Filter!Filters
  BY <1>1, <1>2, FilterFetches DEF FilterInv
<1> QED
  BY <1>1, <1>2, <1>3 DEF FilterInv

LEMMA FilterReplaceKept ==
    ASSUME FilterInv, NEW next \in Filter!Filters, Filter!Replace(next)
    PROVE  FilterInv'
<1>1. Filter!Asked' = Filter!Asked
  BY DEF Filter!Replace, Filter!Asked, Filter!QueryKey, Filter!Request
<1> QED
  BY <1>1 DEF Filter!Replace, FilterInv

LEMMA FilterHandlersKept ==
    ASSUME FilterInv,
           \/ \E kind \in Kind \cup {Nothing} : Filter!HandleFiltersChange(kind)
           \/ \E term \in FilterTerms : Filter!HandleSearchChange(term)
           \/ Filter!HandleClearAll
    PROVE  FilterInv'
<1>1. /\ \A kind \in Kind \cup {Nothing} : [url EXCEPT !.kind = kind] \in Filter!Filters
      /\ \A term \in FilterTerms : [url EXCEPT !.search = term] \in Filter!Filters
      /\ [url EXCEPT !.search = Filter!NoTerm] \in Filter!Filters
  BY DEF FilterInv, Filter!Filters, FilterTerms, Filter!NoTerm
<1> QED
  BY <1>1, FilterReplaceKept DEF Filter!HandleFiltersChange, Filter!HandleSearchChange, Filter!HandleClearAll

LEMMA FilterRevisitKept == ASSUME FilterInv, Filter!Revisit PROVE FilterInv'
<1>1. Filter!Default \in Filter!Filters /\ Filter!NoTerm \in FilterTerms
  BY DEF Filter!Default, Filter!Filters, Filter!NoTerm, FilterTerms
<1> DEFINE request == Filter!Request(Filter!Default, Filter!NoTerm)
<1>2. request \in Filter!Filters /\ Filter!QueryKey(request) = request
  BY <1>1, FilterAsks
<1>3. /\ nav' = Nothing /\ url' = Filter!Default /\ debounced' = Filter!NoTerm
      /\ Filter!Fetch(request) /\ shown' = cached[request] /\ UNCHANGED cached
  BY <1>2 DEF Filter!Revisit
<1>4. Filter!Asked' = request
  BY <1>2, <1>3 DEF Filter!Asked, Filter!QueryKey, Filter!Request
<1>5. /\ fetching' \in [Filter!Filters -> Filter!Filters \cup {Nothing}]
      /\ \A key \in Filter!Filters : fetching'[key] \in {Nothing, key}
      /\ fetching'[request] # Nothing /\ failed' \subseteq Filter!Filters
  BY <1>1, <1>3, FilterFetches
<1> HIDE DEF request
<1> QED
  BY <1>1, <1>2, <1>3, <1>4, <1>5 DEF FilterInv

LEMMA FilterKept == ASSUME FilterInv, Filter!Next \/ UNCHANGED filterVars PROVE FilterInv'
<1>1. CASE UNCHANGED filterVars
  <2>1. Filter!Asked' = Filter!Asked
    BY <1>1 DEF filterVars, Filter!Asked, Filter!QueryKey, Filter!Request
  <2> QED
    BY <1>1, <2>1 DEF filterVars, FilterInv
<1>2. CASE Filter!Navigate
  <2>1. nav \in Filter!Filters /\ debounced \in FilterTerms /\ nav' = Nothing /\ UNCHANGED cached
        /\ Filter!Observe(nav, debounced)
    BY <1>2 DEF Filter!Navigate, FilterInv
  <2> QED
    BY <2>1, FilterObserves
<1>3. CASE Filter!DebounceFires
  <2>1. /\ url \in Filter!Filters /\ url.search \in FilterTerms /\ nav' \in Filter!Filters \cup {Nothing}
        /\ UNCHANGED cached /\ Filter!Observe(url, url.search)
    BY <1>3 DEF Filter!DebounceFires, FilterInv, Filter!Filters, FilterTerms, Filter!NoTerm
  <2> QED
    BY <2>1, FilterObserves
<1>4. ASSUME NEW term \in [1 .. 2 -> Character] \cup {Filter!NoTerm}, Filter!HandleSearchChange(term) PROVE FilterInv'
  <2>1. term \in FilterTerms
    BY DEF FilterTerms, Filter!NoTerm
  <2> QED
    BY <1>4, <2>1, FilterHandlersKept
<1>5. CASE Filter!Next
  BY <1>2, <1>3, <1>4, <1>5, FilterAnswerKept, FilterFocusKept, FilterHandlersKept, FilterRevisitKept DEF Filter!Next
<1> QED
  BY <1>1, <1>5

LEMMA FilterShows == ASSUME FilterInv PROVE Filter!TypeOK /\ Filter!ShownIsAsked
<1>1. Filter!TypeOK
  BY DEF FilterInv, Filter!TypeOK, FilterTerms, Filter!NoTerm
<1>2. Filter!ShownIsAsked
  BY FilterAskedIs DEF FilterInv, Filter!ShownIsAsked, Filter!Ready
<1> QED
  BY <1>1, <1>2

-----------------------------------------------------------------------------
(* The search that is typed, one character at a time: the same list with other terms and no kinds *)

TypingTerms == {<<>>} \cup ([1 .. 1 -> Character] \cup [1 .. 2 -> Character])

\* Rows are those of their key, and a fetch under way brings those of its key; a page at rest
\* whose last fetch did not fail shows the rows of the key it observes.
TypingInv ==
    /\ url \in Typing!Filters /\ debounced \in TypingTerms
    /\ nav \in Typing!Filters \cup {Nothing}
    /\ cached \in [Typing!Filters -> Typing!Filters \cup {Nothing}]
    /\ fetching \in [Typing!Filters -> Typing!Filters \cup {Nothing}]
    /\ \A key \in Typing!Filters : cached[key] \in {Nothing, key} /\ fetching[key] \in {Nothing, key}
    /\ failed \subseteq Typing!Filters
    /\ shown \in Typing!Filters \cup {Nothing}
    /\ fetching[Typing!Asked] = Nothing => Typing!Asked \in failed \/ shown = Typing!Asked

LEMMA TypingNumbers == Nothing \notin Typing!Filters
BY ScreensAssumption DEF Typing!ListFiltersAssumption

\* What is asked for, and its key, is a choice of filters.
LEMMA TypingAsks ==
    ASSUME NEW f \in Typing!Filters, NEW term \in TypingTerms
    PROVE  /\ Typing!Request(f, term) \in Typing!Filters
           /\ Typing!QueryKey(Typing!Request(f, term)) = Typing!Request(f, term)
           /\ Typing!Request(f, term) # Nothing
<1>1. Typing!EffectiveSearch(term) \in {term, <<>>}
  BY Zenon DEF Typing!EffectiveSearch, Typing!NoTerm
<1>2. Typing!EffectiveSearch(term) \in TypingTerms
  BY <1>1 DEF TypingTerms
<1>3. Typing!Request(f, term) \in Typing!Filters
  BY <1>2 DEF Typing!Request, Typing!Filters, TypingTerms, Typing!NoTerm
<1>4. Typing!QueryKey(Typing!Request(f, term)) = Typing!Request(f, term)
  BY DEF Typing!QueryKey
<1> QED
  BY <1>3, <1>4, TypingNumbers

LEMMA TypingAskedIs ==
    ASSUME url \in Typing!Filters, debounced \in TypingTerms
    PROVE  Typing!Asked = Typing!Request(url, debounced) /\ Typing!Asked \in Typing!Filters
BY TypingAsks DEF Typing!Asked

LEMMA TypingInit == ASSUME Typing!Init PROVE TypingInv
<1>1. url \in Typing!Filters /\ debounced \in TypingTerms
  <2>1. PICK raw \in [kind : {} \cup {Nothing, "bogus"}, search : {<<>>} \cup ([1 .. 1 -> Character] \cup [1 .. 2 -> Character])] :
          url = Typing!Parse(raw) /\ debounced = raw.search
    BY Zenon DEF Typing!Init, Typing!NoTerm
  <2>2. raw.search \in TypingTerms /\ (IF raw.kind \in {} THEN raw.kind ELSE Nothing) \in {} \cup {Nothing}
    BY DEF TypingTerms
  <2>3. Typing!Parse(raw) = [kind |-> IF raw.kind \in {} THEN raw.kind ELSE Nothing, search |-> raw.search]
    BY DEF Typing!Parse
  <2> QED
    BY <2>1, <2>2, <2>3 DEF Typing!Filters, TypingTerms, Typing!NoTerm
<1>2. /\ nav = Nothing /\ failed = {} /\ shown = Nothing
      /\ cached = [key \in Typing!Filters |-> Nothing]
      /\ fetching = [[key \in Typing!Filters |-> Nothing] EXCEPT ![Typing!Asked] = Typing!Request(url, debounced)]
  BY DEF Typing!Init
<1>3. Typing!Asked = Typing!Request(url, debounced) /\ Typing!Asked \in Typing!Filters
  BY <1>1, TypingAskedIs
<1>4. fetching[Typing!Asked] # Nothing
  BY <1>2, <1>3, TypingNumbers
<1> QED
  BY <1>1, <1>2, <1>3, <1>4 DEF TypingInv

\* A fetch leaves the key with one under way, and no key with another's rows.
LEMMA TypingFetches ==
    ASSUME TypingInv, NEW f \in Typing!Filters, NEW term \in TypingTerms, Typing!Fetch(Typing!Request(f, term))
    PROVE  /\ fetching' \in [Typing!Filters -> Typing!Filters \cup {Nothing}]
           /\ \A key \in Typing!Filters : fetching'[key] \in {Nothing, key}
           /\ fetching'[Typing!Request(f, term)] # Nothing
           /\ failed' \subseteq Typing!Filters
<1> DEFINE request == Typing!Request(f, term)
<1>1. request \in Typing!Filters /\ request # Nothing /\ Typing!QueryKey(request) = request
  BY TypingAsks
<1>2. /\ fetching' = [fetching EXCEPT ![request] = IF fetching[request] = Nothing THEN request
                                                   ELSE fetching[request]]
      /\ failed' \in {failed, failed \ {request}}
  BY <1>1 DEF Typing!Fetch
<1> HIDE DEF request
<1>3. fetching'[request] # Nothing /\ fetching'[request] = request
  BY <1>1, <1>2 DEF TypingInv
<1> QED
  BY <1>1, <1>2, <1>3 DEF TypingInv, request

LEMMA TypingObserves ==
    ASSUME TypingInv, NEW f \in Typing!Filters, NEW term \in TypingTerms, Typing!Observe(f, term),
           UNCHANGED cached, nav' \in Typing!Filters \cup {Nothing}
    PROVE  TypingInv'
<1> DEFINE request == Typing!Request(f, term)
<1>1. request \in Typing!Filters /\ request # Nothing /\ Typing!QueryKey(request) = request
  BY TypingAsks
<1>2. url' = f /\ debounced' = term /\ Typing!Asked' = request
  BY <1>1 DEF Typing!Observe, Typing!Asked, Typing!QueryKey, Typing!Request
<1>3. CASE request = Typing!Asked
  <2>1. UNCHANGED <<fetching, failed, shown>>
    BY <1>1, <1>3 DEF Typing!Observe
  <2> QED
    BY <1>2, <1>3, <2>1 DEF TypingInv
<1>4. CASE request # Typing!Asked
  <2>1. Typing!Fetch(request) /\ shown' = IF cached[request] = Nothing THEN shown ELSE cached[request]
    BY <1>1, <1>4 DEF Typing!Observe
  <2>2. shown' \in Typing!Filters \cup {Nothing}
    BY <1>1, <2>1 DEF TypingInv
  <2>3. /\ fetching' \in [Typing!Filters -> Typing!Filters \cup {Nothing}]
        /\ \A key \in Typing!Filters : fetching'[key] \in {Nothing, key}
        /\ fetching'[request] # Nothing /\ failed' \subseteq Typing!Filters
    BY <2>1, TypingFetches
  <2> HIDE DEF request
  <2> QED
    BY <1>2, <2>2, <2>3 DEF TypingInv
<1> QED
  BY <1>3, <1>4

LEMMA TypingAnswerKept ==
    ASSUME TypingInv, NEW key \in Typing!Filters, Typing!Answer(key) \/ Typing!FetchFails(key)
    PROVE  TypingInv'
<1>1. /\ fetching[key] # Nothing /\ fetching' = [fetching EXCEPT ![key] = Nothing]
      /\ UNCHANGED <<url, nav, debounced>>
  BY DEF Typing!Answer, Typing!FetchFails
<1>2. fetching[key] = key /\ Typing!Asked' = Typing!Asked /\ Typing!Asked \in Typing!Filters
  BY <1>1, TypingAskedIs DEF TypingInv, Typing!Asked, Typing!QueryKey, Typing!Request
<1>3. CASE Typing!Answer(key)
  <2>1. /\ failed' = failed \ {key} /\ cached' = [cached EXCEPT ![key] = key]
        /\ shown' = IF key = Typing!Asked THEN key ELSE shown
    BY <1>2, <1>3 DEF Typing!Answer
  <2> QED
    BY <1>1, <1>2, <2>1 DEF TypingInv
<1>4. CASE Typing!FetchFails(key)
  <2>1. failed' = failed \cup {key} /\ UNCHANGED <<cached, shown>>
    BY <1>4 DEF Typing!FetchFails
  <2> QED
    BY <1>1, <1>2, <2>1 DEF TypingInv
<1> QED
  BY <1>3, <1>4

LEMMA TypingFocusKept == ASSUME TypingInv, Typing!Focus PROVE TypingInv'
<1>1. Typing!Fetch(Typing!Request(url, debounced)) /\ UNCHANGED <<url, nav, debounced, cached, shown>>
  BY DEF Typing!Focus
<1>2. Typing!Asked' = Typing!Asked /\ Typing!Asked = Typing!Request(url, debounced)
  BY <1>1, TypingAskedIs DEF TypingInv, Typing!Asked, Typing!QueryKey, Typing!Request
<1>3. /\ fetching' \in [Typing!Filters -> Typing!Filters \cup {Nothing}]
      /\ \A key \in Typing!Filters : fetching'[key] \in {Nothing, key}
      /\ fetching'[Typing!Asked] # Nothing /\ failed' \subseteq Typing!Filters
  BY <1>1, <1>2, TypingFetches DEF TypingInv
<1> QED
  BY <1>1, <1>2, <1>3 DEF TypingInv

LEMMA TypingReplaceKept ==
    ASSUME TypingInv, NEW next \in Typing!Filters, Typing!Replace(next)
    PROVE  TypingInv'
<1>1. Typing!Asked' = Typing!Asked
  BY DEF Typing!Replace, Typing!Asked, Typing!QueryKey, Typing!Request
<1> QED
  BY <1>1 DEF Typing!Replace, TypingInv

LEMMA TypingHandlersKept ==
    ASSUME TypingInv,
           \/ \E kind \in {} \cup {Nothing} : Typing!HandleFiltersChange(kind)
           \/ \E term \in TypingTerms : Typing!HandleSearchChange(term)
           \/ Typing!HandleClearAll
    PROVE  TypingInv'
<1>1. /\ \A kind \in {} \cup {Nothing} : [url EXCEPT !.kind = kind] \in Typing!Filters
      /\ \A term \in TypingTerms : [url EXCEPT !.search = term] \in Typing!Filters
      /\ [url EXCEPT !.search = Typing!NoTerm] \in Typing!Filters
  BY DEF TypingInv, Typing!Filters, TypingTerms, Typing!NoTerm
<1> QED
  BY <1>1, TypingReplaceKept DEF Typing!HandleFiltersChange, Typing!HandleSearchChange, Typing!HandleClearAll

LEMMA TypingRevisitKept == ASSUME TypingInv, Typing!Revisit PROVE TypingInv'
<1>1. Typing!Default \in Typing!Filters /\ Typing!NoTerm \in TypingTerms
  BY DEF Typing!Default, Typing!Filters, Typing!NoTerm, TypingTerms
<1> DEFINE request == Typing!Request(Typing!Default, Typing!NoTerm)
<1>2. request \in Typing!Filters /\ Typing!QueryKey(request) = request
  BY <1>1, TypingAsks
<1>3. /\ nav' = Nothing /\ url' = Typing!Default /\ debounced' = Typing!NoTerm
      /\ Typing!Fetch(request) /\ shown' = cached[request] /\ UNCHANGED cached
  BY <1>2 DEF Typing!Revisit
<1>4. Typing!Asked' = request
  BY <1>2, <1>3 DEF Typing!Asked, Typing!QueryKey, Typing!Request
<1>5. /\ fetching' \in [Typing!Filters -> Typing!Filters \cup {Nothing}]
      /\ \A key \in Typing!Filters : fetching'[key] \in {Nothing, key}
      /\ fetching'[request] # Nothing /\ failed' \subseteq Typing!Filters
  BY <1>1, <1>3, TypingFetches
<1> HIDE DEF request
<1> QED
  BY <1>1, <1>2, <1>3, <1>4, <1>5 DEF TypingInv

LEMMA TypingKept == ASSUME TypingInv, Typing!Next \/ UNCHANGED filterVars PROVE TypingInv'
<1>1. CASE UNCHANGED filterVars
  <2>1. Typing!Asked' = Typing!Asked
    BY <1>1 DEF filterVars, Typing!Asked, Typing!QueryKey, Typing!Request
  <2> QED
    BY <1>1, <2>1 DEF filterVars, TypingInv
<1>2. CASE Typing!Navigate
  <2>1. nav \in Typing!Filters /\ debounced \in TypingTerms /\ nav' = Nothing /\ UNCHANGED cached
        /\ Typing!Observe(nav, debounced)
    BY <1>2 DEF Typing!Navigate, TypingInv
  <2> QED
    BY <2>1, TypingObserves
<1>3. CASE Typing!DebounceFires
  <2>1. /\ url \in Typing!Filters /\ url.search \in TypingTerms /\ nav' \in Typing!Filters \cup {Nothing}
        /\ UNCHANGED cached /\ Typing!Observe(url, url.search)
    BY <1>3 DEF Typing!DebounceFires, TypingInv, Typing!Filters, TypingTerms, Typing!NoTerm
  <2> QED
    BY <2>1, TypingObserves
<1>4. ASSUME NEW term \in ([1 .. 1 -> Character] \cup [1 .. 2 -> Character]) \cup {Typing!NoTerm}, Typing!HandleSearchChange(term) PROVE TypingInv'
  <2>1. term \in TypingTerms
    BY DEF TypingTerms, Typing!NoTerm
  <2> QED
    BY <1>4, <2>1, TypingHandlersKept
<1>5. CASE Typing!Next
  BY <1>2, <1>3, <1>4, <1>5, TypingAnswerKept, TypingFocusKept, TypingHandlersKept, TypingRevisitKept DEF Typing!Next
<1> QED
  BY <1>1, <1>5

LEMMA TypingShows == ASSUME TypingInv PROVE Typing!TypeOK /\ Typing!ShownIsAsked
<1>1. Typing!TypeOK
  BY DEF TypingInv, Typing!TypeOK, TypingTerms, Typing!NoTerm
<1>2. Typing!ShownIsAsked
  BY TypingAskedIs DEF TypingInv, Typing!ShownIsAsked, Typing!Ready
<1> QED
  BY <1>1, <1>2

-----------------------------------------------------------------------------
(* The weeks of the timeline *)

LEMMA TimelineNumbers ==
    /\ {-FarWest, 0, FarEast} \subseteq -12 .. 14
    /\ \A r \in Records : LET t == Timeline!Grouped(r) IN t \in Int /\ 0 <= t /\ t <= 24 * 47475
    /\ MaxRecord \in Nat /\ Window \in Nat
<1>1. Timeline!TimelineAssumption
  BY ScreensAssumption
<1>2. /\ {-FarWest, 0, FarEast} \subseteq -12 .. 14
      /\ \A r \in Records :
           /\ r.clockIn \in Int /\ Timeline!Unset <= r.clockIn /\ r.clockIn <= 24 * Timeline!LastDay
           /\ r.date \in Int /\ Timeline!Unset <= r.date /\ r.date <= Timeline!LastDay
           /\ r.clockIn # Timeline!Unset \/ r.date # Timeline!Unset
      /\ {MaxRecord, Large, Window} \subseteq Nat
  BY <1>1, Zenon DEF Timeline!TimelineAssumption
<1>3. MaxRecord \in Nat /\ Window \in Nat
  BY <1>2
<1>4. ASSUME NEW r \in Records
      PROVE  LET t == Timeline!Grouped(r) IN t \in Int /\ 0 <= t /\ t <= 24 * 47475
  <2>1. /\ r.clockIn \in Int /\ -1 <= r.clockIn /\ r.clockIn <= 24 * 47475
        /\ r.date \in Int /\ -1 <= r.date /\ r.date <= 47475
        /\ r.clockIn # -1 \/ r.date # -1
    BY <1>2 DEF Timeline!Unset, Timeline!LastDay
  <2> QED
    BY <2>1 DEF Timeline!Grouped, Timeline!Unset
<1> QED
  BY <1>2, <1>3, <1>4

TimelineInv ==
    /\ Timeline!TypeOK
    /\ zone \in -12 .. 14
    /\ IsFiniteSet(record)

LEMMA TimelineInit == ASSUME Timeline!Init PROVE TimelineInv
<1>1. IsFiniteSet({}) /\ Cardinality({}) = 0
  BY FS_EmptySet
<1>2. zone \in -12 .. 14 /\ zone \in {-FarWest, 0, FarEast}
  BY TimelineNumbers DEF Timeline!Init
<1>3. Cardinality(record) = 0 /\ record = {} /\ visible = Window
      /\ range = [from |-> Timeline!Open, to |-> Timeline!Open]
  BY <1>1 DEF Timeline!Init
<1>4. Timeline!Cardinality(record) = Cardinality(record)
  BY Zenon DEF Timeline!Cardinality, Cardinality
<1>5. Timeline!Cardinality(record) <= MaxRecord /\ record \subseteq Records
  BY <1>3, <1>4, TimelineNumbers
<1>6. range \in [from : Timeline!Days \cup {Timeline!Open}, to : Timeline!Days \cup {Timeline!Open}]
  BY <1>3
<1> QED
  BY <1>1, <1>2, <1>3, <1>5, <1>6, TimelineNumbers DEF TimelineInv, Timeline!TypeOK

LEMMA TimelineKept == ASSUME TimelineInv, Timeline!Next \/ UNCHANGED timelineVars PROVE TimelineInv'
<1>1. CASE UNCHANGED timelineVars
  <2>1. UNCHANGED zone /\ UNCHANGED record /\ UNCHANGED range /\ UNCHANGED visible
    BY <1>1 DEF timelineVars
  <2> QED
    BY <2>1 DEF TimelineInv, Timeline!TypeOK, Timeline!Days
<1>2. ASSUME NEW r \in Records, Timeline!Fetched(r) PROVE TimelineInv'
  <2>1. \A s : Timeline!Cardinality(s) = Cardinality(s)
    BY Zenon DEF Timeline!Cardinality, Cardinality
  <2>2. /\ Timeline!Cardinality(record) < MaxRecord /\ r \notin record
        /\ IsFiniteSet(record) /\ IsFiniteSet(record \cup {r}) /\ Cardinality(record) \in Nat
    BY <1>2, FS_CardinalityType, FS_AddElement DEF TimelineInv, Timeline!Fetched
  <2>3. Cardinality(record \cup {r}) = Cardinality(record) + 1
    BY <2>2, FS_AddElement DEF TimelineInv
  <2>4. Timeline!Cardinality(record \cup {r}) <= MaxRecord
    BY <2>1, <2>2, <2>3, TimelineNumbers
  <2> QED
    BY <1>2, <2>2, <2>4 DEF Timeline!Fetched, TimelineInv, Timeline!TypeOK, Timeline!Days
<1>3. ASSUME NEW from \in Timeline!Days \cup {Timeline!Open},
             NEW to \in Timeline!Days \cup {Timeline!Open}, Timeline!SetRange(from, to)
      PROVE  TimelineInv'
  BY <1>3 DEF Timeline!SetRange, TimelineInv, Timeline!TypeOK, Timeline!Days
<1>4. CASE Timeline!LoadMore
  BY <1>4, TimelineNumbers DEF Timeline!LoadMore, TimelineInv, Timeline!TypeOK, Timeline!Days
<1> QED
  BY <1>1, <1>2, <1>3, <1>4 DEF Timeline!Next

\* The Thursday of the week of a day is a multiple of seven, and within three days of it.
LEMMA WeekOf ==
    \A d \in Int :
      /\ (d + 3) \div 7 \in Int
      /\ Timeline!ThursdayOf(d) = 7 * ((d + 3) \div 7)
      /\ Timeline!DayNumber(d) \in Int
      /\ 7 * ((d + 3) \div 7) = d - Timeline!DayNumber(d) + 3
      /\ 7 * ((d + 3) \div 7) - 3 <= d /\ d <= 7 * ((d + 3) \div 7) + 3
<1> TAKE d \in Int
<1> DEFINE q == (d + 3) \div 7
           m == (d + 3) % 7
<1>1. q \in Int /\ m \in Int /\ 0 <= m /\ m <= 6 /\ d + 3 = 7 * q + m
  OBVIOUS
<1> HIDE DEF q, m
<1>2. Timeline!DayNumber(d) = m
  BY DEF m, Timeline!DayNumber
<1>3. Timeline!ThursdayOf(d) = 7 * q
  BY <1>1, <1>2 DEF Timeline!ThursdayOf
<1>4. 7 * q = d - m + 3 /\ 7 * q - 3 <= d /\ d <= 7 * q + 3
  BY <1>1
<1> QED
  BY <1>1, <1>2, <1>3, <1>4 DEF q

LEMMA YearIsOne ==
    ASSUME NEW d, NEW year \in Timeline!Years,
           Timeline!Jan1(year) <= d, d < Timeline!Jan1(year + 1)
    PROVE  Timeline!UTCFullYear(d) \in Timeline!Years
BY Zenon DEF Timeline!UTCFullYear

\* Every day up to the end of 2099 is in a year.
LEMMA YearOfDay ==
    ASSUME NEW d \in Nat, d <= 47481
    PROVE  Timeline!UTCFullYear(d) \in Timeline!Years
<1> DEFINE n == (4 * d + 2) \div 1461
           year == 1970 + n
<1>1. n \in Int /\ 1461 * n <= 4 * d + 2 /\ 4 * d + 2 < 1461 * (n + 1)
  OBVIOUS
<1> HIDE DEF n
<1>2. n \in 0 .. 129
  BY <1>1
<1>3. \A k \in Int : k \div 4 \in Int /\ 4 * (k \div 4) <= k /\ k < 4 * (k \div 4) + 4
  OBVIOUS
<1>4. Timeline!Jan1(year) = 365 * n + (n + 1) \div 4
  BY <1>1 DEF Timeline!Jan1
<1>5. Timeline!Jan1(year + 1) = 365 * (n + 1) + (n + 2) \div 4
  BY <1>1 DEF Timeline!Jan1
<1>6. Timeline!Jan1(year) <= d
  BY <1>1, <1>3, <1>4
<1>7. d < Timeline!Jan1(year + 1)
  BY <1>1, <1>3, <1>5
<1>8. year \in Timeline!Years
  BY <1>2 DEF Timeline!Years
<1> HIDE DEF year
<1> QED
  BY <1>6, <1>7, <1>8, YearIsOne

\* The week number counts the Thursdays since one that is the same for the whole year.
LEMMA WeekNumber ==
    ASSUME TimelineInv
    PROVE  \A year \in Timeline!Years : \E first \in Int : \A t \in Int :
             Timeline!GetISOWeekYear(t) = year =>
               Timeline!GetISOWeek(t) = 1 + (Timeline!DayOf(t) + 3) \div 7 - first
<1> TAKE year \in Timeline!Years
<1> DEFINE jan4 == 24 * (Timeline!Jan1(year) + 3) - zone
           j == Timeline!DayOf(jan4)
           first == (j + 3) \div 7
<1>1. zone \in -12 .. 14 /\ Timeline!Jan1(year) \in Int
  BY DEF TimelineInv, Timeline!Jan1, Timeline!Years
<1>2. jan4 \in Int /\ j \in Int /\ jan4 - 24 * j \in 0 .. 23
  BY <1>1 DEF Timeline!DayOf
<1> HIDE DEF jan4
<1>3. first \in Int
  BY <1>2
<1>4. ASSUME NEW t \in Int, Timeline!GetISOWeekYear(t) = year
      PROVE  Timeline!GetISOWeek(t) = 1 + (Timeline!DayOf(t) + 3) \div 7 - first
  <2> DEFINE d == Timeline!DayOf(t)
             target == t - 24 * Timeline!DayNumber(d) + 72
             k == (d + 3) \div 7
  <2>1. t \in Int /\ d \in Int /\ t - 24 * d \in 0 .. 23
    BY DEF Timeline!DayOf
  <2> HIDE DEF d
  <2>2. k \in Int /\ Timeline!ThursdayOf(d) = 7 * k /\ Timeline!DayNumber(d) \in Int
        /\ 7 * k = d - Timeline!DayNumber(d) + 3
    BY <2>1, WeekOf
  <2> HIDE DEF k
  <2>3. target \in Int /\ target - 24 * (7 * k) \in 0 .. 23
    BY <2>1, <2>2
  <2> HIDE DEF target
  <2>4. Timeline!DayOf(target) = 7 * k
    BY <2>2, <2>3 DEF Timeline!DayOf
  <2>5. Timeline!UTCFullYear(Timeline!DayOf(target)) = year
    BY <1>4, <2>2, <2>4 DEF Timeline!GetISOWeekYear, d
  <2>6. first \in Int /\ 7 * first = j - Timeline!DayNumber(j) + 3
    BY <1>2, WeekOf
  <2> DEFINE thursday == jan4 - 24 * Timeline!DayNumber(j) + 72
  <2>7. Timeline!DayNumber(j) \in Int
    BY <1>2, WeekOf
  <2> HIDE DEF first, j
  <2>8. thursday \in Int /\ thursday - 24 * (7 * first) \in 0 .. 23
    BY <1>2, <2>6, <2>7
  <2>9. Timeline!GetISOWeek(t) = 1 + Timeline!Round(target - thursday, 168)
    BY <2>5 DEF Timeline!GetISOWeek, target, j, jan4, d
  <2> HIDE DEF thursday
  <2> DEFINE e == (target - thursday) - 168 * (k - first)
  <2>10. e \in -23 .. 23 /\ target - thursday = 168 * (k - first) + e
    BY <2>2, <2>3, <2>6, <2>8
  <2> HIDE DEF e
  <2>11. Timeline!Round(target - thursday, 168) = (336 * (k - first) + 2 * e + 168) \div 336
    BY <2>2, <2>6, <2>10 DEF Timeline!Round
  <2>12. (336 * (k - first) + 2 * e + 168) \div 336 = k - first
    BY <2>2, <2>6, <2>10
  <2> QED
    BY <2>2, <2>6, <2>9, <2>11, <2>12 DEF k, d
<1> HIDE DEF first
<1> QED
  BY <1>3, <1>4

\* AttendanceTimeline.tsx, dateUtils.ts: two records are in one group exactly when the moments
\* they are grouped by are in one week.
LEMMA TimelineGroups == ASSUME TimelineInv PROVE Timeline!GroupsAreWeeks
<1> SUFFICES ASSUME NEW one \in Timeline!Filtered, NEW two \in Timeline!Filtered
             PROVE  (Timeline!GetISOWeekKey(Timeline!Grouped(one))
                       = Timeline!GetISOWeekKey(Timeline!Grouped(two)))
                      <=> Timeline!DayOf(Timeline!Grouped(two))
                            \in Timeline!GetISOWeekBounds(Timeline!Grouped(one))
  BY DEF Timeline!GroupsAreWeeks
<1> DEFINE r == Timeline!Grouped(one)
           other == Timeline!Grouped(two)
           d == Timeline!DayOf(r)
           o == Timeline!DayOf(other)
           k == (d + 3) \div 7
           l == (o + 3) \div 7
<1>1. /\ r \in Int /\ 0 <= r /\ r <= 24 * 47475
      /\ other \in Int /\ 0 <= other /\ other <= 24 * 47475
  <2>1. one \in Records /\ two \in Records
    BY DEF Timeline!Filtered, TimelineInv, Timeline!TypeOK
  <2> QED
    BY <2>1, TimelineNumbers
<1> HIDE DEF r, other
<1>2. d \in Nat /\ d <= 47475 /\ o \in Nat /\ o <= 47475
  BY <1>1 DEF Timeline!DayOf
<1> HIDE DEF d, o
<1> DEFINE n == Timeline!DayNumber(d)
<1>3. /\ k \in Int /\ l \in Int
      /\ Timeline!ThursdayOf(d) = 7 * k /\ Timeline!ThursdayOf(o) = 7 * l
      /\ 7 * k - 3 <= d /\ d <= 7 * k + 3 /\ 7 * l - 3 <= o /\ o <= 7 * l + 3
      /\ n \in Int /\ 7 * k = d - n + 3
  BY <1>2, WeekOf
<1>4. Timeline!GetISOWeekBounds(r) = d - n .. d - n + 6
  BY DEF Timeline!GetISOWeekBounds, d
<1> HIDE DEF k, l, n
<1>5. o \in Timeline!GetISOWeekBounds(r) <=> k = l
  BY <1>2, <1>3, <1>4
<1>6. 7 * k \in Nat /\ 7 * k <= 47481
  BY <1>2, <1>3
<1>7. /\ Timeline!GetISOWeekYear(r) = Timeline!UTCFullYear(7 * k)
      /\ Timeline!GetISOWeekYear(other) = Timeline!UTCFullYear(7 * l)
  BY <1>3 DEF Timeline!GetISOWeekYear, d, o
<1>8. PICK year \in Timeline!Years : year = Timeline!UTCFullYear(7 * k)
  BY <1>6, YearOfDay
<1>9. PICK first \in Int : \A t \in Int :
        Timeline!GetISOWeekYear(t) = year =>
          Timeline!GetISOWeek(t) = 1 + (Timeline!DayOf(t) + 3) \div 7 - first
  BY WeekNumber
<1>10. Timeline!GetISOWeek(r) = 1 + k - first
  BY <1>1, <1>7, <1>8, <1>9 DEF k, d
<1>11. Timeline!GetISOWeekYear(other) = year => Timeline!GetISOWeek(other) = 1 + l - first
  BY <1>1, <1>9 DEF l, o
<1>12. ASSUME k = l PROVE Timeline!GetISOWeekKey(r) = Timeline!GetISOWeekKey(other)
  BY <1>7, <1>8, <1>10, <1>11, <1>12 DEF Timeline!GetISOWeekKey
<1>13. ASSUME Timeline!GetISOWeekKey(r) = Timeline!GetISOWeekKey(other) PROVE k = l
  <2>1. /\ Timeline!GetISOWeekYear(r) = Timeline!GetISOWeekYear(other)
        /\ Timeline!GetISOWeek(r) = Timeline!GetISOWeek(other)
    BY <1>13 DEF Timeline!GetISOWeekKey
  <2> QED
    BY <2>1, <1>3, <1>7, <1>8, <1>10, <1>11
<1> QED
  BY <1>5, <1>12, <1>13 DEF o, r, other

-----------------------------------------------------------------------------
(* The newsletter preferences *)

\* A save sends the boxes that differ from those it was loaded with, and no others.
SaveHolds ==
    \/ save = Preferences!NoSave
    \/ /\ DOMAIN save = {"at", "changed", "values", "loaded"}
       /\ save.at \in {"sent", "applied"}
       /\ save.values \in Preferences!Prefs
       /\ DOMAIN save.changed = {t \in Topic : save.values[t] # save.loaded[t]}
       /\ \A t \in DOMAIN save.changed : save.changed[t] = save.values[t]

ReadHolds ==
    \/ reading \in {Preferences!NoRead, Preferences!ReadSent}
    \/ reading = [at |-> "refused", answer |-> Nothing]
    \/ \E prefs \in Preferences!Prefs : reading = [at |-> "answered", answer |-> prefs]

\* A query at rest that has not failed has cached what was told last, and a page that has
\* rendered it since shows it.
Fresh ==
    /\ reading = Preferences!NoRead /\ ~isError => loaded = told
    /\ view = "form" /\ ~due => boxes.defaults = loaded /\ loaded # Nothing /\ ~isError

Form == [values : Preferences!Prefs, defaults : Preferences!Prefs]

PreferencesInv ==
    /\ kept \in Preferences!Prefs /\ loaded \in Preferences!Prefs \cup {Nothing}
    /\ isError \in BOOLEAN /\ due \in BOOLEAN
    /\ boxes \in Form
    /\ unsubscribe \in {"idle", "sent", "done"} /\ elsewhere \in 0 .. MaxElse
    /\ view \in {"loading", "form", "invalid", "unsubscribed"}
    /\ SaveHolds /\ ReadHolds /\ Fresh

LEMMA PreferencesNumbers == Nothing \notin Preferences!Prefs /\ MaxElse \in Nat
BY ScreensAssumption DEF Preferences!PreferencesAssumption, Preferences!Prefs

LEMMA Resets == ASSUME NEW values \in Preferences!Prefs PROVE Preferences!Reset(values) \in Form
BY DEF Preferences!Reset, Form

LEMMA Merges ==
    ASSUME NEW prefs \in Preferences!Prefs, SaveHolds, save # Preferences!NoSave
    PROVE  /\ Preferences!Merge(prefs, save.changed) \in Preferences!Prefs
           /\ \A t \in Topic : save.values[t] = save.loaded[t] =>
                Preferences!Merge(prefs, save.changed)[t] = prefs[t]
<1>1. \A t \in Topic : save.values[t] \in BOOLEAN /\ prefs[t] \in BOOLEAN
  BY DEF SaveHolds, Preferences!Prefs
<1>2. \A t \in DOMAIN save.changed : t \in Topic /\ save.changed[t] = save.values[t]
                                     /\ save.values[t] # save.loaded[t]
  BY DEF SaveHolds
<1>3. \A t \in Topic : (IF t \in DOMAIN save.changed THEN save.changed[t] ELSE prefs[t]) \in BOOLEAN
  BY <1>1, <1>2
<1>4. Preferences!Merge(prefs, save.changed) \in Preferences!Prefs
  BY <1>3, Zenon DEF Preferences!Merge, Preferences!Prefs
<1>5. \A t \in Topic : save.values[t] = save.loaded[t] =>
        Preferences!Merge(prefs, save.changed)[t] = prefs[t]
  BY <1>2 DEF Preferences!Merge
<1> QED
  BY <1>4, <1>5

LEMMA PreferencesInit == ASSUME Preferences!Init PROVE PreferencesInv
<1>1. boxes \in Form
  <2>1. Preferences!AllTrue \in Preferences!Prefs
    BY DEF Preferences!AllTrue, Preferences!Prefs
  <2> QED
    BY <2>1, Resets DEF Preferences!Init
<1>2. /\ isError = FALSE /\ due = FALSE /\ unsubscribe = "idle" /\ view = "loading"
      /\ elsewhere = 0 /\ loaded = Nothing /\ kept \in Preferences!Prefs
  BY DEF Preferences!Init
<1>3. SaveHolds /\ ReadHolds
  BY DEF Preferences!Init, SaveHolds, ReadHolds
<1>4. Fresh
  BY DEF Preferences!Init, Fresh, Preferences!NoRead, Preferences!ReadSent
<1>5. elsewhere \in 0 .. MaxElse
  BY <1>2, PreferencesNumbers
<1> QED
  BY <1>1, <1>2, <1>3, <1>4, <1>5 DEF PreferencesInv

LEMMA RenderKept == ASSUME PreferencesInv, Preferences!Render PROVE PreferencesInv'
<1>1. /\ UNCHANGED <<kept, loaded, isError, reading, save, unsubscribe, told, elsewhere>>
      /\ due' = FALSE /\ view' = Preferences!View
  BY DEF Preferences!Render
<1>2. view' \in {"loading", "form", "invalid", "unsubscribed"}
  BY <1>1, Zenon DEF Preferences!View
<1>3. CASE view' = "form"
  <2>1. loaded # Nothing /\ ~isError /\ boxes' = Preferences!Reset(loaded)
    BY <1>1, <1>3, Zenon DEF Preferences!View, Preferences!Render
  <2>2. loaded \in Preferences!Prefs
    BY <2>1 DEF PreferencesInv
  <2>3. boxes' \in Form /\ boxes'.defaults = loaded
    BY <2>1, <2>2, Resets DEF Preferences!Reset
  <2> QED
    BY <1>1, <1>2, <2>1, <2>3 DEF PreferencesInv, SaveHolds, ReadHolds, Fresh
<1>4. CASE view' # "form"
  <2>1. UNCHANGED boxes
    BY <1>1, <1>4 DEF Preferences!Render
  <2> QED
    BY <1>1, <1>2, <1>4, <2>1 DEF PreferencesInv, SaveHolds, ReadHolds, Fresh
<1> QED
  BY <1>3, <1>4

LEMMA RefetchKept == ASSUME PreferencesInv, Preferences!Refetch PROVE PreferencesInv'
<1>1. /\ UNCHANGED <<kept, loaded, save, unsubscribe, boxes, view, told, elsewhere>>
      /\ reading' = Preferences!ReadSent
      /\ isError' = (isError /\ loaded # Nothing)
      /\ due' = (due \/ isError # isError')
  BY DEF Preferences!Refetch
<1>2. isError' \in BOOLEAN /\ due' \in BOOLEAN /\ (due => due') /\ (isError' => isError)
  BY <1>1 DEF PreferencesInv
<1>3. SaveHolds' /\ ReadHolds'
  BY <1>1 DEF PreferencesInv, SaveHolds, ReadHolds
<1>4. Fresh'
  BY <1>1, <1>2 DEF PreferencesInv, Fresh, Preferences!ReadSent, Preferences!NoRead
<1> QED
  BY <1>1, <1>2, <1>3, <1>4 DEF PreferencesInv

LEMMA ServerReadsPrefsKept == ASSUME PreferencesInv, Preferences!ServerReads PROVE PreferencesInv'
<1>1. UNCHANGED <<kept, loaded, isError, save, unsubscribe, boxes, due, view, told, elsewhere>>
  BY DEF Preferences!ServerReads
<1>2. /\ SaveHolds' /\ ReadHolds' /\ reading' # Preferences!NoRead
  BY <1>1 DEF Preferences!ServerReads, PreferencesInv, SaveHolds, ReadHolds, Preferences!NoRead
<1> QED
  BY <1>1, <1>2 DEF PreferencesInv, Fresh

LEMMA FetchedKept == ASSUME PreferencesInv, Preferences!Fetched PROVE PreferencesInv'
<1>1. /\ UNCHANGED <<kept, save, unsubscribe, boxes, view, elsewhere>>
      /\ loaded' = reading.answer /\ told' = reading.answer
      /\ isError' = FALSE /\ reading' = Preferences!NoRead
      /\ due' = (due \/ loaded # loaded' \/ isError)
  BY DEF Preferences!Fetched
<1>2. loaded' \in Preferences!Prefs
  BY <1>1 DEF PreferencesInv, ReadHolds, Preferences!Fetched, Preferences!NoRead, Preferences!ReadSent
<1>3. due' \in BOOLEAN /\ (~due' => ~due /\ loaded' = loaded)
  BY <1>1 DEF PreferencesInv
<1>4. SaveHolds' /\ ReadHolds'
  BY <1>1 DEF PreferencesInv, SaveHolds, ReadHolds
<1>5. Fresh'
  BY <1>1, <1>3 DEF PreferencesInv, Fresh
<1> QED
  BY <1>1, <1>2, <1>3, <1>4, <1>5 DEF PreferencesInv

LEMMA FetchFailsKept == ASSUME PreferencesInv, Preferences!FetchFails PROVE PreferencesInv'
<1>1. /\ UNCHANGED <<kept, loaded, save, unsubscribe, boxes, view, told, elsewhere>>
      /\ reading' = Preferences!NoRead /\ isError' = TRUE
      /\ due' = (due \/ ~isError)
  BY DEF Preferences!FetchFails
<1>2. due' \in BOOLEAN /\ (~due' => ~due /\ isError)
  BY <1>1 DEF PreferencesInv
<1>3. SaveHolds' /\ ReadHolds'
  BY <1>1 DEF PreferencesInv, SaveHolds, ReadHolds
<1>4. Fresh'
  BY <1>1, <1>2 DEF PreferencesInv, Fresh
<1> QED
  BY <1>1, <1>2, <1>3, <1>4 DEF PreferencesInv

LEMMA ToggleKept == ASSUME PreferencesInv, NEW t \in Topic, Preferences!Toggle(t) PROVE PreferencesInv'
<1>1. /\ UNCHANGED <<kept, loaded, isError, reading, save, unsubscribe, due, view, told, elsewhere>>
      /\ boxes' = [boxes EXCEPT !.values[t] = ~boxes.values[t]]
  BY DEF Preferences!Toggle
<1>2. boxes \in Form /\ boxes.values \in [Topic -> BOOLEAN] /\ (~boxes.values[t]) \in BOOLEAN
  BY DEF PreferencesInv, Form, Preferences!Prefs
<1>3. [boxes.values EXCEPT ![t] = ~boxes.values[t]] \in Preferences!Prefs
  BY <1>2 DEF Preferences!Prefs
<1>4. boxes' \in Form /\ boxes'.defaults = boxes.defaults
  BY <1>1, <1>2, <1>3 DEF Form
<1> QED
  BY <1>1, <1>4 DEF PreferencesInv, SaveHolds, ReadHolds, Fresh

LEMMA SubmitKept == ASSUME PreferencesInv, Preferences!Submit PROVE PreferencesInv'
<1>1. /\ UNCHANGED <<kept, loaded, isError, reading, unsubscribe, boxes, view, told, elsewhere>>
      /\ save' = [at |-> "sent", changed |-> [t \in Preferences!Changed |-> boxes.values[t]],
                  values |-> boxes.values, loaded |-> boxes.defaults]
      /\ due' = TRUE
  BY DEF Preferences!Submit
<1>2. boxes.values \in Preferences!Prefs
  BY DEF PreferencesInv, Form
<1>3. Preferences!Changed = {t \in Topic : boxes.values[t] # boxes.defaults[t]}
  BY Zenon DEF Preferences!Changed, Preferences!dirtyFields
<1>4. SaveHolds'
  BY <1>1, <1>2, <1>3 DEF SaveHolds
<1> QED
  BY <1>1, <1>4 DEF PreferencesInv, ReadHolds, Fresh

LEMMA ServerSavesKept == ASSUME PreferencesInv, Preferences!ServerSaves PROVE PreferencesInv'
<1>1. /\ UNCHANGED <<loaded, isError, reading, unsubscribe, boxes, due, view, told, elsewhere>>
      /\ kept' = Preferences!Merge(kept, save.changed)
      /\ save' = [save EXCEPT !.at = "applied"] /\ save.at = "sent"
  BY DEF Preferences!ServerSaves
<1>2. save # Preferences!NoSave /\ SaveHolds /\ kept \in Preferences!Prefs
  BY <1>1 DEF PreferencesInv, Preferences!NoSave
<1>3. kept' \in Preferences!Prefs
  BY <1>1, <1>2, Merges
<1>4. SaveHolds'
  BY <1>1, <1>2 DEF SaveHolds
<1> QED
  BY <1>1, <1>3, <1>4 DEF PreferencesInv, ReadHolds, Fresh

LEMMA SavedKept == ASSUME PreferencesInv, Preferences!Saved PROVE PreferencesInv'
<1>1. /\ UNCHANGED <<kept, loaded, unsubscribe, view, elsewhere>>
      /\ save' = Preferences!NoSave /\ reading' = Preferences!ReadSent
      /\ boxes' = Preferences!Reset(save.values)
      /\ isError' = (isError /\ loaded # Nothing) /\ due' = TRUE /\ save.at = "applied"
  BY DEF Preferences!Saved, Preferences!Invalidated
<1>2. save.values \in Preferences!Prefs
  BY <1>1 DEF PreferencesInv, SaveHolds, Preferences!NoSave
<1>3. boxes' \in Form
  BY <1>1, <1>2, Resets
<1>4. isError' \in BOOLEAN
  BY <1>1 DEF PreferencesInv
<1>5. SaveHolds' /\ ReadHolds' /\ Fresh'
  BY <1>1 DEF SaveHolds, ReadHolds, Fresh, Preferences!ReadSent, Preferences!NoRead
<1> QED
  BY <1>1, <1>3, <1>4, <1>5 DEF PreferencesInv

LEMMA SaveFailsKept == ASSUME PreferencesInv, Preferences!SaveFails PROVE PreferencesInv'
<1>1. /\ UNCHANGED <<kept, loaded, isError, reading, unsubscribe, boxes, view, told, elsewhere>>
      /\ save' = Preferences!NoSave /\ due' = TRUE
  BY DEF Preferences!SaveFails
<1>2. SaveHolds' /\ ReadHolds' /\ Fresh'
  BY <1>1 DEF PreferencesInv, SaveHolds, ReadHolds, Fresh
<1> QED
  BY <1>1, <1>2 DEF PreferencesInv

LEMMA UnsubscribeKept ==
    ASSUME PreferencesInv,
           Preferences!Unsubscribe \/ Preferences!Unsubscribed \/ Preferences!UnsubscribeFails
    PROVE  PreferencesInv'
<1>1. /\ UNCHANGED <<kept, save, boxes, view, told, elsewhere>>
      /\ due' = TRUE /\ unsubscribe' \in {"idle", "sent", "done"}
      /\ \/ UNCHANGED <<loaded, isError, reading>>
         \/ loaded' = Nothing /\ isError' = FALSE /\ reading' = Preferences!ReadSent
  BY DEF Preferences!Unsubscribe, Preferences!Unsubscribed, Preferences!UnsubscribeFails
<1>2. SaveHolds' /\ ReadHolds' /\ Fresh'
  BY <1>1 DEF PreferencesInv, SaveHolds, ReadHolds, Fresh, Preferences!ReadSent, Preferences!NoRead
<1>3. loaded' \in Preferences!Prefs \cup {Nothing} /\ isError' \in BOOLEAN
  BY <1>1 DEF PreferencesInv
<1> QED
  BY <1>1, <1>2, <1>3 DEF PreferencesInv

LEMMA ChangedElsewhereKept ==
    ASSUME PreferencesInv, NEW t \in Topic, Preferences!ChangedElsewhere(t)
    PROVE  PreferencesInv'
<1>1. /\ UNCHANGED <<loaded, isError, reading, save, unsubscribe, boxes, due, view, told>>
      /\ elsewhere < MaxElse /\ elsewhere' = elsewhere + 1
      /\ kept' = [kept EXCEPT ![t] = ~kept[t]]
  BY DEF Preferences!ChangedElsewhere
<1>2. kept \in [Topic -> BOOLEAN] /\ (~kept[t]) \in BOOLEAN /\ elsewhere \in 0 .. MaxElse
  BY DEF PreferencesInv, Preferences!Prefs
<1>3. kept' \in Preferences!Prefs
  BY <1>1, <1>2 DEF Preferences!Prefs
<1>4. elsewhere' \in 0 .. MaxElse
  BY <1>1, <1>2, PreferencesNumbers
<1> QED
  BY <1>1, <1>3, <1>4 DEF PreferencesInv, SaveHolds, ReadHolds, Fresh

LEMMA PreferencesKept ==
    ASSUME PreferencesInv, Preferences!Next \/ UNCHANGED preferenceVars
    PROVE  PreferencesInv'
<1>1. CASE UNCHANGED preferenceVars
  BY <1>1 DEF preferenceVars, PreferencesInv, SaveHolds, ReadHolds, Fresh
<1>2. CASE Preferences!Next
  BY <1>2, RenderKept, RefetchKept, ServerReadsPrefsKept, FetchedKept, FetchFailsKept, ToggleKept,
     SubmitKept, ServerSavesKept, SavedKept, SaveFailsKept, UnsubscribeKept, ChangedElsewhereKept
     DEF Preferences!Next
<1> QED
  BY <1>1, <1>2

LEMMA PreferencesSettle == ASSUME PreferencesInv PROVE Preferences!TypeOK /\ Preferences!SettledShowsSaved
<1>1. Preferences!TypeOK
  BY DEF PreferencesInv, Preferences!TypeOK, Form
<1>2. ASSUME Preferences!Quiet, view = "form", Preferences!dirtyFields = {}
      PROVE  boxes.values = told
  <2>1. boxes.defaults = loaded /\ loaded = told
    BY <1>2 DEF PreferencesInv, Fresh, Preferences!Quiet
  <2>2. /\ boxes.values \in [Topic -> BOOLEAN] /\ boxes.defaults \in [Topic -> BOOLEAN]
        /\ \A t \in Topic : boxes.values[t] = boxes.defaults[t]
    BY <1>2 DEF PreferencesInv, Form, Preferences!Prefs, Preferences!dirtyFields
  <2>3. boxes.values = boxes.defaults
    BY <2>2
  <2> QED
    BY <2>1, <2>3
<1> QED
  BY <1>1, <1>2 DEF Preferences!SettledShowsSaved

LEMMA PreferencesKeepOthers ==
    ASSUME PreferencesInv, Preferences!Next \/ UNCHANGED preferenceVars,
           save.at = "sent", save'.at = "applied"
    PROVE  \A t \in Topic : save.values[t] = save.loaded[t] => kept'[t] = kept[t]
<1>1. save # Preferences!NoSave /\ SaveHolds /\ kept \in Preferences!Prefs
  BY DEF PreferencesInv, Preferences!NoSave
<1>2. save' # save /\ save' # Preferences!NoSave
  BY DEF Preferences!NoSave
<1>3. UNCHANGED save \/ save' = Preferences!NoSave \/ Preferences!Submit \/ Preferences!ServerSaves
  BY Zenon DEF preferenceVars, Preferences!Next, Preferences!Render, Preferences!Refetch,
     Preferences!ServerReads, Preferences!Fetched, Preferences!FetchFails, Preferences!Toggle,
     Preferences!Saved, Preferences!SaveFails, Preferences!Unsubscribe, Preferences!Unsubscribed,
     Preferences!UnsubscribeFails, Preferences!ChangedElsewhere
<1>4. ~Preferences!Submit
  BY DEF Preferences!Submit
<1>5. kept' = Preferences!Merge(kept, save.changed)
  BY <1>2, <1>3, <1>4 DEF Preferences!ServerSaves
<1> QED
  BY <1>1, <1>5, Merges

-----------------------------------------------------------------------------
(* The session and the dashboard together *)

BrowserInv ==
    /\ running \in {"session", "moment", "dashboard"}
    /\ SessionRuns => SessionInv
    /\ running = "dashboard" => WidgetsInv

LEMMA BrowserStarts == BrowserInit => BrowserInv
BY SessionInit, WidgetsInit DEF BrowserInit, BrowserInv, SessionRuns

LEMMA BrowserKept == BrowserInv /\ [BrowserNext]_browserVars => BrowserInv'
<1> SUFFICES ASSUME BrowserInv, [BrowserNext]_browserVars PROVE BrowserInv'
  OBVIOUS
<1>1. running' = running
  BY SessionMoves
<1>2. ASSUME SessionRuns PROVE SessionInv'
  BY <1>2, SessionMoves, SessionKept DEF BrowserInv
<1>3. ASSUME running = "dashboard" PROVE WidgetsInv'
  BY <1>3, SessionMoves, WidgetsKept DEF BrowserInv
<1> QED
  BY <1>1, <1>2, <1>3 DEF BrowserInv, SessionRuns

\* useSessionTimeout.ts: whoever looks at a page with a session sees the dialog before the
\* token expires, however the page is reloaded, the token renewed and the mouse moved.
THEOREM SessionsAreWarned == BrowserSpec => []WarnedInTime
<1>1. BrowserInv => WarnedInTime
  BY SessionWarns, WidgetsTyped DEF BrowserInv, WarnedInTime, SessionRuns
<1> QED
  BY BrowserStarts, BrowserKept, <1>1, PTL DEF BrowserSpec

-----------------------------------------------------------------------------
(* The screens together *)

ScreensInv ==
    /\ screen \in Screen
    /\ screen = "cache" => CacheInv
    /\ screen = "wizard" => WizardInv
    /\ screen = "calendar" => CalendarInv
    /\ screen = "filter" => FilterInv
    /\ screen = "typing" => TypingInv
    /\ screen = "timeline" => TimelineInv
    /\ BellInv /\ PreferencesInv

LEMMA ScreensStart == ScreensInit => ScreensInv
<1> SUFFICES ASSUME ScreensInit PROVE ScreensInv
  OBVIOUS
<1>1. CacheInv /\ WizardInv /\ CalendarInv /\ BellInv /\ TimelineInv /\ PreferencesInv
  BY CacheInit, WizardInit, CalendarInit, BellInit, TimelineInit, PreferencesInit DEF ScreensInit
<1>2. screen = "filter" => FilterInv
  BY FilterInit DEF ScreensInit
<1>3. screen = "typing" => TypingInv
  BY TypingInit DEF ScreensInit
<1> QED
  BY <1>1, <1>2, <1>3 DEF ScreensInit, ScreensInv

LEMMA ScreensKept == ScreensInv /\ [ScreensNext]_screensVars => ScreensInv'
<1> SUFFICES ASSUME ScreensInv, [ScreensNext]_screensVars PROVE ScreensInv'
  OBVIOUS
<1>1. screen' = screen
  BY ScreenMoves
<1>2. screen = "cache" => CacheInv'
  BY ScreenMoves, CacheKept DEF ScreensInv
<1>3. screen = "wizard" => WizardInv'
  BY ScreenMoves, WizardKept DEF ScreensInv
<1>4. screen = "calendar" => CalendarInv'
  BY ScreenMoves, CalendarKept DEF ScreensInv
<1>5. screen = "filter" => FilterInv'
  BY ScreenMoves, FilterKept DEF ScreensInv
<1>6. screen = "typing" => TypingInv'
  BY ScreenMoves, TypingKept DEF ScreensInv
<1>7. screen = "timeline" => TimelineInv'
  BY ScreenMoves, TimelineKept DEF ScreensInv
<1>8. BellInv' /\ PreferencesInv'
  BY ScreenMoves, BellKept, PreferencesKept DEF ScreensInv
<1> QED
  BY <1>1, <1>2, <1>3, <1>4, <1>5, <1>6, <1>7, <1>8 DEF ScreensInv

\* useCancelBooking.ts, useConfirmBooking.ts: once all is settled a page shows nothing that
\* was never so, whatever mutations overlapped, failed and put back each other's guesses.
THEOREM NothingIsInvented == ScreensSpec => []NothingInvented
<1>1. ScreensInv => NothingInvented
  BY CacheIsGenuine DEF ScreensInv, NothingInvented
<1> QED
  BY ScreensStart, ScreensKept, <1>1, PTL DEF ScreensSpec

\* AttendanceTimeline.tsx, dateUtils.ts: two records are in one group exactly when the moments
\* they are grouped by are in one ISO week, in every zone and around every New Year up to 2099.
THEOREM GroupsAreAlwaysWeeks == ScreensSpec => []GroupsAreWeeks
<1>1. ScreensInv => GroupsAreWeeks
  BY TimelineGroups DEF ScreensInv, GroupsAreWeeks
<1> QED
  BY ScreensStart, ScreensKept, <1>1, PTL DEF ScreensSpec

\* step-3/page.tsx, useWorkspaces.ts, NewsletterPreferences.tsx: nothing is asked for without
\* a workspace and a slot, the rows are those of the filters in whatever order the answers
\* came, and an untouched form shows what the service told last.
THEOREM ScreensAlwaysAgree == ScreensSpec => []ScreensAgree
<1>1. ScreensInv => ScreensAgree
  <2> SUFFICES ASSUME ScreensInv PROVE ScreensAgree
    OBVIOUS
  <2>1. screen = "cache" => Cache!TypeOK
    BY CacheIsGenuine DEF ScreensInv
  <2>2. screen = "wizard" => Wizard!TypeOK /\ Wizard!AskedForIsValid
    BY WizardAsks DEF ScreensInv
  <2>3. screen = "calendar" => Calendar!TypeOK
    BY CalendarTyped DEF ScreensInv
  <2>4. Bell!TypeOK
    BY DEF ScreensInv, BellInv
  <2>5. screen = "filter" => Filter!TypeOK /\ Filter!ShownIsAsked
    BY FilterShows DEF ScreensInv
  <2>6. screen = "typing" => Typing!TypeOK /\ Typing!ShownIsAsked
    BY TypingShows DEF ScreensInv
  <2>7. screen = "timeline" => Timeline!TypeOK
    BY DEF ScreensInv, TimelineInv
  <2>8. Preferences!TypeOK /\ Preferences!SettledShowsSaved
    BY PreferencesSettle DEF ScreensInv
  <2> QED
    BY <2>1, <2>2, <2>3, <2>4, <2>5, <2>6, <2>7, <2>8 DEF ScreensInv, Screen, ScreensAgree
<1> QED
  BY ScreensStart, ScreensKept, <1>1, PTL DEF ScreensSpec

\* useNotifications.ts: what one tab has marked as read is neither lost nor made younger by
\* another tab.  NewsletterPreferences.tsx: a save undoes nothing that was changed elsewhere.
THEOREM ChangesAreKept == ScreensSpec => ChangesKept
<1>1. ASSUME [ScreensNext]_screensVars
      PROVE  [\A n \in Notification :
                stored[n] # Bell!Unread /\ clock - stored[n] <= MaxAge => stored'[n] = stored[n]]_(Bell!vars)
  BY <1>1, ScreenMoves, BellKeepsRead
<1>2. ASSUME ScreensInv, [ScreensNext]_screensVars
      PROVE  [(save.at = "sent" /\ save'.at = "applied") =>
                \A t \in Topic : save.values[t] = save.loaded[t] => kept'[t] = kept[t]]_(Preferences!vars)
  BY <1>2, ScreenMoves, PreferencesKeepOthers DEF ScreensInv
<1>3. Bell!ReadKept <=>
        [][\A n \in Notification :
             stored[n] # Bell!Unread /\ clock - stored[n] <= MaxAge => stored'[n] = stored[n]]_(Bell!vars)
  BY DEF Bell!ReadKept
<1>4. Preferences!OthersKept <=>
        [][(save.at = "sent" /\ save'.at = "applied") =>
             \A t \in Topic : save.values[t] = save.loaded[t] => kept'[t] = kept[t]]_(Preferences!vars)
  BY DEF Preferences!OthersKept
<1> QED
  BY ScreensStart, ScreensKept, <1>1, <1>2, <1>3, <1>4, PTL DEF ScreensSpec, ChangesKept
=============================================================================
