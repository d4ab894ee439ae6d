--------------------------- MODULE BrowserSession ---------------------------
(***************************************************************************)
(* The session in one tab of the web client: the auth store (persisted),   *)
(* the cookie the Next.js middleware looks at, the axios interceptors with *)
(* their queue, and the dialog that warns before the token expires.        *)
(* Promises run to the end between two events, so a step is one event.     *)
(* The server is outside: it may refuse any token, and answer any refresh. *)
(***************************************************************************)
EXTENDS Integers, Sequences

CONSTANTS
  Call,            \* API calls under way at once
  Bye, NoCall,     \* the POST of logout(), and no call at all
  HeldRoles,       \* the role claim of the user's tokens
  Life,            \* seconds a token lives
  WarnBefore,      \* WARN_BEFORE_EXPIRY_S
  Debounce,        \* ACTIVITY_DEBOUNCE_MS, in seconds
  MaxToken, MaxClock   \* bounds

BrowserSessionAssumption ==
  /\ {Life, WarnBefore, Debounce, MaxToken, MaxClock} \subseteq Nat
  /\ Bye \notin Call /\ NoCall \notin Call \cup {Bye}

VARIABLES
  clock,
  expiry,      \* the exp of each token issued so far
  store,       \* accessToken and isAuthenticated; accessToken survives a reload
  cookie,      \* the cookie "token"
  page,
  visit,       \* the navigation under way: where to, and whether the page is loaded anew
  call,        \* per API call
  refresher,   \* the call for which isRefreshing is set
  staying,     \* the refresh of "Stay Logged In" is under way
  activity,    \* lastActivityRef
  warning      \* the timer, and the dialog with the end of its countdown

pageVars == <<page, visit>>
callVars == <<call, refresher>>
vars == <<clock, expiry, store, cookie, pageVars, callVars, staying, activity, warning>>

NoToken == 0
Calls == Call \cup {Bye}
Idle == [at |-> "idle", bearer |-> FALSE, retry |-> FALSE]
SignedOut == [token |-> NoToken, auth |-> FALSE]
Nowhere == [to |-> "nowhere", load |-> FALSE]
Quiet == [shown |-> FALSE, timer |-> 0, again |-> FALSE, end |-> 0]

Init ==
  /\ clock = 0 /\ expiry = <<>> /\ store = SignedOut /\ cookie = NoToken
  /\ page = "/" /\ visit = Nowhere
  /\ call = [c \in Calls |-> Idle] /\ refresher = NoCall /\ staying = FALSE
  /\ activity = 0 /\ warning = Quiet

-----------------------------------------------------------------------------
(* Tokens *)

IsTokenExpired(token) == clock >= expiry[token]
NewToken == Len(expiry) + 1
Issue == Len(expiry) < MaxToken /\ expiry' = Append(expiry, clock + Life)

-----------------------------------------------------------------------------
(* The pages and the middleware *)

AuthPages == {"/login", "/verify-otp"}
RequiredRole(p) == CASE p = "/admin" -> {"admin"} [] OTHER -> {}
Protected == {"/dashboard", "/admin"}
Pages == {"/"} \cup AuthPages \cup Protected

HasRequiredRole(p) == RequiredRole(p) = {} \/ RequiredRole(p) \cap HeldRoles # {}

\* Where the middleware sends a request for p, given the cookie: p itself lets it pass.
Redirected(p) ==
  IF p = "/login" /\ cookie # NoToken THEN "/dashboard"
  ELSE IF p \in Protected /\ (cookie = NoToken \/ IsTokenExpired(cookie)) THEN "/login"
  ELSE IF p \in Protected /\ ~HasRequiredRole(p) THEN "/dashboard"
  ELSE p

-----------------------------------------------------------------------------
(* The dialog: the effect that runs when the token or the kind of page changes *)

Show(end) == [Quiet EXCEPT !.shown = TRUE, !.end = end]

\* Mutant of ScheduleWarning: a token already within the last seconds is not noticed.
ScheduleWarningLater(exp) == [Quiet EXCEPT !.timer = exp - WarnBefore]

ScheduleWarning(exp) ==
  IF exp - WarnBefore <= clock
  THEN Show(IF exp > clock THEN exp ELSE clock)
  ELSE [Quiet EXCEPT !.timer = exp - WarnBefore]

\* exps: expiry as it is once the step is taken.
WarningFor(new, p, exps) ==
  IF ~new.auth \/ new.token = NoToken \/ p \in AuthPages THEN Quiet ELSE ScheduleWarning(exps[new.token])

Rendered(new, p, exps) ==
  warning' = IF new = store /\ (p \in AuthPages <=> page \in AuthPages) THEN warning
             ELSE WarningFor(new, p, exps)

-----------------------------------------------------------------------------
(* authStore *)

\* Mutant of LoginPage: the router shows the page, without loading it.
LoginPageShown == [to |-> "/login", load |-> FALSE]
LoginPage == [to |-> "/login", load |-> TRUE]

\* clearAuth, the cookie, and window.location.  The POST is sent by a promise that
\* runs later, when the store holds no token any more; calls is what else changes.
LogOut(calls) ==
  /\ store' = SignedOut
  /\ cookie' = NoToken
  /\ visit' = LoginPage
  /\ call' = [calls EXCEPT ![Bye] = [Idle EXCEPT !.at = "sent"]]
  /\ warning' = Quiet

\* login() after the password, or the passkey, was accepted.
Login ==
  /\ page = "/login" /\ visit = Nowhere
  /\ Issue
  /\ store' = [token |-> NewToken, auth |-> TRUE]
  /\ cookie' = NewToken
  /\ visit' = [to |-> "/dashboard", load |-> TRUE]
  /\ Rendered(store', page, expiry')
  /\ UNCHANGED <<clock, page, callVars, staying, activity>>

\* The page writes the cookie and leaves the store alone.
VerifyOtp ==
  /\ page = "/verify-otp" /\ visit = Nowhere
  /\ Issue
  /\ cookie' = NewToken
  /\ visit' = [to |-> "/dashboard", load |-> FALSE]
  /\ UNCHANGED <<clock, store, page, callVars, staying, activity, warning>>

\* initializeAuth
Initialized ==
  IF store.token # NoToken /\ ~IsTokenExpired(store.token) THEN [store EXCEPT !.auth = TRUE] ELSE SignedOut

-----------------------------------------------------------------------------
(* Navigation *)

Visit(p) ==
  /\ visit = Nowhere /\ p # page
  /\ \E load \in BOOLEAN : visit' = [to |-> p, load |-> load]
  /\ UNCHANGED <<clock, expiry, store, cookie, page, callVars, staying, activity, warning>>

Redirect ==
  /\ visit # Nowhere /\ Redirected(visit.to) # visit.to
  /\ visit' = [visit EXCEPT !.to = Redirected(visit.to)]
  /\ UNCHANGED <<clock, expiry, store, cookie, page, callVars, staying, activity, warning>>

\* The router shows another page: the modules and what they await live on.
ShowPage ==
  /\ visit # Nowhere /\ ~visit.load /\ Redirected(visit.to) = visit.to
  /\ page' = visit.to /\ visit' = Nowhere
  /\ Rendered(store, visit.to, expiry)
  /\ UNCHANGED <<clock, expiry, store, cookie, callVars, staying, activity>>

\* The page is loaded: everything starts anew, but for localStorage and the cookie.
LoadPage ==
  /\ visit # Nowhere /\ visit.load /\ Redirected(visit.to) = visit.to
  /\ page' = visit.to /\ visit' = Nowhere
  /\ store' = Initialized
  /\ cookie' = Initialized.token
  /\ call' = [c \in Calls |-> Idle] /\ refresher' = NoCall /\ staying' = FALSE
  /\ activity' = clock
  /\ warning' = WarningFor(Initialized, visit.to, expiry)
  /\ UNCHANGED <<clock, expiry>>

-----------------------------------------------------------------------------
(* API calls and the interceptors *)

Send(c) ==
  /\ c # Bye /\ call[c].at = "idle"
  /\ call' = [call EXCEPT ![c] = [at |-> "sent", bearer |-> store.token # NoToken, retry |-> FALSE]]
  /\ UNCHANGED <<clock, expiry, store, cookie, pageVars, refresher, staying, activity, warning>>

\* Any answer but 401, which needs a token that is good for the server, or an error.
\* A 401 of the endpoints one signs in with is passed on in the same way.
Settle(c) ==
  /\ call[c].at = "sent"
  /\ call' = [call EXCEPT ![c] = Idle]
  /\ UNCHANGED <<clock, expiry, store, cookie, pageVars, refresher, staying, activity, warning>>

\* 401: given up after the retry, queued while another call refreshes, else refreshing.
Unauthorized(c) ==
  /\ call[c].at = "sent"
  /\ \/ /\ call[c].retry
        /\ call' = [call EXCEPT ![c] = Idle] /\ UNCHANGED refresher
     \/ /\ ~call[c].retry /\ refresher # NoCall
        /\ call' = [call EXCEPT ![c].at = "queued"] /\ UNCHANGED refresher
     \/ /\ ~call[c].retry /\ refresher = NoCall
        /\ call' = [call EXCEPT ![c].at = "refreshing"] /\ refresher' = c
  /\ UNCHANGED <<clock, expiry, store, cookie, pageVars, staying, activity, warning>>

\* The calls sent once more with the new token; those of the queue are not marked.
Resent ==
  [c \in Calls |-> IF call[c].at \in {"refreshing", "queued"}
                   THEN [at |-> "sent", bearer |-> TRUE, retry |-> call[c].at = "refreshing"]
                   ELSE call[c]]

\* The cookie keeps the old token.
Refreshed ==
  /\ refresher # NoCall
  /\ Issue
  /\ store' = [token |-> NewToken, auth |-> TRUE]
  /\ call' = Resent /\ refresher' = NoCall
  /\ Rendered(store', page, expiry')
  /\ UNCHANGED <<clock, cookie, pageVars, staying, activity>>

\* The call is rejected; the queue is emptied, and nobody answers those who wait in it.
RefreshFails ==
  /\ refresher # NoCall
  /\ LogOut([c \in Calls |-> CASE call[c].at = "refreshing" -> Idle
                               [] call[c].at = "queued" -> [call[c] EXCEPT !.at = "lost"]
                               [] OTHER -> call[c]])
  /\ refresher' = NoCall
  /\ UNCHANGED <<clock, expiry, page, staying, activity>>

-----------------------------------------------------------------------------
(* The dialog *)

Activity ==
  /\ store.auth /\ page \notin AuthPages /\ activity # clock
  /\ activity' = clock
  /\ UNCHANGED <<clock, expiry, store, cookie, pageVars, callVars, staying, warning>>

TimerDue == warning.timer # 0 /\ warning.timer <= clock
CountdownDue == warning.shown /\ warning.end <= clock

\* Who was active a moment ago is left alone for the rest of the debounce, once.
TimerFires ==
  /\ TimerDue
  /\ warning' = IF ~warning.again /\ clock - activity < Debounce
                THEN [warning EXCEPT !.timer = activity + Debounce, !.again = TRUE]
                ELSE Show(clock + WarnBefore)
  /\ UNCHANGED <<clock, expiry, store, cookie, pageVars, callVars, staying, activity>>

\* "Log Out", or the end of the countdown.
OnLogOut ==
  /\ warning.shown
  /\ LogOut(call)
  /\ UNCHANGED <<clock, expiry, page, refresher, staying, activity>>

OnStayLoggedIn ==
  /\ warning.shown
  /\ warning' = Quiet
  /\ staying' = TRUE
  /\ UNCHANGED <<clock, expiry, store, cookie, pageVars, callVars, activity>>

StayAnswered ==
  /\ staying
  /\ staying' = FALSE
  /\ \/ Issue /\ store' = [token |-> NewToken, auth |-> TRUE]
     \/ store' = SignedOut /\ UNCHANGED expiry
  /\ Rendered(store', page, expiry')
  /\ UNCHANGED <<clock, cookie, pageVars, callVars, activity>>

\* Timers are served before a second passes.
Tick ==
  /\ clock < MaxClock /\ ~TimerDue /\ ~CountdownDue
  /\ clock' = clock + 1
  /\ UNCHANGED <<expiry, store, cookie, pageVars, callVars, staying, activity, warning>>

-----------------------------------------------------------------------------
Next ==
  \/ Login \/ VerifyOtp
  \/ \E p \in Pages : Visit(p)
  \/ Redirect \/ ShowPage \/ LoadPage
  \/ \E c \in Calls : Send(c) \/ Settle(c) \/ Unauthorized(c)
  \/ Refreshed \/ RefreshFails
  \/ Activity \/ TimerFires \/ OnLogOut \/ OnStayLoggedIn \/ StayAnswered
  \/ Tick

\* Assumed of the network and the server: a request, a refresh included, is answered or
\* fails some day.  axios.create sets no time limit that would see to it.  The browser
\* ends the navigation it began.
Fairness ==
  /\ \A c \in Calls : WF_vars(Settle(c) \/ Unauthorized(c))
  /\ WF_vars(Refreshed \/ RefreshFails)
  /\ WF_vars(Redirect \/ ShowPage \/ LoadPage)

Spec == Init /\ [][Next]_vars
FairSpec == Spec /\ Fairness

TypeOK ==
  /\ expiry \in Seq(Nat)
  /\ store \in [token : 0 .. Len(expiry), auth : BOOLEAN]
  /\ cookie \in 0 .. Len(expiry)
  /\ page \in Pages /\ visit.to \in Pages \cup {"nowhere"}
  /\ call \in [Calls -> [at : {"idle", "sent", "queued", "refreshing", "lost"},
                         bearer : BOOLEAN, retry : BOOLEAN]]
  /\ refresher \in Calls \cup {NoCall}
  /\ warning \in [shown : BOOLEAN, timer : Nat, again : BOOLEAN, end : Nat]

-----------------------------------------------------------------------------
\* useSessionTimeout: nobody is surprised.  Whoever looks at a page with a session
\* sees the dialog before the token expires, whatever the reloads, renewals and bursts
\* of activity, and also while a navigation is under way; unless "Stay Logged In" is
\* still waiting for its answer.
WarnedInTime ==
  (store.auth /\ page \notin AuthPages /\ ~staying /\ ~TimerDue
     /\ clock >= expiry[store.token] - WarnBefore + Debounce) => warning.shown

\* apiClient: a call that waits behind a refresh is sent once more when the refresh
\* succeeds; when it fails nobody answers the call, and its page is left.
CallsEnd == \A c \in Calls : call[c].at \in {"queued", "lost"} ~> call[c].at \notin {"queued", "lost"}

\* middleware.ts: every navigation ends on a page.
NavigationEnds == visit # Nowhere ~> visit = Nowhere

\* authStore.ts:115: logout revokes on the server before it clears the local state.
LogoutRevokes == [][call'[Bye].at = "sent" /\ call[Bye].at = "idle" => call'[Bye].bearer]_vars

\* authStore.ts:116: logout goes ahead whatever becomes of its request.  Who holds no
\* token gets one by signing in, not by a refresh that was under way.
LoggedOutStays == [][(store = SignedOut /\ store'.auth) => (page = "/login" /\ visit = Nowhere)]_vars

\* useSessionTimeout.ts:13: the countdown ends when the token expires.
CountdownEndsInTime == warning.shown => warning.end <= expiry[store.token]
=============================================================================
