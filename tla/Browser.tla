------------------------------ MODULE Browser -------------------------------
(***************************************************************************)
(* What the browser must do by itself, without the user: warn of the end   *)
(* of a session, end the calls it makes, and keep the dashboard polling.   *)
(* The session and the widgets share no state; the first state picks the   *)
(* one that moves.  The session is looked at twice: over time, with few    *)
(* calls, and at one moment, with as many as wait behind one refresh.      *)
(***************************************************************************)
EXTENDS Integers

CONSTANTS
  Call, Crowd,            \* Crowd: the calls that are made at that moment only
  Bye, NoCall, HeldRoles, Life, WarnBefore, Debounce, MaxToken, MaxSecond,  \* the session
  Plain, Shared, Chart                                                            \* the dashboard

VARIABLES
  running,
  seconds, expiry, authStore, cookie, location, visit, call, refresher, staying, lastActive, warning,
  hidden, paused, caught, query

sessionVars ==
  <<seconds, expiry, authStore, cookie, location, visit, call, refresher, staying, lastActive, warning>>
widgetVars == <<hidden, paused, caught, query>>
browserVars == <<running, sessionVars, widgetVars>>

Session == INSTANCE BrowserSession WITH
  MaxClock <- MaxSecond,
  clock <- seconds, store <- authStore, page <- location, activity <- lastActive

Dashboard == INSTANCE Widgets

ASSUME BrowserAssumption == Session!BrowserSessionAssumption /\ Dashboard!WidgetsAssumption

BrowserInit ==
  /\ running \in {"session", "moment", "dashboard"}
  /\ Session!Init /\ Dashboard!Init
  /\ running # "dashboard" => ~hidden

BrowserNext ==
  \/ /\ running = "session" /\ Session!Next /\ UNCHANGED <<running, widgetVars>>
     /\ \A c \in Crowd : call'[c] = Session!Idle
  \/ /\ running = "moment" /\ Session!Next /\ UNCHANGED <<running, widgetVars>>
     /\ seconds' = seconds
  \/ running = "dashboard" /\ Dashboard!Next /\ UNCHANGED <<running, sessionVars>>

BrowserSpec == BrowserInit /\ [][BrowserNext]_browserVars

\* The fairness of the two modules, for the part that moves.
SessionRuns == running # "dashboard"
Fairness ==
  /\ \A c \in Call \cup {Bye} : WF_sessionVars(SessionRuns /\ (Session!Settle(c) \/ Session!Unauthorized(c)))
  /\ WF_sessionVars(SessionRuns /\ (Session!Refreshed \/ Session!RefreshFails))
  /\ WF_sessionVars(SessionRuns /\ (Session!Redirect \/ Session!ShowPage \/ Session!LoadPage))
  /\ \A w \in Plain \cup Chart :
       /\ WF_widgetVars(running = "dashboard" /\ Dashboard!Poll(w))
       /\ WF_widgetVars(running = "dashboard" /\ Dashboard!Answer(w))

FairBrowserSpec == BrowserSpec /\ Fairness

\* useSessionTimeout.ts: whoever looks at a page with a session sees the dialog before the
\* token expires, whatever the reloads, renewals and bursts of activity.
WarnedInTime ==
  /\ SessionRuns => Session!TypeOK /\ Session!WarnedInTime
  /\ running = "dashboard" => Dashboard!TypeOK

\* apiClient.ts: whatever becomes of the refresh, no call stays in the queue behind it, or
\* dropped from it without an answer: it is sent once more, or its page is left.  This
\* takes for granted that every request to the backend is answered or fails some day.
CallsEnd == Session!CallsEnd

\* useDashboardPolling.ts: a widget that is on the page and seen keeps asking for news,
\* however often the page was hidden.
KeepsAsking == running = "dashboard" => Dashboard!KeepsAsking
=============================================================================
