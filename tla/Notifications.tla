--------------------------- MODULE Notifications ---------------------------
(***************************************************************************)
(* The notification center of the dashboard.  Which notifications are read *)
(* is known to the browser only: each tab has a set of its own, loaded     *)
(* when it opens, and all tabs write one entry of localStorage, which      *)
(* keeps for every notification the time it was read and forgets it after  *)
(* a while.  No tab listens to what another one writes.                    *)
(***************************************************************************)
EXTENDS Integers, FiniteSets

CONSTANTS
  Tab, Notification,
  MaxAge,       \* READ_NOTIFICATION_MAX_AGE_MS
  MaxClock      \* bound

NotificationsAssumption == MaxAge \in Nat /\ MaxClock \in Nat \ {0}

VARIABLES
  clock,
  activity,     \* what the server reports as the recent activity
  shown,        \* per tab, the notifications it has fetched
  readIds,      \* per tab
  stored        \* what localStorage holds: the time each one was read, or Unread

vars == <<clock, activity, shown, readIds, stored>>

Unread == 0

Init ==
  /\ clock = 1 /\ activity = {}
  /\ shown = [t \in Tab |-> {}] /\ readIds = [t \in Tab |-> {}]
  /\ stored = [n \in Notification |-> Unread]

Retained == [n \in Notification |-> IF clock - stored[n] <= MaxAge THEN stored[n] ELSE Unread]
ReadIn(store) == {n \in Notification : store[n] # Unread}

\* Mutant of Persisted: the entry is written from what this tab knows.
PersistedAlone(ids) ==
  [n \in Notification |-> CASE n \notin ids -> Unread
                            [] Retained[n] = Unread -> clock
                            [] OTHER -> Retained[n]]

Persisted(ids) ==
  [n \in Notification |-> IF n \in ids /\ Retained[n] = Unread THEN clock ELSE Retained[n]]

\* The dashboard is opened, or loaded again, in a tab.
Open(t) ==
  /\ stored' = Retained
  /\ readIds' = [readIds EXCEPT ![t] = ReadIn(Retained)]
  /\ shown' = [shown EXCEPT ![t] = {}]
  /\ UNCHANGED <<clock, activity>>

Report(n) ==
  /\ n \notin activity
  /\ activity' = activity \cup {n}
  /\ UNCHANGED <<clock, shown, readIds, stored>>

Fetch(t) ==
  /\ shown' = [shown EXCEPT ![t] = activity]
  /\ UNCHANGED <<clock, activity, readIds, stored>>

MarkAsRead(t, n) ==
  /\ n \in shown[t] \ readIds[t]
  /\ readIds' = [readIds EXCEPT ![t] = @ \cup {n}]
  /\ stored' = Persisted(readIds[t] \cup {n})
  /\ UNCHANGED <<clock, activity, shown>>

\* The button is disabled when nothing is unread.
MarkAllAsRead(t) ==
  /\ shown[t] \ readIds[t] # {}
  /\ readIds' = [readIds EXCEPT ![t] = @ \cup shown[t]]
  /\ stored' = Persisted(readIds[t] \cup shown[t])
  /\ UNCHANGED <<clock, activity, shown>>

Tick ==
  /\ clock < MaxClock
  /\ clock' = clock + 1
  /\ UNCHANGED <<activity, shown, readIds, stored>>

Next ==
  \/ \E t \in Tab : Open(t) \/ Fetch(t) \/ MarkAllAsRead(t)
  \/ \E t \in Tab, n \in Notification : MarkAsRead(t, n)
  \/ \E n \in Notification : Report(n)
  \/ Tick

Spec == Init /\ [][Next]_vars

TypeOK ==
  /\ clock \in 1 .. MaxClock /\ activity \subseteq Notification
  /\ shown \in [Tab -> SUBSET Notification] /\ readIds \in [Tab -> SUBSET Notification]
  /\ stored \in [Notification -> 0 .. clock]

\* What one tab has marked is neither lost nor made younger by what another tab
\* writes, until it is old enough to be forgotten.
ReadKept ==
  [][\A n \in Notification :
       stored[n] # Unread /\ clock - stored[n] <= MaxAge => stored'[n] = stored[n]]_vars
=============================================================================
