------------------------------ MODULE Screens -------------------------------
(***************************************************************************)
(* The screens of the frontend, each on its own: they share no state, so   *)
(* the first state picks the screen that is used and the others stay in an *)
(* initial state.  A screen with several initial states has all of them    *)
(* when it is picked.                                                      *)
(***************************************************************************)
EXTENDS Integers, TLC

CONSTANTS
  Booking, Mutation, List,                                       \* cache
  Workspace, Time, MaxPost,                                      \* wizard
  West, East, Change,                                            \* calendar
  WeekDays, Weeks, Clicked, OtherHour, Typed, Capacity, MaxBooked,
  Tab, Notification, MaxAge, MaxClock,                           \* bell
  Kind, Character, MaxVisit,                                     \* filter, typing
  FarWest, FarEast, ClockIn, MaxRecord, Large, Window,           \* timeline
  Topic, MaxElse,                                                \* preferences
  Nothing

VARIABLES
  screen,
  server, was, page, data, fetch, mutation,
  store, step, arriving, post, mine,
  offset, booked, week, day, selected, prefill, form, typed, posting,
  clock, activity, seen, readIds, stored,
  url, nav, debounced, cached, fetching, failed, shown, visits,
  zone, record, range, visible,
  kept, loaded, isError, reading, save, unsubscribe, boxes, due, view, told, elsewhere

cacheVars == <<server, was, page, data, fetch, mutation>>
wizardVars == <<store, step, arriving, post, mine>>
calendarVars == <<offset, booked, week, day, selected, prefill, form, typed, posting>>
bellVars == <<clock, activity, seen, readIds, stored>>
filterVars == <<url, nav, debounced, cached, fetching, failed, shown, visits>>
timelineVars == <<zone, record, range, visible>>
preferenceVars == <<kept, loaded, isError, reading, save, unsubscribe, boxes, due, view, told, elsewhere>>
screensVars == <<screen, cacheVars, wizardVars, calendarVars, bellVars, filterVars, timelineVars,
                 preferenceVars>>

\* The things and the actors differ by nothing but their names, in a run that gives the
\* bookings the names of the notifications and topics, and the mutations those of the tabs.
Alike == Permutations(Booking) \cup Permutations(Mutation)

-----------------------------------------------------------------------------
(* The instances *)

Cache == INSTANCE BookingCache

Wizard == INSTANCE BookingWizard WITH page <- step

\* The browser is at UTC, east of it, or west of it where summer time begins at Change.
Utc == [before |-> 0, after |-> 0, change |-> 0]
Zones == {Utc, [Utc EXCEPT !.before = East, !.after = East],
          [before |-> -West, after |-> 2 - West, change |-> Change]}

Calendar == INSTANCE WorkspacePage WITH Zone <- Zones, MaxPost <- MaxBooked

Bell == INSTANCE Notifications WITH shown <- seen

\* The filters together with a search, and a search typed character by character.
Filter == INSTANCE ListFilters WITH Term <- [1..2 -> Character], None <- Nothing

Typing == INSTANCE ListFilters WITH
  Kind <- {}, Term <- [1..1 -> Character] \cup [1..2 -> Character], None <- Nothing

\* A record without a day, one without the moment, and one of the day after.
Records ==
  UNION {{[clockIn |-> t, date |-> -1], [clockIn |-> -1, date |-> t \div 24],
          [clockIn |-> t, date |-> t \div 24 + 1]} : t \in ClockIn}

Timeline == INSTANCE Timeline WITH Zone <- {-FarWest, 0, FarEast}, Record <- Records

Preferences == INSTANCE Preferences WITH
  None <- Nothing,
  server <- kept, data <- loaded, fetch <- reading, form <- boxes, shown <- view

ASSUME ScreensAssumption ==
  /\ Cache!BookingCacheAssumption /\ Wizard!BookingWizardAssumption
  /\ {West, East, Change, FarWest, FarEast} \subseteq Nat
  /\ Calendar!WorkspacePageAssumption /\ Bell!NotificationsAssumption
  /\ Filter!ListFiltersAssumption /\ Typing!ListFiltersAssumption
  /\ Timeline!TimelineAssumption /\ Preferences!PreferencesAssumption

-----------------------------------------------------------------------------
Screen == {"cache", "wizard", "calendar", "bell", "filter", "typing", "timeline", "preferences"}

\* The initial state of a screen that is not used.
Unused ==
  /\ screen # "calendar" => offset = Utc
  /\ screen \notin {"filter", "typing"} => url = Filter!Default /\ debounced = Filter!NoTerm
  /\ screen # "timeline" => zone = 0
  /\ screen # "preferences" => kept = [t \in Topic |-> TRUE]

ScreensInit ==
  /\ screen \in Screen
  /\ Cache!Init /\ Wizard!Init /\ Calendar!Init /\ Bell!Init
  /\ IF screen = "typing" THEN Typing!Init ELSE Filter!Init
  /\ Timeline!Init /\ Preferences!Init
  /\ Unused

Others ==
  /\ screen' = screen
  /\ IF screen = "cache" THEN TRUE ELSE UNCHANGED cacheVars
  /\ IF screen = "wizard" THEN TRUE ELSE UNCHANGED wizardVars
  /\ IF screen = "calendar" THEN TRUE ELSE UNCHANGED calendarVars
  /\ IF screen = "bell" THEN TRUE ELSE UNCHANGED bellVars
  /\ IF screen \in {"filter", "typing"} THEN TRUE ELSE UNCHANGED filterVars
  /\ IF screen = "timeline" THEN TRUE ELSE UNCHANGED timelineVars
  /\ IF screen = "preferences" THEN TRUE ELSE UNCHANGED preferenceVars

ScreensNext ==
  \/ screen = "cache" /\ Cache!Next /\ Others
  \/ screen = "wizard" /\ Wizard!Next /\ Others
  \/ screen = "calendar" /\ Calendar!Next /\ Others
  \/ screen = "bell" /\ Bell!Next /\ Others
  \/ screen = "filter" /\ Filter!Next /\ Others
  \/ screen = "typing" /\ Typing!Next /\ Others
  \/ screen = "timeline" /\ Timeline!Next /\ Others
  \/ screen = "preferences" /\ Preferences!Next /\ Others

ScreensSpec == ScreensInit /\ [][ScreensNext]_screensVars

-----------------------------------------------------------------------------
(* Properties: those of the modules, each for the screen that is used *)

\* useCancelBooking.ts, useConfirmBooking.ts: once all is settled a page shows nothing that
\* was never so, whatever mutations overlapped, failed and put back each other's guesses.
NothingInvented == screen = "cache" => Cache!NothingInvented

\* AttendanceTimeline.tsx: the groups are the ISO weeks of the moments they are grouped by.
GroupsAreWeeks == screen = "timeline" => Timeline!GroupsAreWeeks

\* step-3/page.tsx: nothing is asked for without a workspace and a slot.  useWorkspaces.ts:
\* the rows on the page are those of its filters.  NewsletterPreferences.tsx: an untouched
\* form shows what the service told last.  Every screen has its types.
ScreensAgree ==
  \/ screen = "cache" /\ Cache!TypeOK
  \/ screen = "wizard" /\ Wizard!TypeOK /\ Wizard!AskedForIsValid
  \/ screen = "calendar" /\ Calendar!TypeOK
  \/ screen = "bell" /\ Bell!TypeOK
  \/ screen = "filter" /\ Filter!TypeOK /\ Filter!ShownIsAsked
  \/ screen = "typing" /\ Typing!TypeOK /\ Typing!ShownIsAsked
  \/ screen = "timeline" /\ Timeline!TypeOK
  \/ screen = "preferences" /\ Preferences!TypeOK /\ Preferences!SettledShowsSaved

\* useNotifications.ts: a tab keeps what another has marked as read.
\* NewsletterPreferences.tsx: a save keeps what was changed elsewhere.
ChangesKept == Bell!ReadKept /\ Preferences!OthersKept
=============================================================================
