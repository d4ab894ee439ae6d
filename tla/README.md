# TLA+ specifications of HubAssist

HubAssist is a platform for shared workspaces: a NestJS backend over PostgreSQL
and Redis, a Next.js frontend, and Soroban smart contracts on Stellar. This
directory holds TLA+ modules for the parts whose correctness depends on the
order of several steps or on a boundary, the TLC configurations that check them
on small instances, and TLAPS proofs about the contracts, the backend and the
browser.
Paths below are relative to the repository; `PROJECT.json` maps every definition
to the lines it models.

Contents: [1 the system](#1-the-system), [2 modules](#2-modules),
[3 runs](#3-runs), [4 fairness](#4-fairness), [5 proofs](#5-proofs),
[6 where code and documents part](#6-where-code-and-documents-part),
[7 not modelled](#7-what-is-not-modelled), [8 plan](#8-plan).

## 1 The system

### The parts, their state and what makes them hard

| Part | State | Operations | Hard because |
|---|---|---|---|
| **payment_escrow** contract | escrows, id lists, arbitrators, dispute windows, token balances | initialize, create, release, refund, auto-release, dispute, evidence, vote, expire, pause | six ways to pay out one escrow, by four parties and the clock; the token and the arbitrators can change under open escrows |
| **workspace_booking** contract | workspaces with state and availability, bookings, two id lists, types | register, transition, book, confirm (also in batches), cancel, link an escrow | the overlap check runs at booking only and scans a list kept by other operations |
| **access_control** contract | roles, configuration, proposals, a pending transfer | roles, propose/approve/execute, pause, two-step transfer of the seat | thresholds read at execution, time lock fixed at creation, two ways to change the admin and an initialize that can be repeated |
| membership_token contract | tokens, an index by expiry day | issue, transfer, renew, revoke, batches | a stored and a computed status; an index several operations must keep |
| manage_hub contract | staking, rewards, tiers, subscriptions, attendance | about fifty | checkpoints of rewards against changing stakes |
| hubassist_hub, common_types | hubs, members; shared types, schema versions | register; migrate | little |
| **bookings**, **workspaces** (backend) | rows of bookings, workspaces, maintenance windows | create, create a series, confirm, cancel, availability; delete a workspace | several requests and transactions on the same rows, copies saved after an await, each save a select and an update, a check and an insert that must be one |
| **pricing** | rules, policies | create, update, remove; price, refund, series | slices at whole hours, two updates that both pass the check |
| **outbox**, **webhooks** | rows of events and deliveries | create, poll, publish or post, retry | several processes, failures between an effect and its record, late answers |
| **attendance** | clock-in and clock-out rows | clock in, clock out, the hourly job, summaries | nothing runs in a transaction; days of a zone |
| **accounts**, users | rows of users, one-time codes, passwords | register, verify, resend, log in, reset, update, delete | a copy is saved in a select and an update of what differs, with a mail between two saves; undefined columns are skipped |
| **sessions** | access and refresh tokens, the list of revoked ids, CSRF tokens, event streams | sign in, refresh, log out, revoke, broadcast | three stores with different clocks; subjects shared by connections |
| **second factors** | secrets, passkeys and their counters | set up, enable, disable; sign in with a passkey | two requests that need each other's secret |
| **request handling**, **idempotency** | throttle counters, cache entries, audit rows | middleware, guards, interceptors, handler | the order of the stages; a look-up and a mark that are two calls |
| **paging** | the walk of a client over a list that grows | the next page by cursor or number | two precisions of time |
| **e-mail** | a counter of failures and a circuit breaker in Redis | render, send, retry | lost answers, two keys with lives of their own |
| **newsletter, contact, notifications** | subscribers, messages, rooms of sockets | subscribe, confirm, remove; submit, score; push | late saves of old copies |
| **catalog** (workspaces, amenities, hubs, pictures) | rows, and assets at the image host | create, update, remove, upload | a row and an asset of another service |
| **reports, analytics, dashboard, caches** | snapshots, cached answers | the daily job, ranges, totals | the end of a day, jobs in several processes, stale entries |
| **health** | probes under way | live, ready, deep | limits of time that differ |
| stellar client, audit, configuration, migrations, seeds | rows or none | one call each | outside effects only |
| **browser session** (frontend) | the stored token, a cookie, calls and their queue, timers | requests, refresh, log in and out, navigation, warning | one refresh for many calls; timers against an expiry |
| **screens** (frontend) | caches of queries, forms, the URL, local storage | edit, submit, poll, group, show | answers in any order, several tabs, time zones |

The parts in bold are modelled.

### How they interact

A page calls the backend through `apiClient`, whose interceptor queues calls
behind one refresh. A request passes middleware, guards (session, throttle,
roles, CSRF), interceptors (cache, idempotency, audit) and reaches a handler.
`BookingsService` locks the row of the workspace, asks
`ConflictDetectionService`, inserts the booking with its price and, in the same
transaction, an outbox event. A cron job of every process publishes outbox
events to Stellar. `confirm` verifies the payment with Stellar between reading
the booking and saving it, writes a second outbox event, and enqueues callbacks
in the webhook queue after the commit; a second cron job posts those. Deleting a
workspace cancels its confirmed future bookings. Dashboards and reports read
these rows, partly behind caches. On chain the contracts do not call each other:
`set_booking_escrow` of workspace_booking stores the id of an escrow without
asking payment_escrow.

### What correctness means, by component

* **payment_escrow**: the contract owns exactly what its open escrows need; each
  escrow is paid out once, to the party its status names, and closed for good; a
  beneficiary gets undisputed money only when due and disputed money only by the
  ballots of a majority of the arbitrators, as long as their list stays; nothing
  stays locked for ever.
* **workspace_booking**: two live bookings of a workspace overlap only when one that
  was cancelled is confirmed again after its time was given away; the id lists
  are exact.
* **access_control**: a proposal takes effect once, with enough different
  approvers, never alone for a critical action; a pause stops everything; apart
  from `initialize`, which can be repeated, the seat changes hands in two ways.
* **bookings**: capacity is respected under concurrent requests; the sweep over
  events is right; a refund is one of a booking that was cancelled; a confirmation
  is announced only after it is committed; a deleted workspace takes no booking. A
  price is the sum of the rates of every moment.
* **outbox**, **webhooks**: a row says sent or delivered only if it was, given
  up only after the full number of attempts, and every row ends.
* **attendance**: one open session per user, every session ends, the mark and
  the clock-out row agree; a summary holds every session once.
* **accounts**, **sessions**: the code stored is the one mailed last, lost, or about to
  be mailed; only a profile update takes a verification back; a logged-out token
  is refused for its whole life; no stream waits on a subject nobody broadcasts to.
* **supporting services**: a repeated request runs once; a walk shows every row
  once; the circuit of the mails opens only on a burst of failures; a cached
  number has a bounded age; totals agree with the rows they sum up.
* **frontend**: the user is warned before the token expires; no call stays in the
  queue behind a refresh; a visible widget keeps asking; a page that has settled
  shows nothing that was never so; a group of the timeline is a week.

`PROJECT.json` lists the hazards behind these at their lines.

## 2 Modules

| Module | Models | Instance for TLC |
|---|---|---|
| `EscrowCustody` | the promise of an escrow to its two parties (abstract) | through `PaymentEscrow` |
| `PaymentEscrow`, `PaymentEscrowProofs` | contracts/payment_escrow/src/lib.rs | `MCPaymentEscrow` |
| `WorkspaceBooking`, `WorkspaceBookingProofs` | contracts/workspace_booking/src/lib.rs | itself |
| `AccessControl`, `AccessControlProofs` | contracts/access_control/src/access_control.rs | `MCAccessControl` |
| `BookingService`, `BookingServiceProofs` | bookings.service.ts, conflict-detection.service.ts and capacity-check.service.ts (as operators), the deletion of workspaces.service.ts | `MCBookingService` |
| `Attendance`, `AttendanceProofs` | backend/src/attendance: clocking and the job | itself |
| `Outbox`, `WebhookDelivery` | backend/src/outbox, backend/src/webhooks | `Services` |
| `Accounts` | auth.service.ts and users/providers: rows of users | `Credentials` |
| `SecondFactor` | totp.*, biometric.service.ts | `Credentials` |
| `Sessions` | tokens, token-blacklist, csrf, oauth, session-broadcast | `Credentials` |
| `Credentials`, `CredentialsProofs` | the three side by side | itself |
| `Requests` | what the controllers declare of each route; middleware, guards and interceptors around a handler | `Services` |
| `Idempotency` | idempotency.middleware.ts | `Services` |
| `Paging` | cursor.util.ts, paginate.util.ts and the four kinds of lists | `Figures` |
| `Mail` | backend/src/email | `Services` |
| `Inbox` | newsletter, contact, notifications | `Services` (newsletter), `Figures` (contact, notifications) |
| `Catalog` | workspaces, amenities, hubs, pictures | `Services` |
| `Reports` | reports, analytics, the dashboard's counts, occupancy stream, the summary of attendance.service.ts | `Figures` |
| `StatsCache` | cache-invalidation.service.ts and the two caches of statistics | `Services` |
| `Pricing` | pricing-engine, cancellation-policy, recurrence | `Figures` |
| `Health` | backend/src/health | `Services` |
| `Services`, `ServicesProofs` | the services whose steps interleave, side by side | itself |
| `Figures` | the services that compute figures from rows, side by side | itself |
| `BrowserSession` | apiClient, authStore, middleware, session timeout of the frontend | `Browser` |
| `Widgets` | adaptive polling and the widgets of the dashboard | `Browser` |
| `Browser` | the session and the dashboard of a tab, side by side | itself |
| `BookingCache`, `BookingWizard` | the frontend's bookings: cached rows, the wizard | `Screens` |
| `WorkspacePage`, `ListFilters` | a workspace's calendar and form; the filtered list | `Screens` |
| `Notifications`, `Timeline`, `Preferences` | read marks, attendance by weeks, newsletter preferences | `Screens` |
| `Screens` | the screens, side by side | itself |
| `ScreensProofs` | theorems about `Browser` and `Screens` | |

### Conventions

**Contract calls are atomic**: a call that returns an error or panics changes
nothing, so it is a disabled action and its guard is the conjunction of the
checks before the commit, in their order. The caller is the first argument of an
action (`require_auth`). The token contract is a function of balances, the
ledger a clock `now`. Integers are unbounded except where the code's `u64` sum
can panic (`U64Max` in `PaymentEscrow`).

**Backend steps are single calls of a store or committed transactions**; a
request's local variables are a record with the place it has reached in the
field `at`. A crash or an error drops that record. A call that is not awaited is
a step that happens later, or never. `save` of an entity is two steps: a select
of the row, and an update of the columns in which the handler's copy differs
from what was selected; columns that are undefined are skipped. Two saves of one
row can therefore mix, and a write between the two steps is kept or overwritten
column by column. The commands a handler sends to Redis without a decision
between them (`recordFailure` of the breaker) are one step.

**Frontend steps are single events**: a promise that settles, a timer, a click, a
rendering. What the browser or a library does by itself (the router, the query
cache, storage) is modelled from how the code uses it and marked external.

Times are small integers, payloads members of small sets. Operators whose
comment begins with "Mutant of" are wrong on purpose: each is a slip in the code
that a property must notice. Those that `PROJECT.json` lists are replayed for
every property of every run; the others break other conjuncts of the same
properties.

### Notes on single modules

* `PaymentEscrow`: `Escrow(id)` is `escrow[id]`, the instance entries are
  `admin`, `paymentToken`, `disputeWindow`, `windowConfig`, `paused` and
  `arbitrators`; `balance[t][a]` is the token contract; `paid[id]` is a history.
  Every operation that writes storage is an action of its own name. A window
  that `set_dispute_window` stored for a type of booking is copied into the
  escrows created later. `EscrowCustody` knows phases and terms, not how the
  contract decides; the mapping is `CustodyPhase`, `CustodyTerms`.
* `WorkspaceBooking`: `state` and `available` of a workspace are kept
  separately, as in the code. `Paused`, the waitlist and tier discounts are
  never written by any function, so `require_not_paused` is true and
  `leave_waitlist` never succeeds. An admin may ask to confirm any booking: the
  code refuses only one that is `Confirmed`. `revivedAt[id]` is a history: how
  many bookings there were when a cancelled one was last confirmed again;
  `registeredIn[w]`: how many initializations there had been when a workspace
  was registered.
* `AccessControl`: executing `ScheduleUpgrade` replaces the code of the
  contract, which the model does not follow. `executions` and `approvedAt` are
  histories. `Initialize` may be called by anybody again, up to `MaxInits` times.
* `BookingService`: `HasConflict` is the sweep over clipped
  events, as a fold in the order of `events.sort`; `Load`, the count of bookings
  at an instant, is the reference. `Check` stands for the transaction from the
  lock on the workspace row to the last `hasConflict`, `CreateCommit` for the
  inserts and the commit. `ConfirmRead`, `SaveSelect`, `ConfirmWrite` and
  `ConfirmNotify` are split where the code awaits Stellar, inside `save`, and
  where it leaves the transaction; a cancellation is `CancelRead`, `SaveSelect`,
  `CancelWrite`. The instances of a series are compared with stored bookings only,
  and may overlap each other.
* `Outbox`, `WebhookDelivery`: a worker polls a batch, whose row locks end with
  the query, and goes through it row by row; what it writes comes from its copy.
  `published`, `accepted`, `failed`, `tried`, `shared`, `raced` are histories.
* `Attendance`: a session is a clock-in row with the set of its clock-out rows;
  `overlapped` is a history of users with two clock-ins in progress at once.
* `Accounts`: a request loads the user (`LoadUser`), selects the row again in
  `save` (`SelectUser`), updates it (`SaveUser`), mails a code (`MailCode`) and
  clears the window (`ClearWindow`), and may fail at each; the count and the
  window of resends are looked for in Redis, then in the row. Of the columns
  `PATCH users/:id` accepts, `isVerified` is modelled. `latest` is the code
  mailed last, or lost before its mail; `overlapped` holds the users on whose
  row two requests crossed: one loaded it while the other was about to save it,
  or both had a code to mail.
* `SecondFactor`: a request to enable or disable makes its checks, selects the
  row in `save` (`SelectTotp`) and updates it (`WriteTotp`), or fails between
  (`FailTotp`). `crossed` is the history of two such changes under way at once.
* `Sessions`: `Milli` ticks make a second, because tokens expire in seconds and
  the cache in milliseconds.
* `Requests`: one request for one route; the initial state chooses the route
  among `AllRoutes`, derived from the decorators. Services are not composed
  with it: a handler is one step that may fail.
* `Paging`: `Fine` ticks of the database make one tick of a Date.
* `Mail`: `failures` and `breaker` are the two keys of Redis with the ends of
  their lives, `failedAt` the history of recorded failures.
* `Pricing`, `Reports`, `Timeline` compare each computation
  with a reference definition over every small input. An update of a rule in
  `Pricing` checks a merged copy, selects and writes in three steps. A process of
  `Reports` has an `Offset` from UTC; its queries join the workspace of a
  booking and lose those of deleted ones.
* `WorkspacePage` counts in half hours; the browser's zone is one offset before
  a moment of the year and another one after it, as with summer time.
* `Timeline`: a record has the two fields `date` and `clockIn`, either of which
  may be missing, and the code looks now at the one, now at the other first.
* `BrowserSession`: `Calls` are the page's calls and `Bye`, the call of a
  logout. `Life`, `WarnBefore` and `Debounce` keep the order of the real times.
* `BookingCache`: `was[b]` is the history of statuses of a booking on the server.

## 3 Runs

`tlc -config <cfg>.cfg <module>`; each takes between seconds and a few
minutes.

Components that share no state are checked by one run: its module
instantiates each with its own variables, has a variable `part` that the first
state chooses and no step changes, and lets only that part move. The states of
such a run are the sum, not the product, of those of its parts, and each of its
properties speaks of the part it names.

| Run | cfg, module | Asks | Bounds |
|---|---|---|---|
| escrow_custody | EscrowCustody, MCPaymentEscrow | money is conserved, paid once, closed for good, and the contract implements `EscrowCustody` | two escrows in two tokens, amounts up to 2, time up to 5 (release at 2, window 1, timeout 2), one arbitrator |
| escrow_panel | EscrowPanel, MCPaymentEscrow | ballots, majorities of a list that stays, and that no escrow is stuck | one escrow, three arbitrators, time up to 6 |
| booking_pending | BookingPending, WorkspaceBooking | overlaps come only from cancelled bookings confirmed again; exact registers | one workspace, three bookings over times 0, 2, 3 (touching, overlapping and contained intervals), two calls of initialize |
| access_governance | AccessGovernance, MCAccessControl | proposals, pause, seat | three users, four kinds of actions, two configurations, one proposal, one tick, two calls of initialize by anybody |
| bookings | Bookings, MCBookingService | admission, sweep, refunds, announcements, deletion | two requests, two bookings, capacity 1, slots that touch and contain each other, series of two apart and of two that overlap, two policies; the sweep on every calendar of up to four bookings, capacity 1 to 3 |
| bookings_race | BookingsRace, MCBookingService | *violated*: capacity is never exceeded (see 6) | the same |
| attendance | Attendance, Attendance | one open session, mark and row agree, sessions end | two sessions, two requests, one job, limit of one hour, time up to 4, one failure |
| accounts | Accounts, Credentials | codes, verification, revocation, streams, second factors | one user, two requests, two attempts, one resend in a window; three secrets; two tokens, two connections, two ticks a second; stops where two requests have crossed on a row (`NotCrossed`) |
| services | Services, Services | truthful rows; every row ends, and only a process that had read it before undoes an end; keys, the circuit of the mails, newsletter, tables, pictures, cached numbers, probes and requests | two events, two workers, two attempts, one crash; two deliveries, two posters, four attempts, two crashes, one broken secret; three mails, threshold 2, lives of one and two ticks; one to three requests, two or three rows of each table |
| figures | Figures, Figures | walks by cursor, prices, totals | lists of three rows in pages of one; every rule, span and policy over two days of two hours, two updates at once; two bookings, processes an hour east and west of UTC, two sessions (`OneTable`: rules, policies, bookings and members move one at a time) |
| browser | Browser, Browser | warning, calls, polling | two calls, one of them sent only while another waits, and one logout; two tokens that live three ticks; three widgets |
| screens | Screens, Screens | the screens, eight parts | two bookings, mutations, tabs, topics; zones at UTC, nine and a half hours east and five west of it, the last with summer time; two New Years |

Why the bounds are enough. Contracts: an interaction is between two escrows (or
bookings) or between one and the configuration, so two (three for lists) of
them, two tokens and a clock that passes every boundary by at least one unit
show every order of the checks; each comparison is met below, at and above its
boundary. Three arbitrators are the least with a majority that is not
unanimous. Backend: a race needs two requests or workers, and a third adds
interleavings of pairs; where one request spoils what a second repairs
(idempotency, pictures) there are three. Two attempts tell "too early" from "too
late". In the attendance run a session that the job closed is followed by
another one of the same user. Frontend: one user and one tab, except where tabs
share storage. Times are scaled so that every limit keeps its order to the
others and is passed by at least one tick. Two constraints cut behaviours short:
`NotCrossed`, behind which the properties of rows and second factors say nothing
(their theorems need no such bound), and `OneTable`, which keeps apart what
shares no state.

Deadlock is not checked (`CHECK_DEADLOCK FALSE`) because clocks and counters are
bounded and every system here may come to rest. `SYMMETRY` is used for names
that nothing orders and only where no liveness property is checked.

### What the properties say

* `MoneySafe` relates balances to open escrows for every token; `PaidOnce`
  relates the history of payouts to the statuses; `ResolvedStays` says that a paid-out escrow is closed for good
  and a paused contract only pays out. `PanelDecides`, `DisputesEnd`: the panel
  of three. `CustodyKept` is refinement.
* `DoubleOnlyRevived`: the scan at booking is enough but for one way round it, a
  cancelled booking confirmed again (`NoDoubleBooking`, violated).
  `RegistersComplete`: the two lists the scan rests on are exact, and every
  workspace has a registered type unless `initialize` was called after it was
  registered (`TypesAlwaysRegistered`, violated).
* `ExecutedOnce`, `ExecutedOnlyApproved` (which counts people where the code
  counts list entries; the threshold is that of the moment), `SeatSafe`
  (critical actions need two, a pause freezes, and apart from `initialize` the
  seat changes hands by a transfer that waited or an executed proposal).
* `AdmissionFits` counts a series once however its instances lie, and leaves out
  bookings that were once cancelled, because they can come back; what a calendar
  has to show, `CapacityRespected`, is violated in both ways. `CalendarExact`
  compares the algorithms with their references. `SavesAgree`: however selects
  and updates mix, a Confirmed booking has the event of a committed
  confirmation, a refund is one of a booking that was cancelled, nothing becomes
  Pending again, callbacks follow commits. That a refund belongs to a booking
  that *is* cancelled is false (`RefundOnlyCancelled`).
  `DeletedTakesNone`: deletion against creation.
* `QueuesTruthful` and `QueuesEnd` ask the same of both queues. The end of a row
  excludes rows two workers held at once: the slower one does overwrite an end
  with a retry there. A delivery is promised its end only if none that cannot be
  decrypted waits in front of it.
* `OneOpen` excludes users whose clock-ins overlapped, which the code does not
  prevent. `SessionsEnd` needs nobody to clock out.
* `MailedCodeStored` and `VerifiedKept` hold except for users on whose row two
  requests crossed; between the save and its mail the code stored is the one
  about to be mailed, and a verification is taken back by a profile update that
  says so. `AccountsWellFormed`: a second factor is enabled exactly when it has a
  secret, unless two changes crossed. `LoggedOutRefused` is exact to a tick of the
  cache. `NoOrphanStreams` is about the subject several connections share.
* `RunsOnce` leaves out keys whose requests both read the empty entry
  (`OneAtATime`, violated, see 6). `WalkExact`: new rows make a walk neither skip
  nor repeat one that it could see. `BreakerEarned`: the circuit is open only for
  the reset time after a burst of as many failures as the threshold, each while
  the counter of the one before lived.
  `StaleBounded` gives the bound that does hold where `NeverBackwards` does not.
  `PricesRight`: each moment pays the rate in force at its hour of UTC, once.
  `TotalsAddUp`: reports of two ranges that meet add up to that of the whole, in
  whatever zone the process is; that a report covers the days asked for is false
  west of UTC (`DaysAskedFor`).
* `ServicesAgree` collects type correctness and one invariant of each remaining
  service: no handler that reads a user runs without one, an address has one row,
  a picture just stored is not removed by another upload (`UploadSurvives`), a
  probe ends.
* `WarnedInTime`: a page with a session shows the dialog before the token
  expires. `CallsEnd` (a call behind a refresh is sent again, or its page is left) and
  `KeepsAsking` are liveness.
* `NothingInvented` is about optimistic updates that put back each other's
  guesses, `GroupsAreWeeks` about zones and years: the records of a group are of
  one ISO week by the moment they are grouped by (what its label says is another
  matter, `LabelNames`), `ChangesKept` about tabs and about changes made elsewhere, `ScreensAgree`
  collects the rest as `ServicesAgree` does.

## 4 Fairness

* `PaymentEscrow`, `KeptSpec`: the ledger's clock goes on, and somebody goes on
  calling `try_auto_release` and `expire_dispute`, which anybody may call;
  neither the parties nor the admin owe anything. `expire_dispute` gets strong
  fairness because the admin can pause and unpause around each call. The
  property allows a contract that stays paused.
* `Outbox`, `WebhookDelivery`: `@Cron` runs the poll again and again in every
  process, so `WorkerStep` and `PosterStep` are weakly fair, and so is the
  passing of `nextRetryAt`. Crashes are bounded: a process that always crashes
  promises nothing. No fairness is assumed of publications or subscribers.
* `Attendance`: the job runs hourly and time passes. Clients owe nothing.
* `BrowserSession`: a request and a refresh settle, and the browser finishes a
  navigation it began. `apiClient` sets no time limit, so the first is an
  assumption on the server and the network: they answer or fail, in the end. The
  user owes nothing.
* `Widgets`: the interval of a mounted, visible query fires, and a request
  settles. Nothing makes the user press "Try Again", so a widget that its error
  boundary has caught is excepted.

In the runs of several parts fairness is that of the part that moves.

## 5 Proofs

TLC looks at small instances; TLAPS proves the following for all values of the
constants that satisfy the named assumptions of the modules.

| Theorem | Statement |
|---|---|
| `PaymentEscrowProofs!TypeCorrect` | `Spec => []TypeOK` |
| `OnePayout` | `Spec => []PaidOnce` |
| `ResolutionFinal` | `Spec => ResolutionIsFinal` |
| `ResolvedForGood` | `Spec => ResolvedStays` |
| `ImplementsCustody` | `Spec => CustodyKept` |
| `MoneyIsSafe` | `Spec => []MoneySafe` |
| `BallotsAreValid` | `Spec => []BallotsValid` |
| `DisputesShield` | `Spec => DisputeShields` |
| `PanelRules` | `Spec => []PanelDecides` if one list of arbitrators is ever registered |
| `WorkspaceBookingProofs!TypeCorrect` | `Spec => []TypeOK` |
| `BookingsDisjoint` | `Spec => []DoubleOnlyRevived` |
| `ListsComplete` | `Spec => []IndexComplete` |
| `RegistersAreComplete` | `Spec => []RegistersComplete` |
| `AccessControlProofs!TypeCorrect` | `Spec => []TypeOK` |
| `OneExecution` | `Spec => []ExecutedOnce` |
| `EnoughApprovals` | `Spec => ExecutedOnlyApproved` |
| `TwoForCritical` | `Spec => CriticalNeedsTwo` if every configuration asks for two |
| `PauseFreezes` | `Spec => PausedFreezes` |
| `SeatChangesHands` | `Spec => AdminHandover` |
| `SeatIsSafe` | `Spec => SeatSafe` if every configuration asks for two |
| `RowsAreMarked` | `Spec => []RowsMarked` (Attendance) |
| `OneOpenSession` | `Spec => []OneOpen` (Attendance) |
| `BookingServiceProofs!TypeCorrect` | `Spec => []TypeOK` |
| `DeletionStops` | `Spec => DeletedTakesNone` |
| `SavesHold` | `Spec => []SavesAgree` |
| `AdmissionHolds` | `Spec => []AdmissionFits` |
| `SweepCounts` | the sweep of `HasConflict` agrees with `Load` on every finite calendar |
| `CalendarHolds` | `Spec => []CalendarExact` |
| `QueuesAreTruthful` | `Spec => []QueuesTruthful` (Services) |
| `EndedIsFinal` | `Spec => Outboxes!Final /\ Webhooks!Final` (Services) |
| `KeyRunsOnce` | `Spec => []RunsOnce` (Services) |
| `BreakerIsEarned` | `Spec => []BreakerEarned` (Services) |
| `AnswersAreRecent` | `Spec => []StaleBounded` (Services) |
| `ServicesAgreeAlways` | `Spec => []ServicesAgree` (Services) |
| `CodesAreStored` | `Spec => []MailedCodeStored` (Credentials) |
| `VerificationStays` | `Spec => VerifiedKept` (Credentials) |
| `LogoutHolds` | `Spec => []LoggedOutRefused` (Credentials) |
| `StreamsAreReached` | `Spec => []NoOrphanStreams` (Credentials) |
| `RefreshNeverWorks` | `Spec => []Tokens!NothingRenewed` (Credentials) |
| `CredentialsAreWellFormed` | `Spec => []AccountsWellFormed` (Credentials) |
| `SessionsAreWarned` | `BrowserSpec => []WarnedInTime` (Browser) |
| `NothingIsInvented` | `ScreensSpec => []NothingInvented` (Screens) |
| `GroupsAreAlwaysWeeks` | `ScreensSpec => []GroupsAreWeeks` (Screens) |
| `ScreensAlwaysAgree` | `ScreensSpec => []ScreensAgree` (Screens) |
| `ChangesAreKept` | `ScreensSpec => ChangesKept` (Screens) |

The argument, by module:

* **payment_escrow**. `TypeInv` adds to the types that ids are dense and that a
  configured token comes with a window: without the first, `create_escrow` might
  overwrite an escrow, without the second, a record might have no window. One
  lemma, `OperateFacts`, says of all eight operations on an escrow that they find
  it open and either pay it out or rewrite its record as a disputed one; payouts,
  finality and the refinement follow from it. `PausedExit` looks at the
  operations that do not ask whether the contract is paused. For the refinement
  each action maps to a deposit, a contest, a payment, a return, a tick or a
  stutter. The ballots need `DisputeInv`: one ballot per arbitrator, and none
  before the dispute. `Owed` is a set of units of money, so that `SolventInv`
  needs no sum: a deposit adds the units of one new escrow, a payout removes
  those of the escrow it closes (`OwedGrows`, `OwedShrinks`), and the set stays
  finite. `PanelInv` knows of a released dispute that a majority of some
  registered panel voted for it; when there is one panel, who voted otherwise is
  a minority (`BallotsWithinPanel` counts ballots by seats). `OnePanel` is the
  condition under which the code keeps that promise; with two lists it does not
  (see 6).
* **workspace_booking**. `BookingInv` is `TypeInv`, `Index` and `ClashesRevived`.
  That a new booking overlaps none is known only of the ones in the list that is
  scanned, so the list must be complete (`Index`). Of two bookings that overlap
  the younger was made when the older one was cancelled; `ClashesRevived` says
  that if the older one lives it came back afterwards, and must say so also while
  the younger one is cancelled, since that one can come back too. `TypesInv`
  counts initializations: `initialize` empties the registry of types down to the
  canonical ones, and what was registered since knows its type.
* **access_control**. `AccessInv` adds that a list of approvals names nobody
  twice (so its length counts people), and that before `initialize` there is no
  admin and nothing has happened; a later `initialize` changes the seat and the
  thresholds and leaves proposals and approvals alone. `SeatIsSafe` puts the
  three action properties together.
* **attendance**. `RowsInv` adds that what somebody has read exists, that a job
  between its two writes has stored the first, and that sessions are numbered
  without gaps, so a user's sessions have a last one: without it `LatestOf` would
  say nothing. `OpenInv` says why a look at that one is enough: of a user whose
  clock-ins do not overlap, every session but the last is closed, who is about to
  check has read the last, and who is about to save found all of them closed.
  Rows are only added, so a closed session stays closed. The users, requests,
  jobs and the limit are arbitrary; the assumptions are `NumbersAssumption` and
  that the name for "no user" is not a user.

* **bookings**. `BookInv`: ids are dense, a request that holds a copy holds one of
  a stored booking (confirmed and without a refund if it will confirm it,
  cancelled if it will cancel it), an update that leaves the status out met a row
  that is no longer Pending, and no creation is under way once the workspace is
  deleted. Every step either inserts or overwrites single rows with columns of
  such a copy (`Overwritten`), which leaves two kinds of steps to look at.
  `Consistent`, what a row is like whichever updates have mixed on it, gives
  half of `SavesAgree`; the other half needs `NotifyInv`, that each request at
  "notify" owns one committed event, as a count. `FitInv` is the argument for
  `AdmissionFits`: who holds the lock has found a place at every instant of each
  instance (`Reserved`), other steps never add to the requests admitted at an
  instant (`Admittances`), so the place is still there at the insert; all the
  instances of a series count as one request (`InsertedAdmitted`), so nothing is
  assumed about how they lie.
* **the sweep**. `MapThenFoldSet` is unfolded into a function on the subsets of
  the events (`WalkExists`), and properties of it are shown by induction over
  finite sets with a set, not an operator, as the thing that is closed
  (`EventInduction`, from `NatSetInduction`). `WalkCounts`, `WalkReaches` and
  `WalkBounded` bound the counters from both sides; `ExcessIsLoad` translates
  starts less ends into bookings at an instant. `SweepCounts` puts them together
  for every finite set of intervals that does not contain the request itself;
  `CalendarHolds` applies it to what the run looks at.
* **queues**. `OutboxInv` and `WebhookInv` say of rows and of the copies in
  batches what was tried (a pending row has attempts left, a copy about to be
  recorded as sent was published) and of races what the histories `shared` and
  `raced` saw: two workers hold a row, or one holds a row that has ended, only
  if it is in them. Batches and the line of deliveries hold nothing twice. The
  last point is what makes `Final` provable: who writes a row holds it, so of a
  row that ended and was never shared nobody does. Rows, workers, attempts,
  batch sizes and crashes are arbitrary.
* **accounts**. `RowsInv` describes the requests under way: no patch touches the
  columns that hold a row together, one that will mail a code carries that code,
  the others carry none that a save would store (`GoodPatch`); a copy about to be
  saved undoes nothing of the row (`Fresh`), and a column that its update leaves
  out has the value it should have there (`LeftOut`), as long as nobody crossed;
  two requests that could undo each other's code or verification have been seen
  to cross (`OverlapSeen`). `MailedCodeStored` is part of it, since what may be in
  a row depends on who is about to mail. `Undefined` must not be a number or a
  truth value, which is what a column that a save skips means. `SessionsInv`:
  tokens are known by their numbers, who logged out is on the list until the
  token's second is over, rows keep hashes, and an open stream has its user's
  present subject. `FactorsInv` bounds the counters of logins under way and says
  of a change under way what its update leaves out (`ChangeHolds`); unless two
  crossed there is only one. The hash of one-time passwords, the length of a
  second in milliseconds and all lives are arbitrary. `CredentialsInv` is the
  three together: one part moves and the others stay as they began.
* **keys**. `KeysInv` says of a key nobody raced for that it is in one of four
  phases: unused, taken by the one request that runs, answered with the last
  write under way, or kept. `RunsOnce` and that no sentinel is left behind are
  read off the phases; the middleware's steps lead from one to the next.
* **mails**. `MailsInv`: the counter in Redis counts the last recorded failures,
  each of which came while the counter of the one before lived (`Counted`), and
  the key of the breaker, when it is there, was set by the last of a burst and
  ends the reset time after it (`SetByBurst`). `CloseOn` and `CountedOn` carry
  this over one more failure, whether it finds the counter alive or gone.
* **cached numbers**. `AnswersAreRecent` needs for each computation under way that
  it began no longer than `MaxCompute` ago (`Recent`), and for each entry that
  its end is that much and one life after its beginning (`Aged`).
* **the other services**. A request past the guards has the user its token names
  (`Guarded`). No address has two newsletter rows (`OneRowEach`), since a
  confirmation writes back the address it read. What an upload has stored at
  the image host and not yet in the row is unknown to every other upload
  (`Unseen`), so none removes it; that a picture which is shown exists is false
  (`PictureExists`, see 6). A probe that has reached its third check has waited at most two
  limits (`Waiting`), so the answer comes within three.
* **the session**. `TimerHolds`: a timer that runs is due before the warning may be
  late, one debounce later if activity put it off. `SessionInv` adds that a page
  with a session shows the dialog or has such a timer, whatever moves it: a
  reload, a new token, a click, a navigation under way; only "Stay Logged In"
  waiting for its answer is excepted.
* **cached bookings**. `CacheInv`: a fetch that was answered holds what the server
  once had, and the page that is shown is genuine as soon as no mutation touches
  it and no fetch runs (`PageHolds`): every mutation ends with a new fetch, so
  what a rollback put back is replaced. The wizard, the lists and the
  preferences have `WizardInv`, `FilterInv` (a cached or fetched answer is that
  of its key), `TypingInv` (the same for the other instance) and `PreferencesInv`
  (`Fresh`: a query at rest shows what it was told last).
* **weeks**. The timeline's proof is arithmetic: `WeekOf` relates the Thursday of
  a day to its week, `YearIsOne` and `YearOfDay` say in which year it falls,
  `WeekNumber` what the quotient of the code yields, for every zone from 12 hours
  behind UTC to 14 ahead of it, every day up to 2099 and whichever of its two
  fields a record has.

`BrowserInv`, `ScreensInv` and `ServicesInv` put the parts together: the first
state picks the one that moves, the others keep their initial state.

Only model-checked:

* liveness, which is out of the prover's reach as `ENABLED` is:
  `EveryEscrowResolves` within `DisputesEnd`, `SessionsEnd`, `QueuesEnd`,
  `CallsEnd`, `KeepsAsking`;
* `WalkExact`, `PricesRight` and `TotalsAddUp` of `Figures`: sums and sorted
  pages of rows, that is, induction over data. The induction theorems of the
  library take an operator as a parameter, which the provers cannot
  instantiate; where a fold is proved about, as the sweep is, the induction is
  stated with sets. The run checks them on every small input.

## 6 Where code and documents part

One run shows a violation: `bookings_race`. `confirm` overwrites a cancellation
that came in while the payment was verified (bookings.service.ts:262); if the
place was taken meanwhile the workspace is over capacity. A series whose
instances overlap each other exceeds it as well, since each instance is compared
with the stored bookings only (79).

The others are properties the modules define beside those the runs check; TLC
finds each violated when it is added to the configuration of the run in the
second column, as `Part!Property` in a definition of the module of that run. Every one
states what the quoted line says. `PROJECT.json` has the quotes.

| Property (module) | Run | What the code does |
|---|---|---|
| `OutcomeFollowsBallots` (PaymentEscrow) | escrow_panel with `ArbitratorLists <- ChangingLists` | all ballots are compared with the arbitrators registered now, Release first (lib.rs:316) |
| `WaitsOutTheWindow` (PaymentEscrow) | escrow_panel | `try_auto_release` pays at `release_time`, within the dispute window (lib.rs:382) |
| `NoDoubleBooking`, `TypesAlwaysRegistered` (WorkspaceBooking) | booking_pending | a cancelled booking is confirmed over a new one (lib.rs:287); a second `initialize` empties the registry of types (88) |
| `OneTimeSetup`, `TimeLockAfterApproval` (AccessControl) | access_governance | anybody may call `initialize` again and take the seat (access_control.rs:100); the time lock runs from the creation of a proposal (219) |
| `RefundOnlyCancelled` (BookingService) | bookings | the update of a confirmation leaves the refund of a cancellation that came after its select (bookings.service.ts:300) |
| `DurationsKept` (Attendance) | attendance | the job closes sessions that were closed in time once more (attendance-auto-complete.service.ts:28) |
| `OtpStateCleared` (Accounts) | accounts | cleared columns are undefined, and skipped |
| `EnabledWasShown` (SecondFactor) | accounts | to enable generates a secret of its own (totp.controller.ts:98) |
| `NothingRenewed` (Sessions; holds) | accounts | a refresh looks up a token where its hash is kept: none succeeds |
| `PublicIsPublic`, `AnswersMatch`, `ReportsForAdmins` (Requests) | services | `CsrfGuard` refuses a public POST without a bearer (csrf.guard.ts:42); one cache key for all ids; a decorator at the class is not read |
| `DeliveryEnds` (WebhookDelivery) | services | a secret that does not decrypt throws before the `try`: the deliveries behind it wait for ever (webhook.service.ts:105) |
| `OneAtATime` (Idempotency) | services | look-up and mark are two calls |
| `WalkComplete`, `SearchComplete`, `ActivityReadable` (Paging) | figures | milliseconds against microseconds; a cursor of the id under another order; a cursor split at a character it contains |
| `TransientRetried`, `EveryKindRenders` (Mail) | services | the wrapped error has no code; a template misses a variable |
| `UnsubscribedStays` (Inbox), `AllWithinAny`, `PictureExists` (Catalog) | services | a late save brings a row back; removed amenities count; an old picture is removed before the row is saved |
| `AnalyticsReadable`, `DaysAskedFor` (Reports) | figures | a date read as a string; the end of a range is moved in the zone of the process (reports.service.ts:70) |
| `OneRatePerHour`, `RulesCoverHours`, `RulesInLocalTime`, `SeriesPaysRules` (Pricing) | figures | an activation is not checked; two updates leave a rule that ends before it starts; hours are of UTC; a series has the plain rate |
| `ReadyInTime` (Health) | services | Redis is asked without a limit |
| `NavigationEnds`, `LogoutRevokes`, `LoggedOutStays`, `CountdownEndsInTime` (BrowserSession) | browser | a loop over an expired cookie; the logout call without its token; a refresh that outlives the logout; a countdown that starts late |
| `ChartShown` (Widgets) | browser | state is set while rendering |
| `TickIsForThis` (BookingWizard) | screens | a confirmation is kept for another selection |
| `SlotIsWhereItStands` (WorkspacePage) | screens | a local date is asked for as a date of UTC, so an hour of another day stands in a column: five hours behind UTC, nine and a half ahead of it, and where the clocks change |
| `BookedAsMeant`, `TypedStays` (WorkspacePage) | screens | a local time is read in the server's zone; a prefill overwrites what is typed |
| `ClearClears`, `OneCharacterIsQuiet` (ListFilters) | screens | an empty change clears nothing; one character asks for the whole list |
| `WeekIsIso`, `LabelNames` (Timeline) | screens | local time and UTC are mixed; a week is gathered by `clockIn` and labelled by `date` |
| `TicksStay`, `ConfirmationStays` (Preferences) | screens | every rendering resets the form; an error hides the confirmation |

Further properties say what one might hope for and no document promises:
`DeletedStays` (Catalog: the save of an old copy brings a deleted workspace
back), `NeverBackwards` (StatsCache: an older answer may follow a newer one),
`StellarGivenUp` (Health: the limit does not cover the reading of the answer),
`OneAtATime` (BookingWizard), `ShowsTheServer` (BookingCache: a page that comes
back joins a fetch that was made before the mutation). TLC finds them violated.

Visible in the models, without a property of their own:

* `initialize` can be repeated in payment_escrow too (lib.rs:38), where `MoneySafe`
  holds all the same.
* Maintenance to Unavailable to Available skips the scheduled return
  (workspace_booking/src/lib.rs:462 against the comment at 459), and
  `batch_confirm` looks at the availability flag, not at the state (325, 324).
* A `critical_threshold` of 1 is accepted (access_control README.md:29), and a
  former admin keeps the role Admin (access_control.rs:373, 354).

## 7 What is not modelled

`PROJECT.json` gives the reason for every component.

* membership_token, hubassist_hub and common_types: single tokens and entries;
  membership_token is the next candidate. manage_hub: the crate does not compile
  as it stands (rewards.rs uses `publish_event` without importing it) and no
  function sets its staking token.
* The stellar client, configuration, migrations, seeds and deployment scripts:
  calls to outside services and one-off steps. The audit log appends one row per
  request; that row is in `Requests`.
* In modelled parts: events and TTLs of the contracts; cryptography and
  signatures, whose outcome is a choice; the lexical rules of passwords, names
  and keywords; wording, formats of export and layout; the pages of the frontend
  that show one query and keep no state.
* Composition of a request with the service behind it: `Requests` has a handler
  that succeeds or fails, the services take a request that has passed its
  guards. `BookingService` takes the price and the instances of a series as
  given; `Pricing` computes them.

## 8 Plan

Done: the modules above, and proofs about every one of them that interleaves; what
`Figures` computes is checked only.

1. Proofs about the sums of `Reports` and `Pricing`, by induction over finite
   sets as the sweep of `BookingService` has it, once the sums are stated over
   sets of units.
2. An abstract specification of a queue with at-least-once delivery that both
   `Outbox` and `WebhookDelivery` implement.
3. `MembershipToken`: stored and computed status, the expiry index.
   `batch_issue_tokens` does not fill the index and `renew_token` takes dates in
   the past, so exactness of the index is the property to ask for.
4. `Idempotency` in front of `BookingService`, and `BookingCache` over it, as
   compositions.
5. `Staking`: rewards checkpoints of manage_hub, once the crate builds.
