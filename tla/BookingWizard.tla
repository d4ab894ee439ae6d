---------------------------- MODULE BookingWizard ----------------------------
(***************************************************************************)
(* The four pages that make a booking, over a store kept in the session of *)
(* the tab.  Each page checks on arrival what it needs and turns back when *)
(* it is missing.  A booking is asked for by the third page; its answer    *)
(* may come when the user is anywhere else.                                *)
(***************************************************************************)
EXTENDS Integers, FiniteSets

CONSTANTS
  Workspace, Nothing,   \* Nothing: none chosen yet
  Time,                 \* the moments one can type; a slot is a pair of them
  MaxPost               \* bound: bookings asked for

BookingWizardAssumption ==
  /\ Nothing \notin Workspace /\ Time \subseteq Nat /\ 0 \notin Time /\ MaxPost \in Nat

VARIABLES
  store,      \* useBookingWizardStore
  page,       \* the step whose page is shown
  arriving,   \* its effect has not run yet
  post,       \* the requests, in order: what was asked, and whether it is answered
  mine        \* the request of this visit of the third page, whose button waits for it

vars == <<store, page, arriving, post, mine>>

Blank == 0
EmptySlot == [start |-> Blank, end |-> Blank]
initialState ==
  [currentStep |-> 1, workspaceId |-> Nothing, timeSlot |-> EmptySlot,
   confirmed |-> FALSE, lastBookingId |-> 0]

Init ==
  /\ store = initialState /\ page = 1 /\ arriving = FALSE
  /\ post = [i \in {} |-> 0] /\ mine = 0

Step == 1 .. 4

isValidTimeRange(slot) == slot.start # Blank /\ slot.end # Blank /\ slot.end > slot.start

canAdvance(step) ==
  CASE step = 1 -> store.workspaceId # Nothing
    [] step = 2 -> isValidTimeRange(store.timeSlot)
    [] step = 3 -> store.confirmed
    [] OTHER    -> FALSE

nextStep == IF canAdvance(store.currentStep) THEN [store EXCEPT !.currentStep = @ + 1] ELSE store
prevStep == IF store.currentStep > 1 THEN [store EXCEPT !.currentStep = @ - 1] ELSE store

\* A page is left for another: its component is gone, the request it sent is not.
Open(p) == page' = p /\ arriving' = TRUE /\ mine' = 0

-----------------------------------------------------------------------------
(* Arriving on a page *)

\* Mutant of Needed: the third page asks for a workspace only.
NeededLess(p) ==
  CASE p = 2 \/ p = 3 -> IF canAdvance(1) THEN p ELSE 1
    [] p = 4 -> IF store.lastBookingId = 0 THEN 1 ELSE p
    [] OTHER -> p

\* The page to go to instead, or p.
Needed(p) ==
  CASE p = 2 -> IF canAdvance(1) THEN p ELSE 1
    [] p = 3 -> IF ~canAdvance(1) THEN 1 ELSE IF ~canAdvance(2) THEN 2 ELSE p
    [] p = 4 -> IF store.lastBookingId = 0 THEN 1 ELSE p
    [] OTHER -> p

Arrive ==
  /\ arriving
  /\ IF Needed(page) = page
     THEN /\ store' = [store EXCEPT !.currentStep = page]
          /\ arriving' = FALSE
          /\ UNCHANGED <<page, mine>>
     ELSE Open(Needed(page)) /\ UNCHANGED store
  /\ UNCHANGED post

\* The history is used.
GoTo(p) == Open(p) /\ UNCHANGED <<store, post>>

\* The address is typed or the page reloaded: sessionStorage stays, nobody waits for an
\* answer any more.
Load(p) ==
  /\ Open(p)
  /\ post' = [i \in DOMAIN post |-> [post[i] EXCEPT !.answered = TRUE]]
  /\ UNCHANGED store

\* The bar of steps.
StepClick(p) ==
  /\ p < store.currentStep
  /\ store' = [store EXCEPT !.currentStep = p]
  /\ Open(p)
  /\ UNCHANGED post

-----------------------------------------------------------------------------
(* What the pages do *)

Shown(p) == page = p /\ ~arriving

SetWorkspaceId(w) ==
  /\ Shown(1)
  /\ store' = [store EXCEPT !.workspaceId = w]
  /\ UNCHANGED <<page, arriving, post, mine>>

SetTimeSlot(slot) ==
  /\ Shown(2) /\ slot # store.timeSlot
  /\ store' = [store EXCEPT !.timeSlot = slot]
  /\ UNCHANGED <<page, arriving, post, mine>>

SetPaymentDetails ==
  /\ Shown(3)
  /\ store' = [store EXCEPT !.confirmed = ~@]
  /\ UNCHANGED <<page, arriving, post, mine>>

NextPage ==
  /\ page \in {1, 2} /\ Shown(page) /\ canAdvance(page)
  /\ store' = nextStep
  /\ Open(page + 1)
  /\ UNCHANGED post

Back ==
  /\ page \in {2, 3} /\ Shown(page)
  /\ store' = prevStep
  /\ Open(page - 1)
  /\ UNCHANGED post

\* handleConfirm, up to its await.
Confirm ==
  /\ Shown(3) /\ store.confirmed /\ mine = 0
  /\ store.workspaceId # Nothing
  /\ Cardinality(DOMAIN post) < MaxPost
  /\ LET i == Cardinality(DOMAIN post) + 1
     IN /\ post' = [j \in 1 .. i |->
                      IF j < i THEN post[j]
                      ELSE [workspace |-> store.workspaceId, slot |-> store.timeSlot, answered |-> FALSE]]
        /\ mine' = i
  /\ UNCHANGED <<store, page, arriving>>

\* The booking was made: completeBooking, and the router opens the last page, wherever
\* the user is by now.
Booked(i) ==
  /\ ~post[i].answered
  /\ post' = [post EXCEPT ![i].answered = TRUE]
  /\ store' = [store EXCEPT !.lastBookingId = i, !.currentStep = 4]
  /\ Open(4)

\* It was not, or the answer could not be read.
NotBooked(i) ==
  /\ ~post[i].answered
  /\ post' = [post EXCEPT ![i].answered = TRUE]
  /\ mine' = IF mine = i THEN 0 ELSE mine
  /\ UNCHANGED <<store, page, arriving>>

BookAnother ==
  /\ Shown(4)
  /\ store' = initialState
  /\ Open(1)
  /\ UNCHANGED post

-----------------------------------------------------------------------------
Next ==
  \/ Arrive \/ \E p \in Step : GoTo(p) \/ Load(p) \/ StepClick(p)
  \/ \E w \in Workspace : SetWorkspaceId(w)
  \/ \E a, b \in Time \cup {Blank} : SetTimeSlot([start |-> a, end |-> b])
  \/ SetPaymentDetails \/ NextPage \/ Back \/ Confirm \/ BookAnother
  \/ \E i \in DOMAIN post : Booked(i) \/ NotBooked(i)

Spec == Init /\ [][Next]_vars

TypeOK ==
  /\ store.currentStep \in Step /\ store.workspaceId \in Workspace \cup {Nothing}
  /\ store.lastBookingId \in {0} \cup DOMAIN post
  /\ page \in Step /\ arriving \in BOOLEAN /\ mine \in {0} \cup DOMAIN post

-----------------------------------------------------------------------------
\* step-3/page.tsx: nothing is asked for without a workspace and a slot that ends after
\* it starts, though handleConfirm itself only looks whether there is a slot.
AskedForIsValid ==
  \A i \in DOMAIN post : post[i].workspace # Nothing /\ isValidTimeRange(post[i].slot)

\* Step3Review.tsx:70 "I confirm payment of $": what was confirmed is what is asked for.
\* The tick is not there when the workspace or the slot has changed since.
TickIsForThis ==
  [][(store.confirmed /\ store'.confirmed) =>
       <<store'.workspaceId, store'.timeSlot>> = <<store.workspaceId, store.timeSlot>>]_vars

\* Step3Review.tsx:79: the button waits for the answer.  No two requests for one slot are
\* under way at once.
OneAtATime ==
  \A i, j \in DOMAIN post :
    (i # j /\ ~post[i].answered /\ ~post[j].answered) =>
      <<post[i].workspace, post[i].slot>> # <<post[j].workspace, post[j].slot>>
=============================================================================
