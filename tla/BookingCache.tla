---------------------------- MODULE BookingCache ----------------------------
(***************************************************************************)
(* Bookings as one tab of the web client shows them: the cache of the      *)
(* query library with the list and one entry per booking, the optimistic   *)
(* mutations that confirm and cancel, and the refetches they set off.      *)
(* A mutation shows its outcome before it has one, remembers what it       *)
(* overwrote, and puts that back when it fails.  A fetch is retried until   *)
(* it succeeds: a page whose fetch has failed shows no booking at all.      *)
(***************************************************************************)
EXTENDS Integers, FiniteSets

CONSTANTS
  Booking,
  Mutation,     \* the mutations of a run, each made once: a bound
  List,         \* the key of the list, and the page that shows it
  Nothing       \* no data, and no booking

BookingCacheAssumption == List \notin Booking /\ Nothing \notin Booking \cup {List}

VARIABLES
  server,       \* the status the server keeps
  was,          \* the statuses a booking has had on the server
  page,         \* the query that is observed
  data,         \* per key, what the cache holds
  fetch,        \* per key, the fetch under way
  mutation

vars == <<server, was, page, data, fetch, mutation>>

Key == {List} \cup Booking
Covers(k) == IF k = List THEN Booking ELSE {k}
Status == {"pending", "confirmed", "cancelled"}
Show(k) == [b \in Covers(k) |-> server[b]]
Idle == [at |-> "idle", answer |-> Nothing]
Asked == [at |-> "asked", answer |-> Nothing]
Free == [booking |-> Nothing, to |-> "none", at |-> "free", here |-> FALSE,
         list |-> Nothing, detail |-> Nothing]
Over == [Free EXCEPT !.at = "over"]
UnderWay(m) == mutation[m].at \notin {"free", "over"}

Init ==
  /\ server = [b \in Booking |-> "pending"] /\ was = [b \in Booking |-> {"pending"}]
  /\ page = List
  /\ data = [k \in Key |-> Nothing] /\ fetch = [[k \in Key |-> Idle] EXCEPT ![List] = Asked]
  /\ mutation = [m \in Mutation |-> Free]

-----------------------------------------------------------------------------
(* Queries *)

\* A page is opened.  It joins a fetch that is under way, or starts one.  The
\* components of the page that is left are gone, the mutations go on.
Visit(k) ==
  /\ k # page
  /\ page' = k
  /\ fetch' = [fetch EXCEPT ![k] = IF fetch[k].at = "idle" THEN Asked ELSE fetch[k]]
  /\ mutation' = [m \in Mutation |-> [mutation[m] EXCEPT !.here = FALSE]]
  /\ UNCHANGED <<server, was, data>>

ServerReads(k) ==
  /\ fetch[k].at = "asked"
  /\ fetch' = [fetch EXCEPT ![k] = [at |-> "answered", answer |-> Show(k)]]
  /\ UNCHANGED <<server, was, page, data, mutation>>

FetchArrives(k) ==
  /\ fetch[k].at = "answered"
  /\ data' = [data EXCEPT ![k] = fetch[k].answer]
  /\ fetch' = [fetch EXCEPT ![k] = Idle]
  /\ UNCHANGED <<server, was, page, mutation>>

-----------------------------------------------------------------------------
(* Mutations: useConfirmBooking and useCancelBooking *)

\* What BookingActions offers for the status that is shown.
Offered(status) == CASE status = "pending" -> {"confirmed", "cancelled"}
                     [] status = "confirmed" -> {"cancelled"}
                     [] OTHER -> {}

Overwritten(k, b, to) == IF data[k] = Nothing THEN Nothing ELSE [data[k] EXCEPT ![b] = to]

\* onMutate: stop the fetches of both entries, remember them, and show the outcome.
Mutate(m, b, to) ==
  /\ mutation[m].at = "free"
  /\ page = b /\ data[b] # Nothing
  /\ to \in Offered(data[b][b])
  /\ ~\E n \in Mutation : mutation[n].here
  /\ fetch' = [fetch EXCEPT ![List] = Idle, ![b] = Idle]
  /\ mutation' = [mutation EXCEPT ![m] = [booking |-> b, to |-> to, at |-> "sent", here |-> TRUE,
                                          list |-> data[List], detail |-> data[b]]]
  /\ data' = [data EXCEPT ![List] = Overwritten(List, b, to), ![b] = Overwritten(b, b, to)]
  /\ UNCHANGED <<server, was, page>>

\* The server confirms a pending booking only, and cancels any.
ServerActs(m) ==
  LET b == mutation[m].booking
  IN /\ mutation[m].at = "sent"
     /\ IF mutation[m].to = "confirmed" /\ server[b] # "pending"
        THEN mutation' = [mutation EXCEPT ![m].at = "refused"] /\ UNCHANGED <<server, was>>
        ELSE /\ server' = [server EXCEPT ![b] = mutation[m].to]
             /\ was' = [was EXCEPT ![b] = @ \cup {mutation[m].to}]
             /\ mutation' = [mutation EXCEPT ![m].at = "done"]
     /\ UNCHANGED <<page, data, fetch>>

\* Mutant of Settled: what was overwritten is thought to be up to date.
SettledAlone(b) == fetch

\* onSettled: the entries are invalidated, and fetched anew if they are observed.
Settled(b) == [fetch EXCEPT ![page] = IF page \in {List, b} THEN Asked ELSE fetch[page]]

Succeed(m) ==
  /\ mutation[m].at = "done"
  /\ fetch' = Settled(mutation[m].booking)
  /\ mutation' = [mutation EXCEPT ![m] = Over]
  /\ UNCHANGED <<server, was, page, data>>

PutBack(k, snapshot) == IF snapshot = Nothing THEN data[k] ELSE snapshot

\* onError: refused, never sent, or done with the answer lost.
Fail(m) ==
  LET b == mutation[m].booking
  IN /\ UnderWay(m)
     /\ data' = [data EXCEPT ![List] = PutBack(List, mutation[m].list),
                             ![b] = PutBack(b, mutation[m].detail)]
     /\ fetch' = Settled(b)
     /\ mutation' = [mutation EXCEPT ![m] = Over]
     /\ UNCHANGED <<server, was, page>>

-----------------------------------------------------------------------------
Next ==
  \/ \E k \in Key : Visit(k) \/ ServerReads(k) \/ FetchArrives(k)
  \/ \E m \in Mutation :
       \/ \E b \in Booking, to \in {"confirmed", "cancelled"} : Mutate(m, b, to)
       \/ ServerActs(m) \/ Succeed(m) \/ Fail(m)

Spec == Init /\ [][Next]_vars

TypeOK ==
  /\ server \in [Booking -> Status] /\ was \in [Booking -> SUBSET Status]
  /\ page \in Key
  /\ \A k \in Key : /\ data[k] = Nothing \/ data[k] \in [Covers(k) -> Status]
                    /\ fetch[k].at \in {"idle", "asked", "answered"}
  /\ \A m \in Mutation : mutation[m].booking \in Booking \cup {Nothing}

-----------------------------------------------------------------------------
Quiet ==
  /\ ~\E m \in Mutation : UnderWay(m)
  /\ fetch[page].at = "idle" /\ data[page] # Nothing

\* useCancelBooking, useConfirmBooking: once all is settled a page shows nothing that
\* was never so, whatever mutations overlapped, failed and put back each other's guesses.
NothingInvented == Quiet => \A b \in DOMAIN data[page] : data[page][b] \in was[b]

\* useCancelBooking.ts:39: what a mutation settled is fetched anew.  Once all is settled
\* a page shows what the server keeps.
ShowsTheServer == Quiet => \A b \in DOMAIN data[page] : data[page][b] = server[b]
=============================================================================
