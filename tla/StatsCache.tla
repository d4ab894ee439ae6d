----------------------------- MODULE StatsCache -----------------------------
(***************************************************************************)
(* The two caches in front of the statistics: the one of the dashboard     *)
(* routes, whose keys a created booking removes, and the map of the        *)
(* analytics controller, whose entries only expire.  An answer is computed *)
(* from the tables of one moment and stored when the computation ends;     *)
(* several requests may compute at once.                                   *)
(***************************************************************************)
EXTENDS Naturals

CONSTANTS
  Request,     \* requests under way at once
  Life,        \* how long an entry is good for
  MaxCompute,  \* bound: the longest computation
  MaxClock     \* bound

StatsCacheAssumption == {Life, MaxCompute, MaxClock} \subseteq Nat

VARIABLES
  clock,
  entry,      \* per cache: the moment its data was computed at, and until when it is good
  request,    \* per request: the cache, and when its data was computed
  served      \* per cache: the moment the data of the last answer was computed at

vars == <<clock, entry, request, served>>

Caches == {"dashboard", "analytics"}
Idle == [cache |-> "none", at |-> 0]
Empty == [at |-> 0, until |-> 0]

Init ==
  /\ clock = 0
  /\ entry = [c \in Caches |-> Empty]
  /\ request = [r \in Request |-> Idle]
  /\ served = [c \in Caches |-> 0]

Hit(c) == entry[c].until > clock

Serve(c) ==
  /\ Hit(c)
  /\ served' = [served EXCEPT ![c] = entry[c].at]
  /\ UNCHANGED <<clock, entry, request>>

(* A miss computes the answer from the tables as they are now *)
Compute(r, c) ==
  /\ request[r] = Idle /\ ~Hit(c)
  /\ request' = [request EXCEPT ![r] = [cache |-> c, at |-> clock]]
  /\ UNCHANGED <<clock, entry, served>>

(* The answer is stored and served, whatever the cache holds by now; its   *)
(* life begins when it is stored.                                          *)
GoodUntilForever(at) == MaxClock + 1
GoodUntil(at) == clock + Life

Store(r) ==
  /\ request[r] /= Idle
  /\ LET c == request[r].cache IN
     /\ entry' = [entry EXCEPT ![c] = [at |-> request[r].at, until |-> GoodUntil(request[r].at)]]
     /\ served' = [served EXCEPT ![c] = request[r].at]
  /\ request' = [request EXCEPT ![r] = Idle]
  /\ UNCHANGED clock

(* A booking was created, or an admin asked: the keys of the dashboard go; *)
(* a computation under way still stores what it read before.               *)
InvalidateDashboardCache ==
  /\ entry' = [entry EXCEPT !["dashboard"] = Empty]
  /\ UNCHANGED <<clock, request, served>>

Tick ==
  /\ clock < MaxClock
  /\ \A r \in Request : request[r] /= Idle => clock < request[r].at + MaxCompute
  /\ clock' = clock + 1
  /\ UNCHANGED <<entry, request, served>>

Next ==
  \/ \E c \in Caches : Serve(c)
  \/ \E r \in Request : (\E c \in Caches : Compute(r, c)) \/ Store(r)
  \/ InvalidateDashboardCache
  \/ Tick

Spec == Init /\ [][Next]_vars

-----------------------------------------------------------------------------
(* Type correctness of the entries *)
TypeOK ==
  /\ clock \in 0..MaxClock
  /\ \A c \in Caches : entry[c].at \in 0..clock /\ served[c] \in 0..clock

(* However computations overlap each other, expiries and invalidations, an *)
(* answer that is still given was computed no longer ago than the life of  *)
(* an entry and one computation.                                           *)
StaleBounded == \A c \in Caches : Hit(c) => clock < entry[c].at + MaxCompute + Life

(* Called when bookings are created: an answer computed before the keys    *)
(* were removed is not given afterwards; two answers in a row never go     *)
(* back in time.                                                           *)
NeverBackwards == [][\A c \in Caches : served'[c] >= served[c]]_vars
=============================================================================
