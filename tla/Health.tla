------------------------------- MODULE Health -------------------------------
(***************************************************************************)
(* The health probes.  Each asks its dependencies in parallel and answers  *)
(* when the last has been settled: 200 when all are up or not configured,  *)
(* 503 otherwise.  A dependency is asked in stages, each of which succeeds, *)
(* fails or is given up when its own time is over; a stage without a limit *)
(* is waited for without end.                                              *)
(***************************************************************************)
EXTENDS Naturals

CONSTANTS
  ShortLimit,   \* 3 s
  LongLimit,    \* 5 s
  ProbeLimit,   \* timeoutSeconds of the readiness probe, 5 s
  MaxClock      \* bound

HealthAssumption ==
  /\ {ShortLimit, LongLimit, MaxClock} \subseteq Nat
  /\ 0 < ShortLimit /\ ShortLimit < LongLimit /\ LongLimit <= MaxClock

Dependency == {"database", "redis", "stellar_rpc", "smtp", "cloudinary"}
Optional == {"redis", "smtp", "cloudinary"}   \* skipped when not configured

Ready == {"database", "redis"}
Deep == Dependency

VARIABLES
  asked,       \* the dependencies of the probe under way
  configured,  \* those whose settings are there
  stage,       \* of each: the stage it is in, 0 before the first
  since,       \* ticks the stage has taken
  verdict,     \* "asking", "up" or "down"
  open,        \* those with a connection open, or one the client goes on trying to open
  clock        \* ticks since the probe began

vars == <<asked, configured, stage, since, verdict, open, clock>>

Init ==
  /\ asked \in {Ready, Deep}
  /\ configured \in {c \in SUBSET Dependency : Dependency \ Optional \subseteq c}
  /\ stage = [d \in Dependency |-> 0] /\ since = [d \in Dependency |-> 0]
  /\ verdict = [d \in Dependency |-> "asking"] /\ open = {} /\ clock = 0

Stages(d) == CASE d = "redis" -> 3          \* connect, ping, quit
               [] d = "stellar_rpc" -> 2    \* the headers, the body
               [] d = "smtp" -> 3           \* the connection, the greeting, the commands
               [] OTHER -> 1

Unlimited == MaxClock + 1

\* Mutant of Limit: connectTimeout alone.
LimitConnect(d, s) ==
  CASE d = "database" -> ShortLimit
    [] d = "redis" -> IF s = 1 THEN ShortLimit ELSE Unlimited
    [] d = "stellar_rpc" -> IF s = 1 THEN LongLimit ELSE Unlimited
    [] OTHER -> LongLimit

\* The timer of the Stellar check is cleared when the headers are there.
Limit(d, s) ==
  CASE d \in {"database", "redis"} -> ShortLimit
    [] d = "stellar_rpc" -> IF s = 1 THEN LongLimit ELSE Unlimited
    [] OTHER -> LongLimit

Keeps(d) == d \in {"redis", "smtp"}   \* a client of its own, to be closed

Asking(d) == d \in asked /\ verdict[d] = "asking"
Settle(d, v) ==
  /\ verdict' = [verdict EXCEPT ![d] = v]
  /\ stage' = [stage EXCEPT ![d] = 0] /\ since' = [since EXCEPT ![d] = 0]

-----------------------------------------------------------------------------
Skip(d) ==
  /\ Asking(d) /\ d \notin configured
  /\ Settle(d, "up")
  /\ UNCHANGED <<asked, configured, open, clock>>

Begin(d) ==
  /\ Asking(d) /\ d \in configured /\ stage[d] = 0
  /\ stage' = [stage EXCEPT ![d] = 1]
  /\ open' = IF Keeps(d) THEN open \cup {d} ELSE open
  /\ UNCHANGED <<asked, configured, since, verdict, clock>>

\* The stage succeeds; after the last the connection has been quit or is closed.
Succeed(d) ==
  /\ Asking(d) /\ stage[d] \in 1 .. Stages(d)
  /\ IF stage[d] < Stages(d)
     THEN /\ stage' = [stage EXCEPT ![d] = @ + 1] /\ since' = [since EXCEPT ![d] = 0]
          /\ UNCHANGED <<verdict, open>>
     ELSE /\ \/ Settle(d, "up")
             \/ d \in {"redis", "cloudinary"} /\ Settle(d, "down")   \* it answered the wrong thing
          /\ open' = open \ {d}
  /\ UNCHANGED <<asked, configured, clock>>

\* Mutant of AfterFailure: the client is left as it is, and tries to connect again for good.
AfterFailureKept(d) == open

AfterFailure(d) == open \ {d}

\* The stage fails, or its time is over: disconnect, close.
Fail(d) ==
  /\ Asking(d) /\ stage[d] \in 1 .. Stages(d)
  /\ Settle(d, "down")
  /\ open' = AfterFailure(d)
  /\ UNCHANGED <<asked, configured, clock>>

\* No stage outlives its limit.
Tick ==
  /\ clock < MaxClock
  /\ \E d \in asked : Asking(d)
  /\ \A d \in asked : Asking(d) => stage[d] > 0 /\ since[d] < Limit(d, stage[d])
  /\ clock' = clock + 1
  /\ since' = [d \in Dependency |-> IF Asking(d) THEN since[d] + 1 ELSE 0]
  /\ UNCHANGED <<asked, configured, stage, verdict, open>>

Next == Tick \/ \E d \in Dependency : Skip(d) \/ Begin(d) \/ Succeed(d) \/ Fail(d)

Spec == Init /\ [][Next]_vars

Answered == \A d \in asked : verdict[d] # "asking"

TypeOK ==
  /\ asked \in {Ready, Deep} /\ configured \subseteq Dependency /\ open \subseteq Dependency
  /\ stage \in [Dependency -> 0 .. 3] /\ since \in [Dependency -> 0 .. MaxClock]
  /\ verdict \in [Dependency -> {"asking", "up", "down"}] /\ clock \in 0 .. MaxClock

-----------------------------------------------------------------------------
\* health.controller.ts:130: the readiness probe comes every ten seconds.  Whatever hangs,
\* it is answered within the three limits of the longest check, and the next probe finds
\* nothing of this one: no client is left that is connected or goes on connecting.
ProbeEnds ==
  /\ (asked = Ready /\ clock > 3 * ShortLimit) => Answered
  /\ Answered => open = {}

\* health.controller.ts:102 "Each check has a 3-second timeout", :115 "timeoutSeconds: 5":
\* the readiness probe is answered while the one who asked still waits.
ReadyInTime == (asked = Ready /\ clock > ProbeLimit) => Answered

\* stellar.health-indicator.ts:26: the check is given up after five seconds.
StellarGivenUp == (Asking("stellar_rpc") /\ stage["stellar_rpc"] > 0) => clock <= LongLimit
=============================================================================
