----------------------------- MODULE Idempotency -----------------------------
(***************************************************************************)
(* common/middlewares/idempotency.middleware.ts: requests of one user with *)
(* one X-Idempotency-Key each, and the entries idempotency:<user>:<key> in *)
(* the cache.  Each access to the cache is a step of its own; those that   *)
(* are not awaited are under way until they happen, or are lost.           *)
(***************************************************************************)
EXTENDS Integers, FiniteSets

CONSTANTS Request, Key

VARIABLES
    entry,              \* the cache: per key nothing, the sentinel, or a stored answer
    request,            \* where each request is, and its key
    late,               \* writes to the cache that are under way
    ran,                \* history: requests whose handler succeeded
    raced               \* history: keys for which two requests saw an empty entry at once

vars == <<entry, request, late, ran, raced>>

Nothing == "nothing"
InFlight == "in flight"
Stored == "stored"

Init ==
    /\ entry = [k \in Key |-> Nothing]
    /\ request = [r \in Request |-> [at |-> "idle"]]
    /\ late = {} /\ ran = {} /\ raced = {}

At(r, at) == request[r].at = at
Go(r, at) == request' = [request EXCEPT ![r].at = at]
KeyOf(r) == request[r].key

\* Requests past the check, whose handler has not answered.
Running(k) == {r \in Request : request[r].at \in {"mark", "handler"} /\ KeyOf(r) = k}

\* Mutant of Conflicts: only a stored answer stops a request.
ConflictsNever(k) == FALSE

Conflicts(k) == entry[k] = InFlight

\* use up to the first access: 409 for the sentinel, the stored answer, or on.
Check(r, k) ==
    /\ At(r, "idle")
    /\ request' = [request EXCEPT ![r] =
          [at |-> IF Conflicts(k) \/ entry[k] = Stored THEN "answered" ELSE "mark", key |-> k]]
    /\ raced' = IF request'[r].at = "mark" /\ entry[k] = Nothing /\ Running(k) # {}
                THEN raced \cup {k} ELSE raced
    /\ UNCHANGED <<entry, late, ran>>

\* The sentinel is set, whatever the entry is by now.
Mark(r) ==
    /\ At(r, "mark")
    /\ entry' = [entry EXCEPT ![KeyOf(r)] = InFlight]
    /\ Go(r, "handler")
    /\ UNCHANGED <<late, ran, raced>>

\* Mutant of WriteFor: the sentinel of a request that failed stays.
WriteForKept(ok) == IF ok THEN Stored ELSE InFlight

\* What is written when the answer is sent: the answer if it is a success, else the entry
\* is deleted.
WriteFor(ok) == IF ok THEN Stored ELSE Nothing

\* Guards and handler are done, and res.json starts the write before it answers.
Respond(r, ok) ==
    /\ At(r, "handler")
    /\ late' = late \cup {[key |-> KeyOf(r), by |-> r, value |-> WriteFor(ok)]}
    /\ ran' = IF ok THEN ran \cup {r} ELSE ran
    /\ Go(r, "answered")
    /\ UNCHANGED <<entry, raced>>

LateWrite(w) ==
    /\ w \in late /\ late' = late \ {w}
    /\ entry' = [entry EXCEPT ![w.key] = w.value]
    /\ UNCHANGED <<request, ran, raced>>

\* The cache fails: nothing is written.
WriteLost(w) ==
    /\ w \in late /\ late' = late \ {w}
    /\ raced' = raced \cup {w.key}
    /\ UNCHANGED <<entry, request, ran>>

\* Five minutes after it was set.
Expire(k) ==
    /\ entry[k] # Nothing
    /\ entry' = [entry EXCEPT ![k] = Nothing]
    /\ raced' = raced \cup {k}
    /\ UNCHANGED <<request, late, ran>>

Next ==
    \/ \E k \in Key : Expire(k)
    \/ \E w \in late : LateWrite(w) \/ WriteLost(w)
    \/ \E r \in Request :
          \/ \E k \in Key : Check(r, k)
          \/ Mark(r)
          \/ \E ok \in BOOLEAN : Respond(r, ok)

Spec == Init /\ [][Next]_vars

-----------------------------------------------------------------------------
(* Properties *)

TypeOK ==
    /\ entry \in [Key -> {Nothing, InFlight, Stored}]
    /\ \A r \in Request : request[r].at \in {"idle", "mark", "handler", "answered"}
    /\ late \subseteq [key : Key, by : Request, value : {Nothing, Stored}]
    /\ ran \subseteq Request /\ raced \subseteq Key

\* A key runs its handler to success once, unless two requests read the empty entry before
\* either had marked it, or the entry expired or was never written.
RunsOnce == \A k \in Key \ raced : Cardinality({r \in ran : KeyOf(r) = k}) <= 1

\* idempotency.middleware.ts:68 "A concurrent request with the same key is already being
\* processed": two requests of one key never run at the same time.
OneAtATime == \A k \in Key : Cardinality(Running(k)) <= 1

\* The sentinel is not left behind: once nobody runs with the key and its last write got
\* through, a retry is not refused any more.
SentinelGoes ==
    \A k \in Key \ raced :
        entry[k] = InFlight => Running(k) # {} \/ \E w \in late : w.key = k
=============================================================================
