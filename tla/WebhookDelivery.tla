-------------------------- MODULE WebhookDelivery --------------------------
(***************************************************************************)
(* backend/src/webhooks: the queue of callbacks and the workers that post  *)
(* them, one per process of the backend.  Rows that are due stand in a     *)
(* line ordered by nextRetryAt; a row whose time comes joins at the end,   *)
(* one that is written with another time or as ended leaves it.            *)
(***************************************************************************)
EXTENDS Integers, SequencesExt

CONSTANTS
    Delivery,
    Undecryptable,      \* deliveries of subscriptions whose secret no longer decrypts
    Poster,
    MaxAttempts,        \* MAX_WEBHOOK_ATTEMPTS
    Limit,              \* rows of a batch
    MaxCrashes          \* bound: batches given up for an error or a crash so far

DeliveryAssumption == Undecryptable \subseteq Delivery
NumbersAssumption == {MaxAttempts, Limit} \subseteq Nat \ {0} /\ MaxCrashes \in Nat

VARIABLES
    delivery,           \* the rows of webhook_deliveries
    line,               \* the rows to be delivered that are due
    poster,             \* what each worker is doing, and the rest of its batch
    breaks,             \* bound: batches given up so far
    accepted, tried,    \* history: deliveries answered 2xx, failed attempts (up to MaxAttempts)
    raced               \* history: deliveries in the hands of two workers at once

vars == <<delivery, line, poster, breaks, accepted, tried, raced>>

Absent == [status |-> "ABSENT", attempts |-> 0]
Ready == {"PENDING", "FAILED"}
Ended == {"DELIVERED", "DEAD"}
DeliveryRow == [status : Ready \cup Ended, attempts : 0 .. MaxAttempts]
Copy == [id : Delivery, attempts : Nat]
Resting == [at |-> "idle", batch |-> <<>>]

TypeOK ==
    /\ delivery \in [Delivery -> DeliveryRow \cup {Absent}]
    /\ line \in Seq(Delivery)
    /\ \A i, j \in DOMAIN line : line[i] = line[j] => i = j
    /\ \A i \in DOMAIN line : delivery[line[i]].status \in {"PENDING", "FAILED"}
    /\ poster \in [Poster -> [at : {"idle", "deliver", "record", "retry"}, batch : Seq(Copy)]]
    /\ \A p \in Poster : poster[p].at = "idle" <=> poster[p].batch = <<>>
    /\ breaks \in 0 .. MaxCrashes
    /\ tried \in [Delivery -> 0 .. MaxAttempts]
    /\ accepted \cup raced \subseteq Delivery

Init ==
    /\ delivery = [d \in Delivery |-> Absent]
    /\ line = <<>>
    /\ poster = [p \in Poster |-> Resting]
    /\ breaks = 0
    /\ accepted = {}
    /\ tried = [d \in Delivery |-> 0]
    /\ raced = {}

Status(d) == delivery[d].status
InLine(d) == \E i \in DOMAIN line : line[i] = d
Leave(d) == line' = IF InLine(d) THEN RemoveAt(line, CHOOSE i \in DOMAIN line : line[i] = d) ELSE line

-----------------------------------------------------------------------------
(* Operations *)

\* enqueue, for one active subscription: due at once.
Enqueue(d) ==
    /\ delivery[d] = Absent
    /\ delivery' = [delivery EXCEPT ![d] = [status |-> "PENDING", attempts |-> 0]]
    /\ line' = Append(line, d)
    /\ UNCHANGED <<poster, breaks, accepted, tried, raced>>

\* Mutant of DeliveryDue: a delivery that failed once is not taken up again.
DeliveryDueOnce(d) ==
    /\ Status(d) = "PENDING"
    /\ ~InLine(d)
    /\ line' = Append(line, d)
    /\ UNCHANGED <<delivery, poster, breaks, accepted, tried, raced>>

\* nextRetryAt is reached.
DeliveryDue(d) ==
    /\ Status(d) \in Ready
    /\ ~InLine(d)
    /\ line' = Append(line, d)
    /\ UNCHANGED <<delivery, poster, breaks, accepted, tried, raced>>

CopyOf(d) == [id |-> d, attempts |-> delivery[d].attempts]
Held(p) == {poster[p].batch[k].id : k \in DOMAIN poster[p].batch}

\* The query of processReady: the first of the line.  Its locks are gone when the
\* first post goes out.
PollDeliveries(p) ==
    LET size == IF Limit < Len(line) THEN Limit ELSE Len(line)
    IN  /\ poster[p].at = "idle"
        /\ line # <<>>
        /\ poster' = [poster EXCEPT ![p] =
                         [at |-> "deliver", batch |-> [k \in 1 .. size |-> CopyOf(line[k])]]]
        /\ raced' = raced \cup {d \in Delivery : /\ \E k \in 1 .. size : line[k] = d
                                                 /\ \E q \in Poster \ {p} : d \in Held(q)}
        /\ UNCHANGED <<delivery, line, breaks, accepted, tried>>

Current(p) == Head(poster[p].batch)
Proceed(p, at) == poster' = [poster EXCEPT ![p].at = at]
NextOf(p) ==
    LET rest == Tail(poster[p].batch)
    IN  poster' = [poster EXCEPT ![p] = [at |-> IF rest = <<>> THEN "idle" ELSE "deliver",
                                         batch |-> rest]]

\* axios.post: the subscriber answers 2xx; it answers 2xx after the timeout; it
\* answers something else or nothing.
Deliver(p) ==
    /\ poster[p].at = "deliver"
    /\ Current(p).id \notin Undecryptable
    /\ \/ /\ \E at \in {"record", "retry"} : Proceed(p, at)
          /\ accepted' = accepted \cup {Current(p).id}
       \/ /\ Proceed(p, "retry")
          /\ UNCHANGED accepted
    /\ UNCHANGED <<delivery, line, breaks, tried, raced>>

\* decryptSecret throws before the try: nothing is recorded, the batch ends here.
DecryptFails(p) ==
    /\ poster[p].at = "deliver"
    /\ Current(p).id \in Undecryptable
    /\ poster' = [poster EXCEPT ![p] = Resting]
    /\ UNCHANGED <<delivery, line, breaks, accepted, tried, raced>>

Record(p) ==
    /\ poster[p].at = "record"
    /\ LET copy == Current(p)
       IN  /\ delivery' = [delivery EXCEPT ![copy.id] =
                              [status |-> "DELIVERED", attempts |-> copy.attempts + 1]]
           /\ Leave(copy.id)
    /\ NextOf(p)
    /\ UNCHANGED <<breaks, accepted, tried, raced>>

\* The update fails, inside the try: the delivery counts as failed.
RecordFails(p) ==
    /\ poster[p].at = "record"
    /\ Proceed(p, "retry")
    /\ UNCHANGED <<delivery, line, breaks, accepted, tried, raced>>

IsDeadLetter(attempts, max) == attempts >= max

\* markForRetry
MarkForRetry(p) ==
    /\ poster[p].at = "retry"
    /\ LET copy == Current(p)
           attempts == copy.attempts + 1
       IN  /\ delivery' = [delivery EXCEPT ![copy.id] =
                              [status |-> IF IsDeadLetter(attempts, MaxAttempts) THEN "DEAD" ELSE "FAILED",
                               attempts |-> attempts]]
           /\ Leave(copy.id)
           /\ tried' = [tried EXCEPT ![copy.id] = IF @ < MaxAttempts THEN @ + 1 ELSE @]
    /\ NextOf(p)
    /\ UNCHANGED <<breaks, accepted, raced>>

\* A crash, or an update that fails in the catch.
DropDeliveries(p) ==
    /\ poster[p].at # "idle"
    /\ breaks < MaxCrashes
    /\ breaks' = breaks + 1
    /\ poster' = [poster EXCEPT ![p] = Resting]
    /\ UNCHANGED <<delivery, line, accepted, tried, raced>>

PosterStep(p) == \/ PollDeliveries(p) \/ Deliver(p) \/ DecryptFails(p)
                 \/ Record(p) \/ RecordFails(p) \/ MarkForRetry(p)

Next ==
    \/ \E d \in Delivery : Enqueue(d) \/ DeliveryDue(d)
    \/ \E p \in Poster : PosterStep(p) \/ DropDeliveries(p)

Spec == Init /\ [][Next]_vars

\* As for the outbox: time goes on, and so does the cron job of every process.
Working ==
    /\ \A d \in Delivery : WF_vars(DeliveryDue(d))
    /\ \A p \in Poster : WF_vars(PosterStep(p))

LiveSpec == Spec /\ Working

-----------------------------------------------------------------------------
(* Properties *)

\* A callback counts as delivered only after the subscriber accepted it, and as dead
\* only after MaxAttempts attempts failed, with any number of workers and failures.
Truthful ==
    \A d \in Delivery : /\ Status(d) = "DELIVERED" => d \in accepted
                        /\ Status(d) = "DEAD" => tried[d] = MaxAttempts

\* A delivery that ended stays as it is, unless two workers had it at once.
Final ==
    [][\A d \in Delivery : Status(d) \in Ended /\ d \notin raced
          => delivery'[d].status = Status(d)]_vars

\* docs/webhook-delivery-lifecycle.md:19: what cannot be delivered is "dead after 8
\* attempts", so every delivery whose own secret is in order ends.
DeliveryEnds ==
    \A d \in Delivery \ Undecryptable : Status(d) \in Ready ~> Status(d) \in Ended

\* Every delivery ends, crashes and racing workers notwithstanding, as long as no
\* delivery whose secret does not decrypt is waiting.
DeliveryEndsUnblocked ==
    \A d \in Delivery :
        Status(d) \in Ready ~>
            Status(d) \in Ended \/ \E x \in Undecryptable : Status(x) \in Ready
=============================================================================
