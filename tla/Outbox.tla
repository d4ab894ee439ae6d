------------------------------- MODULE Outbox -------------------------------
(***************************************************************************)
(* backend/src/outbox: the table of events and the workers that publish    *)
(* them, one per process of the backend (waitForCompletion keeps the runs  *)
(* of one process apart).  A worker reads a batch in a transaction of its  *)
(* own, so the row locks are gone before it publishes: what it goes by is  *)
(* a copy.                                                                 *)
(***************************************************************************)
EXTENDS Integers, FiniteSets, Sequences

CONSTANTS
    Event,              \* numbers, in the order of createdAt
    Worker,
    MaxAttempts,        \* MAX_OUTBOX_ATTEMPTS
    Limit,              \* rows of a batch
    MaxCrashes          \* bound: batches given up so far

EventAssumption == Event \subseteq Nat /\ IsFiniteSet(Event)
NumbersAssumption == {MaxAttempts, Limit} \subseteq Nat \ {0} /\ MaxCrashes \in Nat

VARIABLES
    event,              \* the rows of outbox_events
    worker,             \* what each worker is doing, and the rest of its batch
    crashes,
    published, failed,  \* history: events published, attempts that failed (up to MaxAttempts)
    shared              \* history: events in the hands of two workers at once

vars == <<event, worker, crashes, published, failed, shared>>

Absent == [status |-> "ABSENT", retryCount |-> 0, due |-> FALSE]
EventRow == [status : {"PENDING", "SENT", "FAILED"}, retryCount : 0 .. MaxAttempts, due : BOOLEAN]
Copy == [id : Event, retryCount : Nat, due : BOOLEAN]
Resting == [at |-> "idle", batch |-> <<>>]

TypeOK ==
    /\ event \in [Event -> EventRow \cup {Absent}]
    /\ worker \in [Worker -> [at : {"idle", "publish", "save", "fail"}, batch : Seq(Copy)]]
    /\ \A w \in Worker : worker[w].at = "idle" <=> worker[w].batch = <<>>
    /\ crashes \in 0 .. MaxCrashes
    /\ failed \in [Event -> 0 .. MaxAttempts]
    /\ published \cup shared \subseteq Event

Init ==
    /\ event = [e \in Event |-> Absent]
    /\ worker = [w \in Worker |-> Resting]
    /\ crashes = 0
    /\ published = {}
    /\ failed = [e \in Event |-> 0]
    /\ shared = {}

-----------------------------------------------------------------------------
(* Operations *)

\* OutboxService.create, inside the transaction of a booking.
CreateEvent(e) ==
    /\ event[e] = Absent
    /\ event' = [event EXCEPT ![e] = [status |-> "PENDING", retryCount |-> 0, due |-> TRUE]]
    /\ UNCHANGED <<worker, crashes, published, failed, shared>>

\* nextRetryAt is reached.
EventDue(e) ==
    /\ event[e].status = "PENDING"
    /\ ~event[e].due
    /\ event' = [event EXCEPT ![e].due = TRUE]
    /\ UNCHANGED <<worker, crashes, published, failed, shared>>

Pending == {e \in Event : event[e].status = "PENDING" /\ event[e].due}

CopyOf(e) == [id |-> e, retryCount |-> event[e].retryCount, due |-> event[e].due]
Held(w) == {worker[w].batch[k].id : k \in DOMAIN worker[w].batch}

\* The n oldest pending events, in order; fewer than Limit only if there are no more.
Oldest(n) ==
    {batch \in [1 .. n -> Pending] :
        /\ \A i, j \in 1 .. n : i < j => batch[i] < batch[j]
        /\ \A e \in Pending, k \in 1 .. n : e < batch[k] => \E i \in 1 .. n : batch[i] = e
        /\ n < Limit => \A e \in Pending : \E i \in 1 .. n : batch[i] = e}

\* The query of processPending.
PollEvents(w) ==
    /\ worker[w].at = "idle"
    /\ \E n \in 1 .. Limit : \E batch \in Oldest(n) :
          /\ worker' = [worker EXCEPT ![w] =
                           [at |-> "publish", batch |-> [k \in 1 .. n |-> CopyOf(batch[k])]]]
          /\ shared' = shared \cup {e \in Event : /\ \E k \in 1 .. n : batch[k] = e
                                                  /\ \E v \in Worker \ {w} : e \in Held(v)}
    /\ UNCHANGED <<event, crashes, published, failed>>

Current(w) == Head(worker[w].batch)
Proceed(w, at) == worker' = [worker EXCEPT ![w].at = at]

\* The next event of the batch, or the end of it.
NextOf(w) ==
    LET rest == Tail(worker[w].batch)
    IN  worker' = [worker EXCEPT ![w] = [at |-> IF rest = <<>> THEN "idle" ELSE "publish",
                                         batch |-> rest]]

\* stellarService.publishPaymentEvent, outside.
PublishEvent(w) ==
    /\ worker[w].at = "publish"
    /\ \/ /\ Proceed(w, "save")
          /\ published' = published \cup {Current(w).id}
       \/ /\ Proceed(w, "fail")
          /\ UNCHANGED published
    /\ UNCHANGED <<event, crashes, failed, shared>>

\* repo.save writes the copy back, its retry counter included.
SaveSent(w) ==
    /\ worker[w].at = "save"
    /\ LET copy == Current(w)
       IN  event' = [event EXCEPT ![copy.id] =
                        [status |-> "SENT", retryCount |-> copy.retryCount, due |-> copy.due]]
    /\ NextOf(w)
    /\ UNCHANGED <<crashes, published, failed, shared>>

\* A save that fails is caught like a publication that failed.
SaveFails(w) ==
    /\ worker[w].at = "save"
    /\ Proceed(w, "fail")
    /\ UNCHANGED <<event, crashes, published, failed, shared>>

\* Mutant of IsDeadLetter: one attempt too early.
IsDeadLetterEarly(attempts, max) == attempts + 1 >= max

IsDeadLetter(attempts, max) == attempts >= max

MarkFailed(w) ==
    /\ worker[w].at = "fail"
    /\ LET copy == Current(w)
           attempts == copy.retryCount + 1
           dead == IsDeadLetter(attempts, MaxAttempts)
       IN  /\ event' = [event EXCEPT ![copy.id] =
                           [status |-> IF dead THEN "FAILED" ELSE "PENDING",
                            retryCount |-> attempts,
                            due |-> dead /\ copy.due]]
           /\ failed' = [failed EXCEPT ![copy.id] = IF @ < MaxAttempts THEN @ + 1 ELSE @]
    /\ NextOf(w)
    /\ UNCHANGED <<crashes, published, shared>>

\* The process crashes, or the update of a failed attempt fails too: the rest of
\* the batch is dropped, the rows stay as they are.
DropBatch(w) ==
    /\ worker[w].at # "idle"
    /\ crashes < MaxCrashes
    /\ crashes' = crashes + 1
    /\ worker' = [worker EXCEPT ![w] = Resting]
    /\ UNCHANGED <<event, published, failed, shared>>

WorkerStep(w) == PollEvents(w) \/ PublishEvent(w) \/ SaveSent(w) \/ SaveFails(w) \/ MarkFailed(w)

Next ==
    \/ \E e \in Event : CreateEvent(e) \/ EventDue(e)
    \/ \E w \in Worker : WorkerStep(w) \/ DropBatch(w)

Spec == Init /\ [][Next]_vars

\* The clock goes on and the cron job of every process runs again and again, so what
\* a worker can do it does at some time.  Crashes and errors come to an end.
Working ==
    /\ \A e \in Event : WF_vars(EventDue(e))
    /\ \A w \in Worker : WF_vars(WorkerStep(w))

LiveSpec == Spec /\ Working

-----------------------------------------------------------------------------
(* Properties *)

\* An event counts as sent only after a publication of it succeeded, and as failed
\* only after MaxAttempts attempts failed, with any number of workers, crashes and
\* failing saves.
Truthful ==
    \A e \in Event : /\ event[e].status = "SENT" => e \in published
                     /\ event[e].status = "FAILED" => failed[e] = MaxAttempts

\* An event that is sent or given up is never taken up again, unless two workers
\* had it in their batches at once: skip_locked does not keep them apart, since
\* the locks end with the query.
Final ==
    [][\A e \in Event : event[e].status \in {"SENT", "FAILED"} /\ e \notin shared
          => event'[e].status = event[e].status]_vars

\* Every event is sent or given up in the end: none is lost with the batch of a
\* worker that crashed, and two workers do not undo each other's work for ever.
EventEnds ==
    \A e \in Event : event[e].status = "PENDING" ~> event[e].status \in {"SENT", "FAILED"}
=============================================================================
