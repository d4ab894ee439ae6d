--------------------------- MODULE ServicesProofs ---------------------------
(***************************************************************************)
(* Theorems about the services of the backend whose steps interleave: the  *)
(* two queues, the idempotency keys, the requests, the mails, the rows     *)
(* that are read and saved later, the caches and the probes.  Each service *)
(* has an inductive invariant of its own; together they are the invariant  *)
(* of the module.                                                          *)
(***************************************************************************)
EXTENDS Services, SequenceTheorems, FiniteSetTheorems, TLAPS

-----------------------------------------------------------------------------
(* Batches *)

\* No row stands twice in a batch.
Distinct(batch) == \A i, j \in DOMAIN batch : batch[i].id = batch[j].id => i = j

LEMMA TailOf ==
    ASSUME NEW S, NEW s \in Seq(S), s # <<>>
    PROVE  /\ Tail(s) \in Seq(S)
           /\ Head(s) \in S /\ Head(s) = s[1] /\ 1 \in DOMAIN s
           /\ \A k \in DOMAIN Tail(s) : k + 1 \in DOMAIN s /\ k + 1 # 1 /\ Tail(s)[k] = s[k + 1]
<1>1. Len(s) \in Nat \ {0} /\ DOMAIN s = 1 .. Len(s)
  BY EmptySeq, LenProperties
<1>2. /\ Head(s) \in S /\ Tail(s) \in Seq(S) /\ Len(Tail(s)) = Len(s) - 1
      /\ \A i \in 1 .. Len(Tail(s)) : Tail(s)[i] = s[i + 1]
  BY HeadTailProperties
<1>3. DOMAIN Tail(s) = 1 .. (Len(s) - 1)
  BY <1>2, LenProperties
<1>4. Head(s) = s[1]
  OBVIOUS
<1> QED
  BY <1>1, <1>2, <1>3, <1>4

LEMMA TailDistinct ==
    ASSUME NEW S, NEW s \in Seq(S), s # <<>>, Distinct(s)
    PROVE  /\ Distinct(Tail(s))
           /\ \A k \in DOMAIN Tail(s) : Tail(s)[k].id # Head(s).id
<1>1. \A k \in DOMAIN Tail(s) : k \in Int
  BY TailOf, LenProperties
<1> QED
  BY TailOf, <1>1 DEF Distinct

-----------------------------------------------------------------------------
(* The outbox: the inductive invariant *)

Closed == {"SENT", "FAILED"}

\* A row goes by what was tried, and is pending only while attempts are left.
EventHolds(e) ==
    /\ event[e].retryCount <= failed[e]
    /\ event[e].status = "PENDING" => event[e].retryCount < EventAttempts
    /\ event[e].status = "SENT" => e \in published
    /\ event[e].status = "FAILED" => failed[e] = EventAttempts

\* So does a copy; what a worker is about to record as sent was published.
WorkerHolds(w) ==
    /\ \A k \in DOMAIN worker[w].batch :
          /\ worker[w].batch[k].retryCount < EventAttempts
          /\ worker[w].batch[k].retryCount <= failed[worker[w].batch[k].id]
    /\ worker[w].at = "save" => worker[w].batch[1].id \in published
    /\ Distinct(worker[w].batch)

\* Two workers that hold an event were seen to, and so was one that holds an event
\* another one ended.
SharedSeen ==
    \A w \in Worker : \A e \in Outboxes!Held(w) :
        /\ \A v \in Worker : v # w /\ e \in Outboxes!Held(v) => e \in shared
        /\ event[e].status \in Closed => e \in shared

OutboxInv ==
    /\ Outboxes!TypeOK
    /\ \A e \in Event : EventHolds(e)
    /\ \A w \in Worker : WorkerHolds(w)
    /\ SharedSeen

LEMMA EventNumbers ==
    /\ Event \subseteq Nat
    /\ EventAttempts \in Nat \ {0} /\ BatchLimit \in Nat \ {0} /\ MaxCrashes \in Nat
BY Given DEF Outboxes!EventAssumption, Outboxes!NumbersAssumption

LEMMA OutboxInit == ASSUME Outboxes!Init PROVE OutboxInv
<1>1. Outboxes!TypeOK
  BY EventNumbers, EmptySeq DEF Outboxes!Init, Outboxes!TypeOK, Outboxes!Resting
<1>2. \A w \in Worker : worker[w].batch = <<>> /\ worker[w].at = "idle"
  BY DEF Outboxes!Init, Outboxes!Resting
<1>3. DOMAIN <<>> = {}
  OBVIOUS
<1>4. \A w \in Worker : WorkerHolds(w)
  BY <1>2, <1>3 DEF WorkerHolds, Distinct
<1>5. SharedSeen
  BY <1>2, <1>3 DEF SharedSeen, Outboxes!Held
<1>6. \A e \in Event : EventHolds(e)
  <2> TAKE e \in Event
  <2>1. event[e].retryCount = 0 /\ event[e].status = "ABSENT" /\ failed[e] = 0
    BY DEF Outboxes!Init, Outboxes!Absent
  <2>2. 0 <= 0
    OBVIOUS
  <2> QED
    BY <2>1, <2>2 DEF EventHolds
<1> QED
  BY <1>1, <1>4, <1>5, <1>6 DEF OutboxInv

\* A worker's row, field by field.
LEMMA WorkerRow ==
    ASSUME Outboxes!TypeOK, NEW w \in Worker
    PROVE  /\ worker[w].at \in {"idle", "publish", "save", "fail"}
           /\ worker[w].batch \in Seq(Outboxes!Copy)
           /\ worker[w] = [at |-> worker[w].at, batch |-> worker[w].batch]
           /\ worker[w].at = "idle" <=> worker[w].batch = <<>>
BY DEF Outboxes!TypeOK

LEMMA CopyFields ==
    ASSUME Outboxes!TypeOK, NEW w \in Worker, NEW k \in DOMAIN worker[w].batch
    PROVE  /\ worker[w].batch[k].id \in Event
           /\ worker[w].batch[k].retryCount \in Nat
           /\ worker[w].batch[k].due \in BOOLEAN
<1>1. worker[w].batch \in Seq(Outboxes!Copy)
  BY WorkerRow
<1>2. k \in 1 .. Len(worker[w].batch)
  BY <1>1, LenProperties
<1>3. worker[w].batch[k] \in Outboxes!Copy
  BY <1>1, <1>2, ElementOfSeq
<1> QED
  BY <1>3 DEF Outboxes!Copy

\* A worker that has a batch goes on with it, or with what remains of it.
GoesOn(w, at, batch) ==
    /\ worker[w].at # "idle"
    /\ batch \in {worker[w].batch, Tail(worker[w].batch), <<>>}
    /\ at \in {"idle", "publish", "save", "fail"}
    /\ at = "idle" <=> batch = <<>>
    /\ worker' = [worker EXCEPT ![w] = [at |-> at, batch |-> batch]]

LEMMA WorkerGoesOn ==
    ASSUME OutboxInv, NEW w \in Worker, NEW at, NEW batch, GoesOn(w, at, batch)
    PROVE  /\ worker' \in [Worker -> [at : {"idle", "publish", "save", "fail"},
                                      batch : Seq(Outboxes!Copy)]]
           /\ \A v \in Worker : worker'[v].at = "idle" <=> worker'[v].batch = <<>>
           /\ \A v \in Worker \ {w} : worker'[v] = worker[v]
           /\ worker'[w].at = at /\ worker'[w].batch = batch
           /\ \A k \in DOMAIN batch : \E j \in DOMAIN worker[w].batch : batch[k] = worker[w].batch[j]
           /\ Distinct(batch)
<1>1. worker[w].batch \in Seq(Outboxes!Copy) /\ worker[w].batch # <<>> /\ Distinct(worker[w].batch)
  BY WorkerRow DEF OutboxInv, WorkerHolds, GoesOn
<1>2. batch \in Seq(Outboxes!Copy)
  BY <1>1, TailOf, EmptySeq DEF GoesOn
<1>3. worker' \in [Worker -> [at : {"idle", "publish", "save", "fail"}, batch : Seq(Outboxes!Copy)]]
  BY <1>2 DEF OutboxInv, Outboxes!TypeOK, GoesOn
<1>4. /\ \A v \in Worker \ {w} : worker'[v] = worker[v]
      /\ worker'[w].at = at /\ worker'[w].batch = batch
  BY DEF OutboxInv, Outboxes!TypeOK, GoesOn
<1>5. \A v \in Worker : worker'[v].at = "idle" <=> worker'[v].batch = <<>>
  <2>1. \A v \in Worker : worker[v].at = "idle" <=> worker[v].batch = <<>>
    BY DEF OutboxInv, Outboxes!TypeOK
  <2> QED
    BY <2>1, <1>4 DEF GoesOn
<1>6. DOMAIN <<>> = {}
  OBVIOUS
<1>7. \A k \in DOMAIN batch : \E j \in DOMAIN worker[w].batch : batch[k] = worker[w].batch[j]
  BY <1>1, <1>6, TailOf DEF GoesOn
<1>8. Distinct(batch)
  <2>1. CASE batch = Tail(worker[w].batch)
    BY <1>1, <2>1, TailDistinct
  <2>2. CASE batch = <<>>
    BY <2>2, <1>6 DEF Distinct
  <2> QED
    BY <1>1, <2>1, <2>2 DEF GoesOn
<1> QED
  BY <1>3, <1>4, <1>5, <1>7, <1>8


\* The same for the whole invariant, if rows and counters are kept in order and only the
\* event whose turn it was ends.
LEMMA TurnKeeps ==
    ASSUME OutboxInv, NEW w \in Worker, NEW at, NEW batch, GoesOn(w, at, batch),
           at = "save" => batch[1].id \in published',
           event' \in [Event -> Outboxes!EventRow \cup {Outboxes!Absent}],
           \A e \in Event : EventHolds(e)',
           \A e \in Event : event'[e].status \in Closed =>
               \/ event[e].status \in Closed
               \/ e = Head(worker[w].batch).id /\ batch = Tail(worker[w].batch),
           published \subseteq published', published' \subseteq Event, shared' = shared,
           failed' \in [Event -> 0 .. EventAttempts], \A e \in Event : failed[e] <= failed'[e],
           crashes' \in 0 .. MaxCrashes
    PROVE  OutboxInv'
<1>1. /\ worker' \in [Worker -> [at : {"idle", "publish", "save", "fail"},
                                 batch : Seq(Outboxes!Copy)]]
      /\ \A v \in Worker : worker'[v].at = "idle" <=> worker'[v].batch = <<>>
      /\ \A v \in Worker \ {w} : worker'[v] = worker[v]
      /\ worker'[w].at = at /\ worker'[w].batch = batch
      /\ \A k \in DOMAIN batch : \E j \in DOMAIN worker[w].batch : batch[k] = worker[w].batch[j]
      /\ Distinct(batch)
  BY WorkerGoesOn
<1>2. Outboxes!TypeOK'
  BY <1>1 DEF OutboxInv, Outboxes!TypeOK
<1>3. \A v \in Worker : \A k \in DOMAIN worker[v].batch :
          /\ worker[v].batch[k].id \in Event /\ worker[v].batch[k].retryCount \in Nat
  BY CopyFields DEF OutboxInv
<1>4. \A v \in Worker : \A k \in DOMAIN worker'[v].batch :
          \E j \in DOMAIN worker[v].batch : worker'[v].batch[k] = worker[v].batch[j]
  <2> TAKE v \in Worker
  <2>1. CASE v = w
    BY <1>1, <2>1
  <2>2. CASE v # w
    BY <1>1, <2>2
  <2> QED
    BY <2>1, <2>2
<1>5. ASSUME NEW v \in Worker PROVE WorkerHolds(v)'
  <2>1. ASSUME NEW k \in DOMAIN worker'[v].batch
        PROVE  /\ worker'[v].batch[k].retryCount < EventAttempts
               /\ worker'[v].batch[k].retryCount <= failed'[worker'[v].batch[k].id]
    <3>1. PICK j \in DOMAIN worker[v].batch : worker'[v].batch[k] = worker[v].batch[j]
      BY <1>4
    <3> DEFINE copy == worker[v].batch[j]
    <3>2. copy.retryCount < EventAttempts /\ copy.retryCount <= failed[copy.id]
      BY DEF OutboxInv, WorkerHolds
    <3>3. failed[copy.id] \in Int /\ failed'[copy.id] \in Int /\ copy.retryCount \in Int
      BY <1>3 DEF OutboxInv, Outboxes!TypeOK
    <3>4. failed[copy.id] <= failed'[copy.id]
      BY <1>3
    <3> QED
      BY <3>1, <3>2, <3>3, <3>4
  <2>2. worker'[v].at = "save" => worker'[v].batch[1].id \in published'
    BY <1>1 DEF OutboxInv, WorkerHolds
  <2>3. Distinct(worker'[v].batch)
    BY <1>1 DEF OutboxInv, WorkerHolds
  <2> QED
    BY <2>1, <2>2, <2>3 DEF WorkerHolds, Distinct
<1>6. SharedSeen'
  <2> SUFFICES ASSUME NEW v \in Worker, NEW e \in Outboxes!Held(v)'
               PROVE  /\ \A u \in Worker : u # v /\ e \in Outboxes!Held(u)' => e \in shared
                      /\ event'[e].status \in Closed => e \in shared
    BY DEF SharedSeen
  <2>1. \A u \in Worker : Outboxes!Held(u)' \subseteq Outboxes!Held(u)
    BY <1>4 DEF Outboxes!Held
  <2>2. e \in Event
    <3>1. e \in Outboxes!Held(v)
      BY <2>1
    <3>2. PICK k \in DOMAIN worker[v].batch : e = worker[v].batch[k].id
      BY <3>1 DEF Outboxes!Held
    <3> QED
      BY <1>3, <3>2
  <2>3. \A u \in Worker : u # v /\ e \in Outboxes!Held(u)' => e \in shared
    BY <2>1 DEF OutboxInv, SharedSeen
  <2>4. ASSUME event'[e].status \in Closed PROVE e \in shared
    <3>1. CASE event[e].status \in Closed
      BY <2>1, <3>1 DEF OutboxInv, SharedSeen
    <3>2. CASE e = Head(worker[w].batch).id /\ batch = Tail(worker[w].batch)
      <4>1. worker[w].batch \in Seq(Outboxes!Copy) /\ worker[w].batch # <<>>
        BY WorkerRow DEF OutboxInv, GoesOn
      <4>2. e \in Outboxes!Held(w)
        BY <3>2, <4>1, TailOf DEF Outboxes!Held
      <4>3. \A k \in DOMAIN batch : batch[k].id # e
        BY <3>2, <4>1, TailDistinct DEF OutboxInv, WorkerHolds
      <4>4. e \notin Outboxes!Held(w)'
        BY <1>1, <4>3 DEF Outboxes!Held
      <4>5. v # w
        BY <4>4
      <4>6. e \in Outboxes!Held(v)
        BY <2>1
      <4> QED
        BY <4>2, <4>5, <4>6 DEF OutboxInv, SharedSeen
    <3> QED
      BY <2>2, <2>4, <3>1, <3>2
  <2> QED
    BY <2>3, <2>4
<1> QED
  BY <1>2, <1>5, <1>6 DEF OutboxInv

-----------------------------------------------------------------------------
(* The outbox: every step keeps it *)

\* Steps that only write a row, and end none.
LEMMA RowKeeps ==
    ASSUME OutboxInv,
           UNCHANGED <<worker, crashes, published, failed, shared>>,
           event' \in [Event -> Outboxes!EventRow \cup {Outboxes!Absent}],
           \A e \in Event : EventHolds(e)',
           \A e \in Event : event'[e].status \in Closed => event[e].status \in Closed
    PROVE  OutboxInv'
<1>1. Outboxes!TypeOK'
  BY DEF OutboxInv, Outboxes!TypeOK
<1>2. \A w \in Worker : WorkerHolds(w)'
  BY DEF OutboxInv, WorkerHolds
<1>3. SharedSeen'
  <2>1. \A w \in Worker : Outboxes!Held(w) \subseteq Event
    BY CopyFields DEF OutboxInv, Outboxes!Held
  <2>2. \A w \in Worker : Outboxes!Held(w)' = Outboxes!Held(w)
    BY DEF Outboxes!Held
  <2> QED
    BY <2>1, <2>2 DEF SharedSeen, OutboxInv
<1> QED
  BY <1>1, <1>2, <1>3 DEF OutboxInv

LEMMA CreateKeeps ==
    ASSUME OutboxInv, NEW e \in Event, Outboxes!CreateEvent(e) \/ Outboxes!EventDue(e)
    PROVE  OutboxInv'
<1> DEFINE row == event'[e]
<1>1. /\ event' = [event EXCEPT ![e] = row]
      /\ row \in Outboxes!EventRow
      /\ row.status = "PENDING" /\ row.retryCount < EventAttempts /\ row.retryCount <= failed[e]
  <2>1. event[e] \in Outboxes!EventRow \cup {Outboxes!Absent} /\ failed[e] \in 0 .. EventAttempts
    BY DEF OutboxInv, Outboxes!TypeOK
  <2>2. CASE Outboxes!CreateEvent(e)
    BY <2>1, <2>2, EventNumbers DEF Outboxes!CreateEvent, OutboxInv, Outboxes!TypeOK, Outboxes!EventRow
  <2>3. CASE Outboxes!EventDue(e)
    <3>1. event[e].status = "PENDING"
      BY <2>3 DEF Outboxes!EventDue
    <3>2. event[e] \in Outboxes!EventRow
      BY <2>1, <3>1 DEF Outboxes!Absent
    <3>3. event[e].retryCount < EventAttempts /\ event[e].retryCount <= failed[e]
      BY <3>1 DEF OutboxInv, EventHolds
    <3>4. event' = [event EXCEPT ![e].due = TRUE]
      BY <2>3 DEF Outboxes!EventDue
    <3>5. /\ event'[e].status = event[e].status /\ event'[e].retryCount = event[e].retryCount
          /\ event'[e].due = TRUE /\ event'[e] = [event[e] EXCEPT !.due = TRUE]
          /\ event' = [event EXCEPT ![e] = event'[e]]
      BY <3>2, <3>4 DEF OutboxInv, Outboxes!TypeOK, Outboxes!EventRow
    <3>6. event'[e] \in Outboxes!EventRow
      BY <3>2, <3>5 DEF Outboxes!EventRow
    <3> QED
      BY <3>1, <3>3, <3>5, <3>6
  <2> QED
    BY <2>2, <2>3
<1>2. UNCHANGED <<worker, crashes, published, failed, shared>>
  BY DEF Outboxes!CreateEvent, Outboxes!EventDue
<1>3. event' \in [Event -> Outboxes!EventRow \cup {Outboxes!Absent}]
  BY <1>1 DEF OutboxInv, Outboxes!TypeOK
<1>4. \A x \in Event : event'[x] = IF x = e THEN row ELSE event[x]
  BY <1>1 DEF OutboxInv, Outboxes!TypeOK
<1>5. \A x \in Event : EventHolds(x)'
  BY <1>1, <1>2, <1>4 DEF OutboxInv, EventHolds
<1>6. \A x \in Event : event'[x].status \in Closed => event[x].status \in Closed
  BY <1>1, <1>4 DEF Closed
<1> QED
  BY <1>2, <1>3, <1>5, <1>6, RowKeeps

LEMMA ProceedGoesOn ==
    ASSUME OutboxInv, NEW w \in Worker, worker[w].at # "idle",
           NEW at \in {"publish", "save", "fail"}, Outboxes!Proceed(w, at)
    PROVE  GoesOn(w, at, worker[w].batch)
<1>1. worker[w] = [at |-> worker[w].at, batch |-> worker[w].batch] /\ worker[w].batch # <<>>
  BY WorkerRow DEF OutboxInv
<1>2. [worker[w] EXCEPT !.at = at] = [at |-> at, batch |-> worker[w].batch]
  BY <1>1
<1>3. worker' = [worker EXCEPT ![w] = [at |-> at, batch |-> worker[w].batch]]
  BY <1>2 DEF Outboxes!Proceed
<1> QED
  BY <1>1, <1>3 DEF GoesOn

LEMMA NextGoesOn ==
    ASSUME OutboxInv, NEW w \in Worker, worker[w].at # "idle", Outboxes!NextOf(w)
    PROVE  \E at \in {"idle", "publish"} : GoesOn(w, at, Tail(worker[w].batch))
<1>1. CASE Tail(worker[w].batch) = <<>>
  BY <1>1 DEF GoesOn, Outboxes!NextOf
<1>2. CASE Tail(worker[w].batch) # <<>>
  BY <1>2 DEF GoesOn, Outboxes!NextOf
<1> QED
  BY <1>1, <1>2

\* Steps of a worker that write no row.
LEMMA QuietTurnKeeps ==
    ASSUME OutboxInv, NEW w \in Worker,
           Outboxes!PublishEvent(w) \/ Outboxes!SaveFails(w) \/ Outboxes!DropBatch(w)
    PROVE  OutboxInv'
<1>1. UNCHANGED <<event, failed, shared>>
  BY DEF Outboxes!PublishEvent, Outboxes!SaveFails, Outboxes!DropBatch
<1>2. worker[w].at # "idle"
  BY DEF Outboxes!PublishEvent, Outboxes!SaveFails, Outboxes!DropBatch
<1>3. worker[w].batch \in Seq(Outboxes!Copy) /\ worker[w].batch # <<>>
  BY <1>2, WorkerRow DEF OutboxInv
<1>4. Outboxes!Current(w) = worker[w].batch[1] /\ Outboxes!Current(w).id \in Event
  BY <1>3, TailOf, CopyFields DEF OutboxInv, Outboxes!Current
<1>5. /\ published \subseteq published' /\ published' \subseteq Event
      /\ crashes' \in 0 .. MaxCrashes
  <2>1. published \subseteq Event /\ crashes \in 0 .. MaxCrashes
    BY DEF OutboxInv, Outboxes!TypeOK
  <2>2. CASE Outboxes!PublishEvent(w)
    <3>1. published' \in {published, published \cup {Outboxes!Current(w).id}} /\ crashes' = crashes
      BY <2>2 DEF Outboxes!PublishEvent
    <3> QED
      BY <1>4, <2>1, <3>1
  <2>3. CASE Outboxes!SaveFails(w)
    BY <2>1, <2>3 DEF Outboxes!SaveFails
  <2>4. CASE Outboxes!DropBatch(w)
    BY <2>1, <2>4, EventNumbers DEF Outboxes!DropBatch
  <2> QED
    BY <2>2, <2>3, <2>4
<1>6. \E at \in {"idle", "publish", "save", "fail"}, batch \in {worker[w].batch, <<>>} :
         /\ GoesOn(w, at, batch)
         /\ at = "save" => batch[1].id \in published'
  <2>1. CASE Outboxes!PublishEvent(w)
    <3>1. PICK at \in {"save", "fail"} : /\ Outboxes!Proceed(w, at)
                                         /\ at = "save" => Outboxes!Current(w).id \in published'
      BY <2>1 DEF Outboxes!PublishEvent
    <3>2. GoesOn(w, at, worker[w].batch)
      BY <1>2, <3>1, ProceedGoesOn
    <3> QED
      BY <1>4, <3>1, <3>2
  <2>2. CASE Outboxes!SaveFails(w)
    <3>1. GoesOn(w, "fail", worker[w].batch)
      BY <1>2, <2>2, ProceedGoesOn DEF Outboxes!SaveFails
    <3> QED
      BY <3>1
  <2>3. CASE Outboxes!DropBatch(w)
    <3>1. GoesOn(w, "idle", <<>>)
      BY <1>2, <2>3 DEF Outboxes!DropBatch, Outboxes!Resting, GoesOn
    <3> QED
      BY <3>1
  <2> QED
    BY <2>1, <2>2, <2>3
<1>7. PICK at \in {"idle", "publish", "save", "fail"}, batch \in {worker[w].batch, <<>>} :
         /\ GoesOn(w, at, batch)
         /\ at = "save" => batch[1].id \in published'
  BY <1>6
<1>8. \A e \in Event : EventHolds(e)'
  BY <1>1, <1>5 DEF OutboxInv, EventHolds
<1>9. /\ event' \in [Event -> Outboxes!EventRow \cup {Outboxes!Absent}]
      /\ failed' \in [Event -> 0 .. EventAttempts]
      /\ \A e \in Event : failed[e] <= failed'[e]
  BY <1>1, EventNumbers DEF OutboxInv, Outboxes!TypeOK
<1> QED
  BY <1>1, <1>5, <1>7, <1>8, <1>9, TurnKeeps

\* Steps of a worker that end its turn with one event.
LEMMA WriteKeeps ==
    ASSUME OutboxInv, NEW w \in Worker, Outboxes!SaveSent(w) \/ Outboxes!MarkFailed(w)
    PROVE  OutboxInv'
<1> DEFINE batch == worker[w].batch
           copy == Outboxes!Current(w)
<1>1. worker[w].at \in {"save", "fail"} /\ batch \in Seq(Outboxes!Copy) /\ batch # <<>>
  BY WorkerRow DEF OutboxInv, Outboxes!SaveSent, Outboxes!MarkFailed
<1>2. copy = batch[1] /\ copy = Head(batch) /\ 1 \in DOMAIN batch
  BY <1>1, TailOf DEF Outboxes!Current
<1> HIDE DEF copy
<1>3. copy.id \in Event /\ copy.retryCount \in Nat /\ copy.due \in BOOLEAN
  BY <1>2, CopyFields DEF OutboxInv
<1>4. PICK id \in Event : id = copy.id
  BY <1>3
<1>5. /\ copy.retryCount < EventAttempts /\ copy.retryCount <= failed[id]
      /\ failed[id] \in 0 .. EventAttempts
  BY <1>2, <1>4 DEF OutboxInv, WorkerHolds, Outboxes!TypeOK
<1>6. PICK at \in {"idle", "publish"} : GoesOn(w, at, Tail(batch))
  BY <1>1, NextGoesOn DEF Outboxes!SaveSent, Outboxes!MarkFailed
<1>7. /\ published' = published /\ shared' = shared /\ crashes' = crashes
      /\ event' = [event EXCEPT ![id] = event'[id]]
      /\ event'[id] \in Outboxes!EventRow
      /\ failed' = [failed EXCEPT ![id] = failed'[id]]
      /\ failed'[id] \in 0 .. EventAttempts /\ failed[id] <= failed'[id]
      /\ EventHolds(id)'
  <2>1. CASE Outboxes!SaveSent(w)
    <3>1. event'= [event EXCEPT ![id] =
                      [status |-> "SENT", retryCount |-> copy.retryCount, due |-> copy.due]]
      BY <1>4, <2>1 DEF Outboxes!SaveSent, copy
    <3>2. event'[id] = [status |-> "SENT", retryCount |-> copy.retryCount, due |-> copy.due]
      BY <3>1 DEF OutboxInv, Outboxes!TypeOK
    <3>3. UNCHANGED <<crashes, published, failed, shared>>
      BY <2>1 DEF Outboxes!SaveSent
    <3>4. copy.retryCount \in 0 .. EventAttempts
      BY <1>3, <1>5, EventNumbers
    <3>5. event'[id] \in Outboxes!EventRow
      BY <1>3, <3>2, <3>4 DEF Outboxes!EventRow
    <3>6. id \in published
      BY <1>2, <1>4, <2>1 DEF OutboxInv, WorkerHolds, Outboxes!SaveSent
    <3>7. EventHolds(id)'
      BY <1>5, <3>2, <3>3, <3>6 DEF EventHolds
    <3>8. failed = [failed EXCEPT ![id] = failed[id]]
      BY DEF OutboxInv, Outboxes!TypeOK
    <3>9. failed[id] <= failed[id]
      BY <1>5, EventNumbers
    <3>10. /\ event' = [event EXCEPT ![id] = event'[id]]
           /\ failed' = [failed EXCEPT ![id] = failed'[id]]
      BY <3>1, <3>2, <3>3, <3>8
    <3>11. failed'[id] \in 0 .. EventAttempts /\ failed[id] <= failed'[id]
      BY <1>5, <3>3, <3>9
    <3> QED
      BY <3>3, <3>5, <3>7, <3>10, <3>11
  <2>2. CASE Outboxes!MarkFailed(w)
    <3> DEFINE attempts == copy.retryCount + 1
               dead == Outboxes!IsDeadLetter(attempts, EventAttempts)
               row == [status |-> IF dead THEN "FAILED" ELSE "PENDING",
                       retryCount |-> attempts, due |-> dead /\ copy.due]
    <3>1. event' = [event EXCEPT ![id] = row]
      BY <1>4, <2>2 DEF Outboxes!MarkFailed, copy
    <3>2. event'[id] = row
      BY <3>1 DEF OutboxInv, Outboxes!TypeOK
    <3>3. failed' = [failed EXCEPT ![id] = IF @ < EventAttempts THEN @ + 1 ELSE @]
      BY <1>4, <2>2 DEF Outboxes!MarkFailed, copy
    <3>4. failed'[id] = IF failed[id] < EventAttempts
                             THEN failed[id] + 1 ELSE failed[id]
      BY <3>3 DEF OutboxInv, Outboxes!TypeOK
    <3>5. attempts \in 1 .. EventAttempts /\ attempts <= failed'[id]
      BY <1>3, <1>5, <3>4, EventNumbers
    <3>6. dead <=> attempts = EventAttempts
      BY <3>5, EventNumbers DEF Outboxes!IsDeadLetter
    <3>7. failed'[id] \in 0 .. EventAttempts /\ failed[id] <= failed'[id]
      BY <1>5, <3>4, EventNumbers
    <3>8. row.status \in {"PENDING", "FAILED"} /\ row.retryCount = attempts /\ row.due \in BOOLEAN
      OBVIOUS
    <3>9. row \in Outboxes!EventRow
      BY <3>5, <3>8 DEF Outboxes!EventRow
    <3>10. EventHolds(id)'
      BY <3>2, <3>5, <3>6, <3>7, EventNumbers DEF EventHolds
    <3>11. UNCHANGED <<crashes, published, shared>>
      BY <2>2 DEF Outboxes!MarkFailed
    <3> HIDE DEF row
    <3> QED
      BY <3>1, <3>2, <3>3, <3>4, <3>7, <3>9, <3>10, <3>11
  <2> QED
    BY <2>1, <2>2
<1>8. \A e \in Event : /\ event'[e] = IF e = id THEN event'[id] ELSE event[e]
                       /\ failed'[e] = IF e = id THEN failed'[id] ELSE failed[e]
  BY <1>7 DEF OutboxInv, Outboxes!TypeOK
<1>9. /\ event' \in [Event -> Outboxes!EventRow \cup {Outboxes!Absent}]
      /\ failed' \in [Event -> 0 .. EventAttempts]
  BY <1>7 DEF OutboxInv, Outboxes!TypeOK
<1>10. \A e \in Event : failed[e] <= failed'[e]
  BY <1>7, <1>8, EventNumbers DEF OutboxInv, Outboxes!TypeOK
<1>11. \A e \in Event : EventHolds(e)'
  BY <1>7, <1>8 DEF OutboxInv, EventHolds
<1>12. \A e \in Event : event'[e].status \in Closed =>
          event[e].status \in Closed \/ e = Head(batch).id
  BY <1>2, <1>4, <1>8
<1>13. published' \subseteq Event /\ crashes' \in 0 .. MaxCrashes
  BY <1>7 DEF OutboxInv, Outboxes!TypeOK
<1> QED
  BY <1>6, <1>7, <1>9, <1>10, <1>11, <1>12, <1>13, TurnKeeps

LEMMA OldestDistinct ==
    ASSUME NEW n \in Nat, NEW batch \in Outboxes!Oldest(n), NEW i \in 1 .. n, NEW j \in 1 .. n,
           batch[i] = batch[j]
    PROVE  i = j
<1>1. batch \in [1 .. n -> Event] /\ \A k, l \in 1 .. n : k < l => batch[k] < batch[l]
  BY DEF Outboxes!Oldest, Outboxes!Pending
<1>2. batch[i] \in Nat /\ batch[j] \in Nat
  BY <1>1, EventNumbers
<1>3. ~(i < j) /\ ~(j < i)
  BY <1>1, <1>2
<1> QED
  BY <1>3

\* A worker takes copies of pending rows, and who holds one of them is seen.
LEMMA PollKeeps ==
    ASSUME OutboxInv, NEW w \in Worker, Outboxes!PollEvents(w)
    PROVE  OutboxInv'
<1>0. PICK n \in 1 .. BatchLimit : \E taken \in Outboxes!Oldest(n) :
         /\ worker' = [worker EXCEPT ![w] =
               [at |-> "publish", batch |-> [k \in 1 .. n |-> Outboxes!CopyOf(taken[k])]]]
         /\ shared' = shared \cup {e \in Event : /\ \E k \in 1 .. n : taken[k] = e
                                                 /\ \E v \in Worker \ {w} : e \in Outboxes!Held(v)}
  BY DEF Outboxes!PollEvents
<1>1. PICK taken \in Outboxes!Oldest(n) :
         /\ worker' = [worker EXCEPT ![w] =
               [at |-> "publish", batch |-> [k \in 1 .. n |-> Outboxes!CopyOf(taken[k])]]]
         /\ shared' = shared \cup {e \in Event : /\ \E k \in 1 .. n : taken[k] = e
                                                 /\ \E v \in Worker \ {w} : e \in Outboxes!Held(v)}
  BY <1>0
<1> DEFINE batch == [k \in 1 .. n |-> Outboxes!CopyOf(taken[k])]
<1>2. n \in Nat /\ 1 \in 1 .. n
  BY EventNumbers
<1>3. taken \in [1 .. n -> Event] /\ \A k \in 1 .. n : event[taken[k]].status = "PENDING"
  BY DEF Outboxes!Oldest, Outboxes!Pending
<1>4. UNCHANGED <<event, crashes, published, failed>>
  BY DEF Outboxes!PollEvents
<1>5. ASSUME NEW k \in 1 .. n
      PROVE  /\ batch[k] \in Outboxes!Copy /\ batch[k].id = taken[k]
             /\ batch[k].retryCount < EventAttempts /\ batch[k].retryCount <= failed[batch[k].id]
  <2>1. event[taken[k]] \in Outboxes!EventRow
    BY <1>3 DEF OutboxInv, Outboxes!TypeOK, Outboxes!Absent
  <2>2. batch[k] = [id |-> taken[k], retryCount |-> event[taken[k]].retryCount,
                    due |-> event[taken[k]].due]
    BY DEF Outboxes!CopyOf
  <2>3. taken[k] \in Event /\ event[taken[k]].retryCount \in Nat /\ event[taken[k]].due \in BOOLEAN
    BY <1>3, <2>1, EventNumbers DEF Outboxes!EventRow
  <2>4. batch[k] \in Outboxes!Copy
    BY <2>2, <2>3 DEF Outboxes!Copy
  <2>5. /\ event[taken[k]].retryCount < EventAttempts
        /\ event[taken[k]].retryCount <= failed[taken[k]]
    BY <1>3, <2>3 DEF OutboxInv, EventHolds
  <2>6. batch[k].id = taken[k] /\ batch[k].retryCount = event[taken[k]].retryCount
    BY <2>2
  <2> HIDE DEF batch
  <2> QED
    BY <2>4, <2>5, <2>6
<1>6. DOMAIN batch = 1 .. n
  OBVIOUS
<1>7. batch \in Seq(Outboxes!Copy) /\ batch # <<>>
  <2>1. batch \in [1 .. n -> Outboxes!Copy]
    BY <1>5
  <2>2. DOMAIN <<>> = {}
    OBVIOUS
  <2>3. batch # <<>>
    BY <1>2, <1>6, <2>2
  <2> HIDE DEF batch
  <2> QED
    BY <1>2, <2>1, <2>3
<1>8. Distinct(batch)
  BY <1>2, <1>5, <1>6, OldestDistinct DEF Distinct
<1>9. /\ worker' = [worker EXCEPT ![w] = [at |-> "publish", batch |-> batch]]
      /\ shared' = shared \cup {e \in Event : /\ \E k \in 1 .. n : taken[k] = e
                                              /\ \E v \in Worker \ {w} : e \in Outboxes!Held(v)}
  BY <1>1
<1> HIDE DEF batch
<1>10. /\ worker' \in [Worker -> [at : {"idle", "publish", "save", "fail"},
                                  batch : Seq(Outboxes!Copy)]]
       /\ \A v \in Worker \ {w} : worker'[v] = worker[v]
       /\ worker'[w].at = "publish" /\ worker'[w].batch = batch
  BY <1>7, <1>9 DEF OutboxInv, Outboxes!TypeOK
<1>11. Outboxes!TypeOK'
  <2>1. \A v \in Worker : worker'[v].at = "idle" <=> worker'[v].batch = <<>>
    BY <1>7, <1>10 DEF OutboxInv, Outboxes!TypeOK
  <2>2. shared' \subseteq Event
    BY <1>9 DEF OutboxInv, Outboxes!TypeOK
  <2> QED
    BY <1>4, <1>10, <2>1, <2>2 DEF OutboxInv, Outboxes!TypeOK
<1>12. \A e \in Event : EventHolds(e)'
  BY <1>4 DEF OutboxInv, EventHolds
<1>13. ASSUME NEW v \in Worker PROVE WorkerHolds(v)'
  <2>1. CASE v = w
    <3>1. \A k \in DOMAIN batch : /\ batch[k].retryCount < EventAttempts
                                  /\ batch[k].retryCount <= failed'[batch[k].id]
      BY <1>4, <1>5, <1>6
    <3> QED
      BY <1>8, <1>10, <2>1, <3>1 DEF WorkerHolds, Distinct
  <2>2. CASE v # w
    BY <1>4, <1>10, <2>2 DEF OutboxInv, WorkerHolds, Distinct
  <2> QED
    BY <2>1, <2>2
<1>14. SharedSeen'
  <2>1. \A v \in Worker \ {w} : Outboxes!Held(v)' = Outboxes!Held(v)
    BY <1>10 DEF Outboxes!Held
  <2>2. \A e \in Outboxes!Held(w)' : \E k \in 1 .. n : taken[k] = e
    BY <1>5, <1>6, <1>10 DEF Outboxes!Held
  <2>3. \A e \in Outboxes!Held(w)' : e \in Event /\ event[e].status = "PENDING"
    BY <1>3, <2>2
  <2>4. \A e \in Outboxes!Held(w)', v \in Worker \ {w} : e \in Outboxes!Held(v) => e \in shared'
    BY <1>9, <2>2, <2>3
  <2> SUFFICES ASSUME NEW v \in Worker, NEW e \in Outboxes!Held(v)'
               PROVE  /\ \A u \in Worker : u # v /\ e \in Outboxes!Held(u)' => e \in shared'
                      /\ event'[e].status \in Closed => e \in shared'
    BY DEF SharedSeen
  <2>5. CASE v = w
    BY <1>4, <2>1, <2>3, <2>4, <2>5 DEF Closed
  <2>6. CASE v # w
    <3>1. e \in Outboxes!Held(v) /\ shared \subseteq shared'
      BY <1>9, <2>1, <2>6
    <3>2. event'[e].status \in Closed => e \in shared'
      BY <1>4, <3>1 DEF OutboxInv, SharedSeen
    <3>3. \A u \in Worker : u # v /\ e \in Outboxes!Held(u)' => e \in shared'
      <4> TAKE u \in Worker
      <4>1. CASE u = w
        BY <2>4, <2>6, <3>1, <4>1
      <4>2. CASE u # w
        BY <2>1, <3>1, <4>2 DEF OutboxInv, SharedSeen
      <4> QED
        BY <4>1, <4>2
    <3> QED
      BY <3>2, <3>3
  <2> QED
    BY <2>5, <2>6
<1> QED
  BY <1>11, <1>12, <1>13, <1>14 DEF OutboxInv

LEMMA OutboxKept ==
    ASSUME OutboxInv, Outboxes!Next \/ UNCHANGED outboxVars
    PROVE  OutboxInv'
<1>1. CASE UNCHANGED outboxVars
  <2>1. UNCHANGED <<event, worker, crashes, published, failed, shared>>
    BY <1>1 DEF outboxVars
  <2>2. \A e \in Event : EventHolds(e)' /\ \A x \in Event : event'[x].status \in Closed => event[x].status \in Closed
    BY <2>1 DEF OutboxInv, EventHolds
  <2>3. event' \in [Event -> Outboxes!EventRow \cup {Outboxes!Absent}]
    BY <2>1 DEF OutboxInv, Outboxes!TypeOK
  <2> QED
    BY <2>1, <2>2, <2>3, RowKeeps
<1>2. CASE \E e \in Event : Outboxes!CreateEvent(e) \/ Outboxes!EventDue(e)
  BY <1>2, CreateKeeps
<1>3. CASE \E w \in Worker : Outboxes!WorkerStep(w) \/ Outboxes!DropBatch(w)
  BY <1>3, PollKeeps, QuietTurnKeeps, WriteKeeps DEF Outboxes!WorkerStep
<1> QED
  BY <1>1, <1>2, <1>3 DEF Outboxes!Next

\* What ended and is in the hands of at most one worker is not written.
LEMMA OutboxFinal ==
    ASSUME OutboxInv, Outboxes!Next, NEW e \in Event, event[e].status \in Closed, e \notin shared
    PROVE  event'[e].status = event[e].status
<1>1. event \in [Event -> Outboxes!EventRow \cup {Outboxes!Absent}]
  BY DEF OutboxInv, Outboxes!TypeOK
<1>2. CASE \E x \in Event : Outboxes!CreateEvent(x) \/ Outboxes!EventDue(x)
  BY <1>1, <1>2 DEF Outboxes!CreateEvent, Outboxes!EventDue, Outboxes!Absent, Closed
<1>3. CASE \E w \in Worker : Outboxes!WorkerStep(w) \/ Outboxes!DropBatch(w)
  <2>1. PICK w \in Worker : Outboxes!WorkerStep(w) \/ Outboxes!DropBatch(w)
    BY <1>3
  <2>2. CASE Outboxes!SaveSent(w) \/ Outboxes!MarkFailed(w)
    <3>1. worker[w].batch \in Seq(Outboxes!Copy) /\ worker[w].batch # <<>>
      BY <2>2, WorkerRow DEF OutboxInv, Outboxes!SaveSent, Outboxes!MarkFailed
    <3>2. Outboxes!Current(w).id \in Outboxes!Held(w)
      BY <3>1, TailOf DEF Outboxes!Current, Outboxes!Held
    <3>3. Outboxes!Current(w).id # e
      BY <3>2 DEF OutboxInv, SharedSeen
    <3>4. \E row : event' = [event EXCEPT ![Outboxes!Current(w).id] = row]
      BY <2>2 DEF Outboxes!SaveSent, Outboxes!MarkFailed
    <3> QED
      BY <1>1, <3>3, <3>4
  <2>3. CASE ~(Outboxes!SaveSent(w) \/ Outboxes!MarkFailed(w))
    BY <2>1, <2>3 DEF Outboxes!WorkerStep, Outboxes!PollEvents, Outboxes!PublishEvent,
       Outboxes!SaveFails, Outboxes!DropBatch
  <2> QED
    BY <2>2, <2>3
<1> QED
  BY <1>2, <1>3 DEF Outboxes!Next

-----------------------------------------------------------------------------
(* The line of the webhook deliveries *)

LEMMA RemoveAtIs ==
    ASSUME NEW S, NEW s \in Seq(S), NEW i \in 1 .. Len(s)
    PROVE  /\ Webhooks!RemoveAt(s, i) \in Seq(S)
           /\ DOMAIN Webhooks!RemoveAt(s, i) = 1 .. (Len(s) - 1)
           /\ \A k \in 1 .. (Len(s) - 1) :
                 Webhooks!RemoveAt(s, i)[k] = IF k < i THEN s[k] ELSE s[k + 1]
<1> DEFINE before == SubSeq(s, 1, i - 1)
           after == SubSeq(s, i + 1, Len(s))
<1>1. Len(s) \in Nat /\ i \in Nat /\ 1 <= i /\ i <= Len(s)
  BY LenProperties
<1>2. \A k \in 1 .. Len(s) : s[k] \in S
  BY ElementOfSeq
<1>3. /\ before \in Seq(S) /\ Len(before) = i - 1
      /\ \A k \in 1 .. (i - 1) : before[k] = s[k]
  <2>1. /\ before \in Seq(S) /\ Len(before) = IF 1 <= i - 1 THEN (i - 1) - 1 + 1 ELSE 0
        /\ \A k \in 1 .. ((i - 1) - 1 + 1) : before[k] = s[1 + k - 1]
    BY <1>1, <1>2, SubSeqProperties
  <2> HIDE DEF before
  <2> QED
    BY <1>1, <2>1
<1>4. /\ after \in Seq(S) /\ Len(after) = Len(s) - i
      /\ \A k \in 1 .. (Len(s) - i) : after[k] = s[i + k]
  <2>1. /\ after \in Seq(S) /\ Len(after) = IF i + 1 <= Len(s) THEN Len(s) - (i + 1) + 1 ELSE 0
        /\ \A k \in 1 .. (Len(s) - (i + 1) + 1) : after[k] = s[(i + 1) + k - 1]
    BY <1>1, <1>2, SubSeqProperties
  <2> HIDE DEF after
  <2> QED
    BY <1>1, <2>1
<1>5. Webhooks!RemoveAt(s, i) = before \o after
  BY DEF Webhooks!RemoveAt
<1> HIDE DEF before, after
<1>6. /\ before \o after \in Seq(S) /\ Len(before \o after) = Len(before) + Len(after)
      /\ \A k \in 1 .. Len(before) + Len(after) : (before \o after)[k] =
            IF k <= Len(before) THEN before[k] ELSE after[k - Len(before)]
  BY <1>3, <1>4, ConcatProperties
<1>7. DOMAIN (before \o after) = 1 .. Len(before \o after)
  BY <1>6, LenProperties
<1>8. ASSUME NEW k \in 1 .. (Len(s) - 1)
      PROVE  (before \o after)[k] = IF k < i THEN s[k] ELSE s[k + 1]
  <2>1. CASE k < i
    BY <1>1, <1>3, <1>4, <1>6, <2>1
  <2>2. CASE ~(k < i)
    <3>1. k - (i - 1) \in 1 .. (Len(s) - i) /\ i + (k - (i - 1)) = k + 1
      BY <1>1, <2>2
    <3>2. (before \o after)[k] = after[k - (i - 1)]
      BY <1>1, <1>3, <1>4, <1>6, <2>2
    <3> QED
      BY <1>4, <2>2, <3>1, <3>2
  <2> QED
    BY <2>1, <2>2
<1> QED
  BY <1>1, <1>3, <1>4, <1>5, <1>6, <1>7, <1>8

\* No delivery stands twice in line.
Single(l) == \A i, j \in DOMAIN l : l[i] = l[j] => i = j

\* Who leaves the line is gone from it, the others stand there as before.
LEMMA LeaveLine ==
    ASSUME line \in Seq(Delivery), Single(line), NEW d, Webhooks!Leave(d)
    PROVE  /\ line' \in Seq(Delivery) /\ Single(line')
           /\ \A i \in DOMAIN line' : /\ line'[i] # d
                                      /\ \E j \in DOMAIN line : line'[i] = line[j]
<1>1. CASE ~Webhooks!InLine(d)
  BY <1>1 DEF Webhooks!Leave, Webhooks!InLine
<1>2. CASE Webhooks!InLine(d)
  <2>1. PICK i \in DOMAIN line : line[i] = d /\ line' = Webhooks!RemoveAt(line, i)
    BY <1>2 DEF Webhooks!Leave, Webhooks!InLine
  <2>2. DOMAIN line = 1 .. Len(line) /\ Len(line) \in Nat
    BY LenProperties
  <2>3. /\ line' \in Seq(Delivery) /\ DOMAIN line' = 1 .. (Len(line) - 1)
        /\ \A k \in 1 .. (Len(line) - 1) : line'[k] = IF k < i THEN line[k] ELSE line[k + 1]
    BY <2>1, <2>2, RemoveAtIs
  <2> DEFINE from(k) == IF k < i THEN k ELSE k + 1
  <2>4. \A k \in DOMAIN line' : from(k) \in DOMAIN line /\ from(k) # i /\ line'[k] = line[from(k)]
    BY <2>2, <2>3
  <2>5. \A k, l \in DOMAIN line' : from(k) = from(l) => k = l
    BY <2>2, <2>3
  <2> HIDE DEF from
  <2>6. \A k \in DOMAIN line' : line'[k] # d
    BY <2>1, <2>4 DEF Single
  <2>7. Single(line')
    BY <2>4, <2>5 DEF Single
  <2> QED
    BY <2>3, <2>4, <2>6, <2>7
<1> QED
  BY <1>1, <1>2

\* Who joins the line stands at its end.
LEMMA JoinLine ==
    ASSUME line \in Seq(Delivery), Single(line), NEW d \in Delivery, ~Webhooks!InLine(d),
           line' = Append(line, d)
    PROVE  /\ line' \in Seq(Delivery) /\ Single(line')
           /\ \A i \in DOMAIN line' : line'[i] = d \/ \E j \in DOMAIN line : line'[i] = line[j]
<1>1. /\ DOMAIN line = 1 .. Len(line) /\ Len(line) \in Nat
      /\ line' \in Seq(Delivery) /\ Len(line') = Len(line) + 1
      /\ \A i \in 1 .. Len(line) : line'[i] = line[i]
      /\ line'[Len(line) + 1] = d
  BY LenProperties, AppendProperties
<1>2. DOMAIN line' = 1 .. Len(line) + 1
  BY <1>1, LenProperties
<1>3. \A i \in 1 .. Len(line) : line[i] # d
  BY <1>1 DEF Webhooks!InLine
<1>4. \A i \in DOMAIN line' : i \in DOMAIN line \/ i = Len(line) + 1
  BY <1>1, <1>2
<1> QED
  BY <1>1, <1>3, <1>4 DEF Single

-----------------------------------------------------------------------------
(* The webhook deliveries: the inductive invariant *)

\* A delivery to be made goes by what was tried, and has attempts left.
DeliveryHolds(d) ==
    /\ delivery[d].status \in Webhooks!Ready =>
          delivery[d].attempts < DeliveryAttempts /\ delivery[d].attempts <= tried[d]
    /\ delivery[d].status = "DELIVERED" => d \in accepted
    /\ delivery[d].status = "DEAD" => tried[d] = DeliveryAttempts

\* So does a copy; what a worker is about to record as delivered was accepted.
PosterHolds(p) ==
    /\ \A k \in DOMAIN poster[p].batch :
          /\ poster[p].batch[k].attempts < DeliveryAttempts
          /\ poster[p].batch[k].attempts <= tried[poster[p].batch[k].id]
    /\ poster[p].at = "record" => poster[p].batch[1].id \in accepted
    /\ Distinct(poster[p].batch)

\* Two workers that hold a delivery were seen to, and so was one that holds a delivery
\* another one ended.
RacesSeen ==
    \A p \in Poster : \A d \in Webhooks!Held(p) :
        /\ \A q \in Poster : q # p /\ d \in Webhooks!Held(q) => d \in raced
        /\ delivery[d].status \in Webhooks!Ended => d \in raced

WebhookInv ==
    /\ Webhooks!TypeOK
    /\ \A d \in Delivery : DeliveryHolds(d)
    /\ \A p \in Poster : PosterHolds(p)
    /\ RacesSeen

LEMMA DeliveryNumbers ==
    DeliveryAttempts \in Nat \ {0} /\ BatchLimit \in Nat \ {0} /\ MaxBreaks \in Nat
BY Given DEF Webhooks!NumbersAssumption

LEMMA WebhookInit == ASSUME Webhooks!Init PROVE WebhookInv
<1>1. DOMAIN <<>> = {}
  OBVIOUS
<1>2. Webhooks!TypeOK
  BY <1>1, DeliveryNumbers, EmptySeq DEF Webhooks!Init, Webhooks!TypeOK, Webhooks!Resting
<1>3. \A p \in Poster : poster[p].batch = <<>> /\ poster[p].at = "idle"
  BY DEF Webhooks!Init, Webhooks!Resting
<1>4. \A p \in Poster : PosterHolds(p)
  BY <1>1, <1>3 DEF PosterHolds, Distinct
<1>5. RacesSeen
  BY <1>1, <1>3 DEF RacesSeen, Webhooks!Held
<1>6. \A d \in Delivery : DeliveryHolds(d)
  <2>1. \A d \in Delivery : delivery[d].status = "ABSENT"
    BY DEF Webhooks!Init, Webhooks!Absent
  <2> QED
    BY <2>1 DEF DeliveryHolds, Webhooks!Ready
<1> QED
  BY <1>2, <1>4, <1>5, <1>6 DEF WebhookInv

\* A worker's row, field by field.
LEMMA PosterRow ==
    ASSUME Webhooks!TypeOK, NEW p \in Poster
    PROVE  /\ poster[p].at \in {"idle", "deliver", "record", "retry"}
           /\ poster[p].batch \in Seq(Webhooks!Copy)
           /\ poster[p] = [at |-> poster[p].at, batch |-> poster[p].batch]
           /\ poster[p].at = "idle" <=> poster[p].batch = <<>>
BY DEF Webhooks!TypeOK

LEMMA CallbackFields ==
    ASSUME Webhooks!TypeOK, NEW p \in Poster, NEW k \in DOMAIN poster[p].batch
    PROVE  poster[p].batch[k].id \in Delivery /\ poster[p].batch[k].attempts \in Nat
<1>1. poster[p].batch \in Seq(Webhooks!Copy)
  BY PosterRow
<1>2. k \in 1 .. Len(poster[p].batch)
  BY <1>1, LenProperties
<1>3. poster[p].batch[k] \in Webhooks!Copy
  BY <1>1, <1>2, ElementOfSeq
<1> QED
  BY <1>3 DEF Webhooks!Copy

\* The line: whom it holds is to be delivered, once.
Lined ==
    /\ line \in Seq(Delivery) /\ Single(line)
    /\ \A i \in DOMAIN line : delivery[line[i]].status \in Webhooks!Ready

LEMMA LineOK == Webhooks!TypeOK => Lined
BY DEF Webhooks!TypeOK, Lined, Single, Webhooks!Ready

\* A worker that has a batch goes on with it, or with what remains of it.
PostsOn(p, at, batch) ==
    /\ poster[p].at # "idle"
    /\ batch \in {poster[p].batch, Tail(poster[p].batch), <<>>}
    /\ at \in {"idle", "deliver", "record", "retry"}
    /\ at = "idle" <=> batch = <<>>
    /\ poster' = [poster EXCEPT ![p] = [at |-> at, batch |-> batch]]

LEMMA PosterGoesOn ==
    ASSUME WebhookInv, NEW p \in Poster, NEW at, NEW batch, PostsOn(p, at, batch)
    PROVE  /\ poster' \in [Poster -> [at : {"idle", "deliver", "record", "retry"},
                                      batch : Seq(Webhooks!Copy)]]
           /\ \A q \in Poster : poster'[q].at = "idle" <=> poster'[q].batch = <<>>
           /\ \A q \in Poster \ {p} : poster'[q] = poster[q]
           /\ poster'[p].at = at /\ poster'[p].batch = batch
           /\ \A k \in DOMAIN batch : \E j \in DOMAIN poster[p].batch : batch[k] = poster[p].batch[j]
           /\ Distinct(batch)
<1>1. poster[p].batch \in Seq(Webhooks!Copy) /\ poster[p].batch # <<>> /\ Distinct(poster[p].batch)
  BY PosterRow DEF WebhookInv, PosterHolds, PostsOn
<1>2. batch \in Seq(Webhooks!Copy)
  BY <1>1, TailOf, EmptySeq DEF PostsOn
<1>3. poster' \in [Poster -> [at : {"idle", "deliver", "record", "retry"}, batch : Seq(Webhooks!Copy)]]
  BY <1>2 DEF WebhookInv, Webhooks!TypeOK, PostsOn
<1>4. /\ \A q \in Poster \ {p} : poster'[q] = poster[q]
      /\ poster'[p].at = at /\ poster'[p].batch = batch
  BY DEF WebhookInv, Webhooks!TypeOK, PostsOn
<1>5. \A q \in Poster : poster'[q].at = "idle" <=> poster'[q].batch = <<>>
  <2>1. \A q \in Poster : poster[q].at = "idle" <=> poster[q].batch = <<>>
    BY DEF WebhookInv, Webhooks!TypeOK
  <2> QED
    BY <2>1, <1>4 DEF PostsOn
<1>6. DOMAIN <<>> = {}
  OBVIOUS
<1>7. \A k \in DOMAIN batch : \E j \in DOMAIN poster[p].batch : batch[k] = poster[p].batch[j]
  BY <1>1, <1>6, TailOf DEF PostsOn
<1>8. Distinct(batch)
  <2>1. CASE batch = Tail(poster[p].batch)
    BY <1>1, <2>1, TailDistinct
  <2>2. CASE batch = <<>>
    BY <2>2, <1>6 DEF Distinct
  <2> QED
    BY <1>1, <2>1, <2>2 DEF PostsOn
<1> QED
  BY <1>3, <1>4, <1>5, <1>7, <1>8

\* The same for the whole invariant, if rows and counters are kept in order and only the
\* delivery whose turn it was ends.
LEMMA PostKeeps ==
    ASSUME WebhookInv, NEW p \in Poster, NEW at, NEW batch, PostsOn(p, at, batch),
           at = "record" => batch[1].id \in accepted',
           delivery' \in [Delivery -> Webhooks!DeliveryRow \cup {Webhooks!Absent}],
           Lined', \A d \in Delivery : DeliveryHolds(d)',
           \A d \in Delivery : delivery'[d].status \in Webhooks!Ended =>
               \/ delivery[d].status \in Webhooks!Ended
               \/ d = Head(poster[p].batch).id /\ batch = Tail(poster[p].batch),
           accepted \subseteq accepted', accepted' \subseteq Delivery, raced' = raced,
           tried' \in [Delivery -> 0 .. DeliveryAttempts], \A d \in Delivery : tried[d] <= tried'[d],
           breaks' \in 0 .. MaxBreaks
    PROVE  WebhookInv'
<1>1. /\ poster' \in [Poster -> [at : {"idle", "deliver", "record", "retry"},
                                 batch : Seq(Webhooks!Copy)]]
      /\ \A q \in Poster : poster'[q].at = "idle" <=> poster'[q].batch = <<>>
      /\ \A q \in Poster \ {p} : poster'[q] = poster[q]
      /\ poster'[p].at = at /\ poster'[p].batch = batch
      /\ \A k \in DOMAIN batch : \E j \in DOMAIN poster[p].batch : batch[k] = poster[p].batch[j]
      /\ Distinct(batch)
  BY PosterGoesOn
<1>2. Webhooks!TypeOK'
  <2>1. accepted' \cup raced' \subseteq Delivery
    BY DEF WebhookInv, Webhooks!TypeOK
  <2> QED
    BY <1>1, <2>1 DEF Webhooks!TypeOK, Lined, Single, Webhooks!Ready
<1>3. \A q \in Poster : \A k \in DOMAIN poster[q].batch :
          poster[q].batch[k].id \in Delivery /\ poster[q].batch[k].attempts \in Nat
  BY CallbackFields DEF WebhookInv
<1>4. \A q \in Poster : \A k \in DOMAIN poster'[q].batch :
          \E j \in DOMAIN poster[q].batch : poster'[q].batch[k] = poster[q].batch[j]
  <2> TAKE q \in Poster
  <2>1. CASE q = p
    BY <1>1, <2>1
  <2>2. CASE q # p
    BY <1>1, <2>2
  <2> QED
    BY <2>1, <2>2
<1>5. ASSUME NEW q \in Poster PROVE PosterHolds(q)'
  <2>1. ASSUME NEW k \in DOMAIN poster'[q].batch
        PROVE  /\ poster'[q].batch[k].attempts < DeliveryAttempts
               /\ poster'[q].batch[k].attempts <= tried'[poster'[q].batch[k].id]
    <3>1. PICK j \in DOMAIN poster[q].batch : poster'[q].batch[k] = poster[q].batch[j]
      BY <1>4
    <3> DEFINE copy == poster[q].batch[j]
    <3>2. copy.attempts < DeliveryAttempts /\ copy.attempts <= tried[copy.id]
      BY DEF WebhookInv, PosterHolds
    <3>3. tried[copy.id] \in Int /\ tried'[copy.id] \in Int /\ copy.attempts \in Int
      BY <1>3 DEF WebhookInv, Webhooks!TypeOK
    <3>4. tried[copy.id] <= tried'[copy.id]
      BY <1>3
    <3> QED
      BY <3>1, <3>2, <3>3, <3>4
  <2>2. poster'[q].at = "record" => poster'[q].batch[1].id \in accepted'
    BY <1>1 DEF WebhookInv, PosterHolds
  <2>3. Distinct(poster'[q].batch)
    BY <1>1 DEF WebhookInv, PosterHolds
  <2> QED
    BY <2>1, <2>2, <2>3 DEF PosterHolds, Distinct
<1>6. RacesSeen'
  <2> SUFFICES ASSUME NEW q \in Poster, NEW d \in Webhooks!Held(q)'
               PROVE  /\ \A u \in Poster : u # q /\ d \in Webhooks!Held(u)' => d \in raced
                      /\ delivery'[d].status \in Webhooks!Ended => d \in raced
    BY DEF RacesSeen, Webhooks!Ended
  <2>1. \A u \in Poster : Webhooks!Held(u)' \subseteq Webhooks!Held(u)
    BY <1>4 DEF Webhooks!Held
  <2>2. d \in Delivery
    <3>1. d \in Webhooks!Held(q)
      BY <2>1
    <3>2. PICK k \in DOMAIN poster[q].batch : d = poster[q].batch[k].id
      BY <3>1 DEF Webhooks!Held
    <3> QED
      BY <1>3, <3>2
  <2>3. \A u \in Poster : u # q /\ d \in Webhooks!Held(u)' => d \in raced
    BY <2>1 DEF WebhookInv, RacesSeen
  <2>4. ASSUME delivery'[d].status \in Webhooks!Ended PROVE d \in raced
    <3>1. CASE delivery[d].status \in Webhooks!Ended
      BY <2>1, <3>1 DEF WebhookInv, RacesSeen
    <3>2. CASE d = Head(poster[p].batch).id /\ batch = Tail(poster[p].batch)
      <4>1. poster[p].batch \in Seq(Webhooks!Copy) /\ poster[p].batch # <<>>
        BY PosterRow DEF WebhookInv, PostsOn
      <4>2. d \in Webhooks!Held(p)
        BY <3>2, <4>1, TailOf DEF Webhooks!Held
      <4>3. \A k \in DOMAIN batch : batch[k].id # d
        BY <3>2, <4>1, TailDistinct DEF WebhookInv, PosterHolds
      <4>4. d \notin Webhooks!Held(p)'
        BY <1>1, <4>3 DEF Webhooks!Held
      <4>5. q # p
        BY <4>4
      <4>6. d \in Webhooks!Held(q)
        BY <2>1
      <4> QED
        BY <4>2, <4>5, <4>6 DEF WebhookInv, RacesSeen
    <3> QED
      BY <2>2, <2>4, <3>1, <3>2
  <2> QED
    BY <2>3, <2>4
<1> QED
  BY <1>2, <1>5, <1>6 DEF WebhookInv

-----------------------------------------------------------------------------
(* The webhook deliveries: every step keeps it *)

\* Steps that only write a row or the line, and end none.
LEMMA LineKeeps ==
    ASSUME WebhookInv,
           UNCHANGED <<poster, breaks, accepted, tried, raced>>,
           delivery' \in [Delivery -> Webhooks!DeliveryRow \cup {Webhooks!Absent}],
           Lined', \A d \in Delivery : DeliveryHolds(d)',
           \A d \in Delivery : delivery'[d].status \in Webhooks!Ended => delivery[d].status \in Webhooks!Ended
    PROVE  WebhookInv'
<1>1. Webhooks!TypeOK'
  BY DEF WebhookInv, Webhooks!TypeOK, Lined, Single, Webhooks!Ready
<1>2. \A p \in Poster : PosterHolds(p)'
  BY DEF WebhookInv, PosterHolds
<1>3. RacesSeen'
  <2>1. \A p \in Poster : Webhooks!Held(p) \subseteq Delivery
    BY CallbackFields DEF WebhookInv, Webhooks!Held
  <2>2. \A p \in Poster : Webhooks!Held(p)' = Webhooks!Held(p)
    BY DEF Webhooks!Held
  <2> QED
    BY <2>1, <2>2 DEF RacesSeen, WebhookInv, Webhooks!Ended
<1> QED
  BY <1>1, <1>2, <1>3 DEF WebhookInv

\* A row that is not to be delivered is not in line.
LEMMA NotInLine ==
    ASSUME WebhookInv, NEW d, delivery[d].status \notin Webhooks!Ready
    PROVE  ~Webhooks!InLine(d)
BY LineOK DEF WebhookInv, Lined, Webhooks!InLine

LEMMA EnqueueKeeps ==
    ASSUME WebhookInv, NEW d \in Delivery, Webhooks!Enqueue(d)
    PROVE  WebhookInv'
<1> DEFINE row == [status |-> "PENDING", attempts |-> 0]
<1>1. /\ delivery[d].status = "ABSENT" /\ delivery' = [delivery EXCEPT ![d] = row]
      /\ line' = Append(line, d)
      /\ UNCHANGED <<poster, breaks, accepted, tried, raced>>
  BY DEF Webhooks!Enqueue, Webhooks!Absent
<1>2. row \in Webhooks!DeliveryRow
  BY DeliveryNumbers DEF Webhooks!DeliveryRow, Webhooks!Ready, Webhooks!Ended
<1>3. row.status = "PENDING" /\ row.attempts = 0
  OBVIOUS
<1> HIDE DEF row
<1>4. \A x \in Delivery : delivery'[x] = IF x = d THEN row ELSE delivery[x]
  BY <1>1 DEF WebhookInv, Webhooks!TypeOK
<1>5. delivery' \in [Delivery -> Webhooks!DeliveryRow \cup {Webhooks!Absent}]
  BY <1>1, <1>2 DEF WebhookInv, Webhooks!TypeOK
<1>6. ~Webhooks!InLine(d)
  BY <1>1, NotInLine DEF Webhooks!Ready
<1>7. Lined
  BY LineOK DEF WebhookInv
<1>8. /\ line' \in Seq(Delivery) /\ Single(line')
      /\ \A i \in DOMAIN line' : line'[i] = d \/ \E j \in DOMAIN line : line'[i] = line[j]
  BY <1>1, <1>6, <1>7, JoinLine DEF Lined
<1>9. Lined'
  <2>1. \A j \in DOMAIN line : line[j] \in Delivery
    BY <1>7, LenProperties, ElementOfSeq DEF Lined
  <2>2. ASSUME NEW i \in DOMAIN line' PROVE delivery'[line'[i]].status \in Webhooks!Ready
    BY <1>3, <1>4, <1>7, <1>8, <2>1 DEF Lined, Webhooks!Ready
  <2> QED
    BY <1>8, <2>2 DEF Lined, Single, Webhooks!Ready
<1>10. \A x \in Delivery : DeliveryHolds(x)'
  <2>1. tried[d] \in 0 .. DeliveryAttempts
    BY DEF WebhookInv, Webhooks!TypeOK
  <2>2. 0 < DeliveryAttempts /\ 0 <= tried[d]
    BY <2>1, DeliveryNumbers
  <2> QED
    BY <1>1, <1>3, <1>4, <2>2 DEF WebhookInv, DeliveryHolds, Webhooks!Ready
<1>11. \A x \in Delivery : delivery'[x].status \in Webhooks!Ended => delivery[x].status \in Webhooks!Ended
  BY <1>3, <1>4 DEF Webhooks!Ended
<1> QED
  BY <1>1, <1>5, <1>9, <1>10, <1>11, LineKeeps

LEMMA DueKeeps ==
    ASSUME WebhookInv, NEW d \in Delivery, Webhooks!DeliveryDue(d)
    PROVE  WebhookInv'
<1>1. /\ delivery[d].status \in Webhooks!Ready /\ ~Webhooks!InLine(d) /\ line' = Append(line, d)
      /\ UNCHANGED <<delivery, poster, breaks, accepted, tried, raced>>
  BY DEF Webhooks!DeliveryDue, Webhooks!Status
<1>2. Lined
  BY LineOK DEF WebhookInv
<1>3. /\ line' \in Seq(Delivery) /\ Single(line')
      /\ \A i \in DOMAIN line' : line'[i] = d \/ \E j \in DOMAIN line : line'[i] = line[j]
  BY <1>1, <1>2, JoinLine DEF Lined
<1>4. Lined'
  BY <1>1, <1>2, <1>3 DEF Lined, Single, Webhooks!Ready
<1>5. \A x \in Delivery : DeliveryHolds(x)'
  BY <1>1 DEF WebhookInv, DeliveryHolds
<1>6. delivery' \in [Delivery -> Webhooks!DeliveryRow \cup {Webhooks!Absent}]
  BY <1>1 DEF WebhookInv, Webhooks!TypeOK
<1> QED
  BY <1>1, <1>4, <1>5, <1>6, LineKeeps

LEMMA ProceedPostsOn ==
    ASSUME WebhookInv, NEW p \in Poster, poster[p].at # "idle",
           NEW at \in {"deliver", "record", "retry"}, Webhooks!Proceed(p, at)
    PROVE  PostsOn(p, at, poster[p].batch)
<1>1. poster[p] = [at |-> poster[p].at, batch |-> poster[p].batch] /\ poster[p].batch # <<>>
  BY PosterRow DEF WebhookInv
<1>2. [poster[p] EXCEPT !.at = at] = [at |-> at, batch |-> poster[p].batch]
  BY <1>1
<1>3. poster' = [poster EXCEPT ![p] = [at |-> at, batch |-> poster[p].batch]]
  BY <1>2 DEF Webhooks!Proceed
<1> QED
  BY <1>1, <1>3 DEF PostsOn

LEMMA NextPostsOn ==
    ASSUME WebhookInv, NEW p \in Poster, poster[p].at # "idle", Webhooks!NextOf(p)
    PROVE  \E at \in {"idle", "deliver"} : PostsOn(p, at, Tail(poster[p].batch))
<1>1. CASE Tail(poster[p].batch) = <<>>
  BY <1>1 DEF PostsOn, Webhooks!NextOf
<1>2. CASE Tail(poster[p].batch) # <<>>
  BY <1>2 DEF PostsOn, Webhooks!NextOf
<1> QED
  BY <1>1, <1>2

\* Steps of a worker that write no row.
LEMMA QuietPostKeeps ==
    ASSUME WebhookInv, NEW p \in Poster,
           \/ Webhooks!Deliver(p) \/ Webhooks!DecryptFails(p)
           \/ Webhooks!RecordFails(p) \/ Webhooks!DropDeliveries(p)
    PROVE  WebhookInv'
<1>1. UNCHANGED <<delivery, line, tried, raced>> /\ poster[p].at # "idle"
  BY DEF Webhooks!Deliver, Webhooks!DecryptFails, Webhooks!RecordFails, Webhooks!DropDeliveries
<1>2. poster[p].batch \in Seq(Webhooks!Copy) /\ poster[p].batch # <<>>
  BY <1>1, PosterRow DEF WebhookInv
<1>3. Webhooks!Current(p) = poster[p].batch[1] /\ Webhooks!Current(p).id \in Delivery
  BY <1>2, TailOf, CallbackFields DEF WebhookInv, Webhooks!Current
<1>4. /\ accepted \subseteq accepted' /\ accepted' \subseteq Delivery
      /\ breaks' \in 0 .. MaxBreaks
  <2>1. accepted \subseteq Delivery /\ breaks \in 0 .. MaxBreaks
    BY DEF WebhookInv, Webhooks!TypeOK
  <2>2. CASE Webhooks!Deliver(p)
    <3>1. accepted' \in {accepted, accepted \cup {Webhooks!Current(p).id}} /\ breaks' = breaks
      BY <2>2 DEF Webhooks!Deliver
    <3> QED
      BY <1>3, <2>1, <3>1
  <2>3. CASE Webhooks!DecryptFails(p) \/ Webhooks!RecordFails(p)
    BY <2>1, <2>3 DEF Webhooks!DecryptFails, Webhooks!RecordFails
  <2>4. CASE Webhooks!DropDeliveries(p)
    BY <2>1, <2>4, DeliveryNumbers DEF Webhooks!DropDeliveries
  <2> QED
    BY <2>2, <2>3, <2>4
<1>5. \E at \in {"idle", "deliver", "record", "retry"}, batch \in {poster[p].batch, <<>>} :
         /\ PostsOn(p, at, batch)
         /\ at = "record" => batch[1].id \in accepted'
  <2>1. CASE Webhooks!Deliver(p)
    <3>1. PICK at \in {"record", "retry"} :
             /\ Webhooks!Proceed(p, at)
             /\ at = "record" => Webhooks!Current(p).id \in accepted'
      BY <2>1 DEF Webhooks!Deliver
    <3>2. PostsOn(p, at, poster[p].batch)
      BY <1>1, <3>1, ProceedPostsOn
    <3> QED
      BY <1>3, <3>1, <3>2
  <2>2. CASE Webhooks!RecordFails(p)
    <3>1. PostsOn(p, "retry", poster[p].batch)
      BY <1>1, <2>2, ProceedPostsOn DEF Webhooks!RecordFails
    <3> QED
      BY <3>1
  <2>3. CASE Webhooks!DecryptFails(p) \/ Webhooks!DropDeliveries(p)
    <3>1. PostsOn(p, "idle", <<>>)
      BY <1>1, <2>3 DEF Webhooks!DecryptFails, Webhooks!DropDeliveries, Webhooks!Resting, PostsOn
    <3> QED
      BY <3>1
  <2> QED
    BY <2>1, <2>2, <2>3
<1>6. PICK at \in {"idle", "deliver", "record", "retry"}, batch \in {poster[p].batch, <<>>} :
         /\ PostsOn(p, at, batch)
         /\ at = "record" => batch[1].id \in accepted'
  BY <1>5
<1>7. \A d \in Delivery : DeliveryHolds(d)'
  BY <1>1, <1>4 DEF WebhookInv, DeliveryHolds
<1>8. Lined'
  <2>1. Lined
    BY LineOK DEF WebhookInv
  <2> QED
    BY <1>1, <2>1 DEF Lined, Single, Webhooks!Ready
<1>9. /\ delivery' \in [Delivery -> Webhooks!DeliveryRow \cup {Webhooks!Absent}]
      /\ tried' \in [Delivery -> 0 .. DeliveryAttempts]
      /\ \A d \in Delivery : tried[d] <= tried'[d]
  BY <1>1, DeliveryNumbers DEF WebhookInv, Webhooks!TypeOK
<1> QED
  BY <1>1, <1>4, <1>6, <1>7, <1>8, <1>9, PostKeeps

\* Steps of a worker that end its turn with one delivery: it leaves the line.
LEMMA AnswerKeeps ==
    ASSUME WebhookInv, NEW p \in Poster, Webhooks!Record(p) \/ Webhooks!MarkForRetry(p)
    PROVE  WebhookInv'
<1> DEFINE batch == poster[p].batch
           copy == Webhooks!Current(p)
<1>1. poster[p].at \in {"record", "retry"} /\ batch \in Seq(Webhooks!Copy) /\ batch # <<>>
  BY PosterRow DEF WebhookInv, Webhooks!Record, Webhooks!MarkForRetry
<1>2. copy = batch[1] /\ copy = Head(batch) /\ 1 \in DOMAIN batch
  BY <1>1, TailOf DEF Webhooks!Current
<1> HIDE DEF copy
<1>3. copy.id \in Delivery /\ copy.attempts \in Nat
  BY <1>2, CallbackFields DEF WebhookInv
<1>4. PICK id \in Delivery : id = copy.id
  BY <1>3
<1>5. /\ copy.attempts < DeliveryAttempts /\ copy.attempts <= tried[id]
      /\ tried[id] \in 0 .. DeliveryAttempts
  BY <1>2, <1>4 DEF WebhookInv, PosterHolds, Webhooks!TypeOK
<1>6. PICK at \in {"idle", "deliver"} : PostsOn(p, at, Tail(batch))
  BY <1>1, NextPostsOn DEF Webhooks!Record, Webhooks!MarkForRetry
<1>7. /\ accepted' = accepted /\ raced' = raced /\ breaks' = breaks
      /\ delivery' = [delivery EXCEPT ![id] = delivery'[id]]
      /\ delivery'[id] \in Webhooks!DeliveryRow
      /\ tried' = [tried EXCEPT ![id] = tried'[id]]
      /\ tried'[id] \in 0 .. DeliveryAttempts /\ tried[id] <= tried'[id]
      /\ DeliveryHolds(id)'
      /\ Webhooks!Leave(id)
  <2>1. CASE Webhooks!Record(p)
    <3> DEFINE row == [status |-> "DELIVERED", attempts |-> copy.attempts + 1]
    <3>1. delivery' = [delivery EXCEPT ![id] = row] /\ Webhooks!Leave(id)
      BY <1>4, <2>1 DEF Webhooks!Record, copy
    <3>2. delivery'[id] = row
      BY <3>1 DEF WebhookInv, Webhooks!TypeOK
    <3>3. UNCHANGED <<breaks, accepted, tried, raced>>
      BY <2>1 DEF Webhooks!Record
    <3>4. row.attempts \in 0 .. DeliveryAttempts /\ row.status = "DELIVERED"
      BY <1>3, <1>5, DeliveryNumbers
    <3>5. row \in Webhooks!DeliveryRow
      BY <3>4 DEF Webhooks!DeliveryRow, Webhooks!Ended
    <3>6. id \in accepted
      BY <1>2, <1>4, <2>1 DEF WebhookInv, PosterHolds, Webhooks!Record
    <3> HIDE DEF row
    <3>7. DeliveryHolds(id)'
      BY <3>2, <3>3, <3>4, <3>6 DEF DeliveryHolds, Webhooks!Ready
    <3>8. tried = [tried EXCEPT ![id] = tried[id]]
      BY DEF WebhookInv, Webhooks!TypeOK
    <3>9. tried[id] <= tried[id]
      BY <1>5, DeliveryNumbers
    <3>10. /\ delivery' = [delivery EXCEPT ![id] = delivery'[id]]
           /\ tried' = [tried EXCEPT ![id] = tried'[id]]
      BY <3>1, <3>2, <3>3, <3>8
    <3>11. tried'[id] \in 0 .. DeliveryAttempts /\ tried[id] <= tried'[id]
      BY <1>5, <3>3, <3>9
    <3> QED
      BY <3>1, <3>2, <3>3, <3>5, <3>7, <3>10, <3>11
  <2>2. CASE Webhooks!MarkForRetry(p)
    <3> DEFINE attempts == copy.attempts + 1
               dead == Webhooks!IsDeadLetter(attempts, DeliveryAttempts)
               row == [status |-> IF dead THEN "DEAD" ELSE "FAILED", attempts |-> attempts]
    <3>1. delivery' = [delivery EXCEPT ![id] = row] /\ Webhooks!Leave(id)
      BY <1>4, <2>2 DEF Webhooks!MarkForRetry, copy
    <3>2. delivery'[id] = row
      BY <3>1 DEF WebhookInv, Webhooks!TypeOK
    <3>3. tried' = [tried EXCEPT ![id] = IF @ < DeliveryAttempts THEN @ + 1 ELSE @]
      BY <1>4, <2>2 DEF Webhooks!MarkForRetry, copy
    <3>4. tried'[id] = IF tried[id] < DeliveryAttempts THEN tried[id] + 1 ELSE tried[id]
      BY <3>3 DEF WebhookInv, Webhooks!TypeOK
    <3>5. attempts \in 1 .. DeliveryAttempts /\ attempts <= tried'[id]
      BY <1>3, <1>5, <3>4, DeliveryNumbers
    <3>6. dead <=> attempts = DeliveryAttempts
      BY <3>5, DeliveryNumbers DEF Webhooks!IsDeadLetter
    <3>7. tried'[id] \in 0 .. DeliveryAttempts /\ tried[id] <= tried'[id]
      BY <1>5, <3>4, DeliveryNumbers
    <3>8. row.status = (IF dead THEN "DEAD" ELSE "FAILED") /\ row.attempts = attempts
      OBVIOUS
    <3>9. row \in Webhooks!DeliveryRow
      BY <3>5, <3>8 DEF Webhooks!DeliveryRow, Webhooks!Ready, Webhooks!Ended
    <3>10. DeliveryHolds(id)'
      BY <3>2, <3>5, <3>6, <3>7, DeliveryNumbers DEF DeliveryHolds, Webhooks!Ready
    <3>11. UNCHANGED <<breaks, accepted, raced>>
      BY <2>2 DEF Webhooks!MarkForRetry
    <3> HIDE DEF row
    <3> QED
      BY <3>1, <3>2, <3>3, <3>4, <3>7, <3>9, <3>10, <3>11
  <2> QED
    BY <2>1, <2>2
<1>8. \A d \in Delivery : /\ delivery'[d] = IF d = id THEN delivery'[id] ELSE delivery[d]
                          /\ tried'[d] = IF d = id THEN tried'[id] ELSE tried[d]
  BY <1>7 DEF WebhookInv, Webhooks!TypeOK
<1>9. /\ delivery' \in [Delivery -> Webhooks!DeliveryRow \cup {Webhooks!Absent}]
      /\ tried' \in [Delivery -> 0 .. DeliveryAttempts]
  BY <1>7 DEF WebhookInv, Webhooks!TypeOK
<1>10. \A d \in Delivery : tried[d] <= tried'[d]
  <2>1. \A d \in Delivery : tried[d] \in Int /\ tried[d] <= tried[d]
    BY DeliveryNumbers DEF WebhookInv, Webhooks!TypeOK
  <2> QED
    BY <1>7, <1>8, <2>1
<1>11. \A d \in Delivery : DeliveryHolds(d)'
  BY <1>7, <1>8 DEF WebhookInv, DeliveryHolds
<1>12. \A d \in Delivery : delivery'[d].status \in Webhooks!Ended =>
          delivery[d].status \in Webhooks!Ended \/ d = Head(batch).id
  BY <1>2, <1>4, <1>8
<1>13. Lined'
  <2>1. Lined
    BY LineOK DEF WebhookInv
  <2>2. /\ line' \in Seq(Delivery) /\ Single(line')
        /\ \A i \in DOMAIN line' : /\ line'[i] # id
                                   /\ \E j \in DOMAIN line : line'[i] = line[j]
    BY <1>7, <2>1, LeaveLine DEF Lined
  <2>3. \A j \in DOMAIN line : line[j] \in Delivery
    BY <2>1, LenProperties, ElementOfSeq DEF Lined
  <2>4. ASSUME NEW i \in DOMAIN line' PROVE delivery'[line'[i]].status \in Webhooks!Ready
    BY <1>8, <2>1, <2>2, <2>3 DEF Lined
  <2> QED
    BY <2>2, <2>4 DEF Lined, Single, Webhooks!Ready
<1>14. accepted' \subseteq Delivery /\ breaks' \in 0 .. MaxBreaks
  BY <1>7 DEF WebhookInv, Webhooks!TypeOK
<1> QED
  BY <1>6, <1>7, <1>9, <1>10, <1>11, <1>12, <1>13, <1>14, PostKeeps

\* A worker takes copies of the first rows of the line, and who holds one of them is seen.
LEMMA TakeKeeps ==
    ASSUME WebhookInv, NEW p \in Poster, Webhooks!PollDeliveries(p)
    PROVE  WebhookInv'
<1>1. PICK n : n = IF BatchLimit < Len(line) THEN BatchLimit ELSE Len(line)
  OBVIOUS
<1> DEFINE batch == [k \in 1 .. n |-> Webhooks!CopyOf(line[k])]
<1>2. /\ poster' = [poster EXCEPT ![p] = [at |-> "deliver", batch |-> batch]]
      /\ raced' = raced \cup {d \in Delivery : /\ \E k \in 1 .. n : line[k] = d
                                               /\ \E q \in Poster \ {p} : d \in Webhooks!Held(q)}
      /\ UNCHANGED <<delivery, line, breaks, accepted, tried>>
      /\ line # <<>>
  BY <1>1 DEF Webhooks!PollDeliveries
<1>3. /\ Lined /\ DOMAIN line = 1 .. Len(line) /\ Len(line) \in Nat \ {0}
      /\ \A k \in DOMAIN line : line[k] \in Delivery
  BY <1>2, LineOK, LenProperties, EmptySeq, ElementOfSeq DEF WebhookInv, Lined
<1>4. n \in Nat /\ 1 \in 1 .. n /\ 1 .. n \subseteq DOMAIN line
  <2>1. n \in Nat /\ 1 <= n /\ n <= Len(line)
    <3>1. BatchLimit \in Int /\ Len(line) \in Int /\ 1 <= BatchLimit /\ 1 <= Len(line)
      BY <1>3, DeliveryNumbers
    <3>2. (n = BatchLimit /\ BatchLimit < Len(line)) \/ n = Len(line)
      BY <1>1
    <3>3. n \in Int
      BY <3>1, <3>2
    <3> QED
      BY <3>1, <3>2, <3>3
  <2>2. \A k \in 1 .. n : k \in 1 .. Len(line)
    BY <1>3, <2>1
  <2> QED
    BY <1>3, <2>1, <2>2
<1>5. ASSUME NEW k \in 1 .. n
      PROVE  /\ batch[k] \in Webhooks!Copy /\ batch[k].id = line[k]
             /\ batch[k].attempts < DeliveryAttempts /\ batch[k].attempts <= tried[batch[k].id]
  <2>1. line[k] \in Delivery /\ delivery[line[k]].status \in Webhooks!Ready
    BY <1>3, <1>4 DEF Lined
  <2>2. delivery[line[k]] \in Webhooks!DeliveryRow
    BY <2>1 DEF WebhookInv, Webhooks!TypeOK, Webhooks!Absent, Webhooks!Ready
  <2>3. batch[k] = [id |-> line[k], attempts |-> delivery[line[k]].attempts]
    BY DEF Webhooks!CopyOf
  <2>4. delivery[line[k]].attempts \in Nat
    BY <2>2, DeliveryNumbers DEF Webhooks!DeliveryRow
  <2>5. batch[k] \in Webhooks!Copy
    BY <2>1, <2>3, <2>4 DEF Webhooks!Copy
  <2>6. /\ delivery[line[k]].attempts < DeliveryAttempts
        /\ delivery[line[k]].attempts <= tried[line[k]]
    BY <2>1 DEF WebhookInv, DeliveryHolds
  <2>7. batch[k].id = line[k] /\ batch[k].attempts = delivery[line[k]].attempts
    BY <2>3
  <2> HIDE DEF batch
  <2> QED
    BY <2>5, <2>6, <2>7
<1>6. DOMAIN batch = 1 .. n
  OBVIOUS
<1>7. batch \in Seq(Webhooks!Copy) /\ batch # <<>>
  <2>1. batch \in [1 .. n -> Webhooks!Copy]
    BY <1>5
  <2>2. DOMAIN <<>> = {}
    OBVIOUS
  <2>3. batch # <<>>
    BY <1>4, <1>6, <2>2
  <2> HIDE DEF batch
  <2> QED
    BY <1>4, <2>1, <2>3
<1>8. Distinct(batch)
  BY <1>3, <1>4, <1>5, <1>6 DEF Distinct, Lined, Single
<1> HIDE DEF batch
<1>9. /\ poster' \in [Poster -> [at : {"idle", "deliver", "record", "retry"},
                                 batch : Seq(Webhooks!Copy)]]
      /\ \A q \in Poster \ {p} : poster'[q] = poster[q]
      /\ poster'[p].at = "deliver" /\ poster'[p].batch = batch
  BY <1>2, <1>7 DEF WebhookInv, Webhooks!TypeOK
<1>10. Lined'
  BY <1>2, <1>3 DEF Lined, Single, Webhooks!Ready
<1>11. Webhooks!TypeOK'
  <2>1. \A q \in Poster : poster'[q].at = "idle" <=> poster'[q].batch = <<>>
    BY <1>7, <1>9 DEF WebhookInv, Webhooks!TypeOK
  <2>2. raced' \subseteq Delivery
    BY <1>2 DEF WebhookInv, Webhooks!TypeOK
  <2> QED
    BY <1>2, <1>9, <1>10, <2>1, <2>2 DEF WebhookInv, Webhooks!TypeOK, Lined, Single, Webhooks!Ready
<1>12. \A d \in Delivery : DeliveryHolds(d)'
  BY <1>2 DEF WebhookInv, DeliveryHolds
<1>13. ASSUME NEW q \in Poster PROVE PosterHolds(q)'
  <2>1. CASE q = p
    <3>1. \A k \in DOMAIN batch : /\ batch[k].attempts < DeliveryAttempts
                                  /\ batch[k].attempts <= tried'[batch[k].id]
      BY <1>2, <1>5, <1>6
    <3> QED
      BY <1>8, <1>9, <2>1, <3>1 DEF PosterHolds, Distinct
  <2>2. CASE q # p
    BY <1>2, <1>9, <2>2 DEF WebhookInv, PosterHolds, Distinct
  <2> QED
    BY <2>1, <2>2
<1>14. RacesSeen'
  <2>1. \A q \in Poster \ {p} : Webhooks!Held(q)' = Webhooks!Held(q)
    BY <1>9 DEF Webhooks!Held
  <2>2. \A d \in Webhooks!Held(p)' : \E k \in 1 .. n : line[k] = d
    BY <1>5, <1>6, <1>9 DEF Webhooks!Held
  <2>3. \A d \in Webhooks!Held(p)' : d \in Delivery /\ delivery[d].status \in Webhooks!Ready
    BY <1>3, <1>4, <2>2 DEF Lined
  <2>4. \A d \in Webhooks!Held(p)', q \in Poster \ {p} : d \in Webhooks!Held(q) => d \in raced'
    BY <1>2, <2>2, <2>3
  <2> SUFFICES ASSUME NEW q \in Poster, NEW d \in Webhooks!Held(q)'
               PROVE  /\ \A u \in Poster : u # q /\ d \in Webhooks!Held(u)' => d \in raced'
                      /\ delivery'[d].status \in Webhooks!Ended => d \in raced'
    BY DEF RacesSeen, Webhooks!Ended
  <2>5. CASE q = p
    BY <1>2, <2>1, <2>3, <2>4, <2>5 DEF Webhooks!Ended, Webhooks!Ready
  <2>6. CASE q # p
    <3>1. d \in Webhooks!Held(q) /\ raced \subseteq raced'
      BY <1>2, <2>1, <2>6
    <3>2. delivery'[d].status \in Webhooks!Ended => d \in raced'
      BY <1>2, <3>1 DEF WebhookInv, RacesSeen
    <3>3. \A u \in Poster : u # q /\ d \in Webhooks!Held(u)' => d \in raced'
      <4> TAKE u \in Poster
      <4>1. CASE u = p
        BY <2>4, <2>6, <3>1, <4>1
      <4>2. CASE u # p
        BY <2>1, <3>1, <4>2 DEF WebhookInv, RacesSeen
      <4> QED
        BY <4>1, <4>2
    <3> QED
      BY <3>2, <3>3
  <2> QED
    BY <2>5, <2>6
<1> QED
  BY <1>11, <1>12, <1>13, <1>14 DEF WebhookInv

LEMMA WebhookKept ==
    ASSUME WebhookInv, Webhooks!Next \/ UNCHANGED webhookVars
    PROVE  WebhookInv'
<1>1. CASE UNCHANGED webhookVars
  <2>1. UNCHANGED <<delivery, line, poster, breaks, accepted, tried, raced>>
    BY <1>1 DEF webhookVars
  <2>2. \A d \in Delivery : DeliveryHolds(d)' /\ delivery'[d].status = delivery[d].status
    BY <2>1 DEF WebhookInv, DeliveryHolds
  <2>3. delivery' \in [Delivery -> Webhooks!DeliveryRow \cup {Webhooks!Absent}]
    BY <2>1 DEF WebhookInv, Webhooks!TypeOK
  <2>4. Lined'
    <3>1. Lined
      BY LineOK DEF WebhookInv
    <3> QED
      BY <2>1, <3>1 DEF Lined, Single, Webhooks!Ready
  <2> QED
    BY <2>1, <2>2, <2>3, <2>4, LineKeeps
<1>2. CASE \E d \in Delivery : Webhooks!Enqueue(d) \/ Webhooks!DeliveryDue(d)
  BY <1>2, EnqueueKeeps, DueKeeps
<1>3. CASE \E p \in Poster : Webhooks!PosterStep(p) \/ Webhooks!DropDeliveries(p)
  BY <1>3, TakeKeeps, QuietPostKeeps, AnswerKeeps DEF Webhooks!PosterStep
<1> QED
  BY <1>1, <1>2, <1>3 DEF Webhooks!Next

\* What ended and is in the hands of at most one worker is not written.
LEMMA WebhookFinal ==
    ASSUME WebhookInv, Webhooks!Next, NEW d \in Delivery,
           delivery[d].status \in Webhooks!Ended, d \notin raced
    PROVE  delivery'[d].status = delivery[d].status
<1>1. delivery \in [Delivery -> Webhooks!DeliveryRow \cup {Webhooks!Absent}]
  BY DEF WebhookInv, Webhooks!TypeOK
<1>2. CASE \E x \in Delivery : Webhooks!Enqueue(x) \/ Webhooks!DeliveryDue(x)
  BY <1>1, <1>2 DEF Webhooks!Enqueue, Webhooks!DeliveryDue, Webhooks!Absent, Webhooks!Ended
<1>3. CASE \E p \in Poster : Webhooks!PosterStep(p) \/ Webhooks!DropDeliveries(p)
  <2>1. PICK p \in Poster : Webhooks!PosterStep(p) \/ Webhooks!DropDeliveries(p)
    BY <1>3
  <2>2. CASE Webhooks!Record(p) \/ Webhooks!MarkForRetry(p)
    <3>1. poster[p].batch \in Seq(Webhooks!Copy) /\ poster[p].batch # <<>>
      BY <2>2, PosterRow DEF WebhookInv, Webhooks!Record, Webhooks!MarkForRetry
    <3>2. Webhooks!Current(p).id \in Webhooks!Held(p)
      BY <3>1, TailOf DEF Webhooks!Current, Webhooks!Held
    <3>3. Webhooks!Current(p).id # d
      BY <3>2 DEF WebhookInv, RacesSeen
    <3>4. \E row : delivery' = [delivery EXCEPT ![Webhooks!Current(p).id] = row]
      BY <2>2 DEF Webhooks!Record, Webhooks!MarkForRetry
    <3> QED
      BY <1>1, <3>3, <3>4
  <2>3. CASE ~(Webhooks!Record(p) \/ Webhooks!MarkForRetry(p))
    BY <2>1, <2>3 DEF Webhooks!PosterStep, Webhooks!PollDeliveries, Webhooks!Deliver,
       Webhooks!DecryptFails, Webhooks!RecordFails, Webhooks!DropDeliveries
  <2> QED
    BY <2>2, <2>3
<1> QED
  BY <1>2, <1>3 DEF Webhooks!Next

-----------------------------------------------------------------------------
(* Idempotency keys: the phases of a key that nothing has raced *)

KeyTypes ==
    /\ entry \in [Key -> {"nothing", "in flight", "stored"}]
    /\ call \in [KeyedRequest -> [at : {"idle"}] \cup [at : {"mark", "handler", "answered"}, key : Key]]
    /\ late \subseteq [key : Key, by : KeyedRequest, value : {"nothing", "stored"}]
    /\ ran \subseteq KeyedRequest /\ overlapped \subseteq Key
    /\ \A r \in ran : call[r].at = "answered"

Runs(r, k) == call[r].at \in {"mark", "handler"} /\ call[r].key = k
NoneRan(k) == \A r \in ran : call[r].key # k
OnlyRan(r, k) == r \in ran /\ call[r].key = k /\ \A q \in ran : call[q].key = k => q = r
NoneRuns(k) == \A r \in KeyedRequest : ~Runs(r, k)
NothingLate(k) == \A w \in late : w.key # k

\* Nobody has run, and at most one request is about to mark the key.
Unused(k) ==
    /\ entry[k] = "nothing" /\ NothingLate(k) /\ NoneRan(k)
    /\ \A r, q \in KeyedRequest : Runs(r, k) /\ Runs(q, k) => r = q
    /\ \A r \in KeyedRequest : Runs(r, k) => call[r].at = "mark"

\* One request has marked the key and runs.
Taken(k) ==
    /\ entry[k] = "in flight" /\ NothingLate(k) /\ NoneRan(k)
    /\ \E r \in KeyedRequest :
          /\ Runs(r, k) /\ call[r].at = "handler"
          /\ \A q \in KeyedRequest : Runs(q, k) => q = r

\* It has answered, and what it writes is under way.
Answered(k) ==
    /\ entry[k] = "in flight" /\ NoneRuns(k)
    /\ \E w \in late :
          /\ w.key = k /\ \A v \in late : v.key = k => v = w
          /\ w.value = "stored" => OnlyRan(w.by, k)
          /\ w.value = "nothing" => NoneRan(k)

\* Its answer is kept.
Kept(k) ==
    /\ entry[k] = "stored" /\ NoneRuns(k) /\ NothingLate(k)
    /\ \E r \in ran : OnlyRan(r, k)

Phased(k) == Unused(k) \/ Taken(k) \/ Answered(k) \/ Kept(k)

KeysInv == KeyTypes /\ \A k \in Key \ overlapped : Phased(k)

LEMMA KeysStart == ASSUME Keys!Init PROVE KeysInv
BY DEF Keys!Init, Keys!Nothing, KeysInv, KeyTypes, Phased, Unused, NothingLate, NoneRan, Runs

\* A step that leaves what is known of a key alone leaves its phase.
LEMMA PhaseStays ==
    ASSUME KeyTypes, NEW k \in Key, Phased(k), entry'[k] = entry[k],
           \A w : w.key = k => (w \in late' <=> w \in late),
           \A r \in KeyedRequest : r \in ran' /\ call'[r].key = k <=> r \in ran /\ call[r].key = k,
           ran' \subseteq KeyedRequest,
           \A r \in KeyedRequest : /\ Runs(r, k)' <=> Runs(r, k)
                                   /\ Runs(r, k) => call'[r].at = call[r].at
    PROVE  Phased(k)'
<1>1. NothingLate(k) => NothingLate(k)'
  BY DEF NothingLate
<1>2. NoneRan(k) => NoneRan(k)'
  BY DEF NoneRan, KeyTypes
<1>3. NoneRuns(k) => NoneRuns(k)'
  BY DEF NoneRuns
<1>4. \A r : OnlyRan(r, k) => OnlyRan(r, k)'
  BY DEF OnlyRan, KeyTypes
<1>5. CASE Unused(k)
  BY <1>1, <1>2, <1>5 DEF Unused, Phased
<1>6. CASE Taken(k)
  BY <1>1, <1>2, <1>6 DEF Taken, Phased
<1>7. CASE Answered(k)
  BY <1>2, <1>3, <1>4, <1>7 DEF Answered, Phased
<1>8. CASE Kept(k)
  BY <1>1, <1>3, <1>4, <1>8 DEF Kept, Phased, OnlyRan
<1> QED
  BY <1>5, <1>6, <1>7, <1>8 DEF Phased
\* A request checks a key: it is answered at once, or goes on if nothing is there.
LEMMA CheckKeeps ==
    ASSUME KeysInv, NEW r \in KeyedRequest, NEW c \in Key, Keys!Check(r, c)
    PROVE  KeysInv'
<1> DEFINE at == IF entry[c] \in {"in flight", "stored"} THEN "answered" ELSE "mark"
<1> USE DEF Keys!Nothing, Keys!InFlight, Keys!Stored
<1>1. /\ call[r].at = "idle"
      /\ call' = [call EXCEPT ![r] = [at |-> at, key |-> c]]
      /\ entry' = entry /\ late' = late /\ ran' = ran
  BY DEF Keys!Check, Keys!At, Keys!Conflicts
<1>2. /\ call'[r] = [at |-> at, key |-> c] /\ at \in {"mark", "answered"}
      /\ \A q \in KeyedRequest : q # r => call'[q] = call[q]
  BY <1>1 DEF KeysInv, KeyTypes
<1>3. overlapped \subseteq overlapped' /\ overlapped' \subseteq Key
  BY DEF Keys!Check, KeysInv, KeyTypes
<1>4. entry[c] = "nothing" /\ (\E q \in KeyedRequest : Runs(q, c)) => c \in overlapped'
  <2> SUFFICES ASSUME entry[c] = "nothing", NEW q \in KeyedRequest, Runs(q, c)
               PROVE  c \in overlapped'
    OBVIOUS
  <2>1. call'[r].at = "mark"
    BY <1>2
  <2>2. q \in Keys!Running(c)
    BY DEF Keys!Running, Keys!KeyOf, Runs
  <2> QED
    BY <2>1, <2>2 DEF Keys!Check
<1>5. KeyTypes'
  <2>1. [at |-> at, key |-> c] \in [at : {"mark", "handler", "answered"}, key : Key]
    BY <1>2
  <2> QED
    BY <1>1, <1>2, <1>3, <2>1 DEF KeysInv, KeyTypes
<1>6. r \notin ran
  BY <1>1 DEF KeysInv, KeyTypes
<1>7. ASSUME NEW k \in Key \ overlapped' PROVE Phased(k)'
  <2>1. Phased(k) /\ ran \subseteq KeyedRequest
    BY <1>3, <1>7 DEF KeysInv, KeyTypes
  <2>2. CASE k = c /\ entry[c] = "nothing"
    <3>1. \A q \in KeyedRequest : ~Runs(q, k)
      BY <1>4, <1>7, <2>2
    <3>2. Unused(k)
      BY <2>1, <2>2 DEF Phased, Unused, Taken, Answered, Kept
    <3>3. at = "mark"
      BY <2>2
    <3> HIDE DEF at
    <3>4. \A q \in KeyedRequest : Runs(q, k)' => q = r
      BY <1>2, <3>1 DEF Runs
    <3>5. call'[r].at = "mark"
      BY <1>2, <3>3
    <3>6. NothingLate(k)' /\ NoneRan(k)'
      BY <1>1, <1>2, <1>6, <2>1, <3>2 DEF Unused, NothingLate, NoneRan
    <3>7. entry'[k] = "nothing"
      BY <1>1, <2>2
    <3> QED
      BY <3>4, <3>5, <3>6, <3>7 DEF Phased, Unused
  <2>3. CASE ~(k = c /\ entry[c] = "nothing")
    <3>1. ~Runs(r, k) /\ ~Runs(r, k)'
      <4>1. k = c => at = "answered"
        BY <2>3 DEF KeysInv, KeyTypes
      <4> HIDE DEF at
      <4>2. call'[r].at = at /\ call'[r].key = c
        BY <1>2
      <4> QED
        BY <1>1, <4>1, <4>2 DEF Runs
    <3> HIDE DEF at
    <3>2. \A q \in KeyedRequest : /\ Runs(q, k)' <=> Runs(q, k)
                                  /\ Runs(q, k) => call'[q].at = call[q].at
      BY <1>2, <3>1 DEF Runs
    <3>3. \A q \in KeyedRequest : q \in ran' /\ call'[q].key = k <=> q \in ran /\ call[q].key = k
      BY <1>1, <1>2, <1>6
    <3> QED
      BY <1>1, <2>1, <3>2, <3>3, PhaseStays DEF KeysInv
  <2> QED
    BY <2>2, <2>3
<1> QED
  BY <1>5, <1>7 DEF KeysInv

\* The marking of the key: nobody else runs, and nothing is on its way.
LEMMA MarkKeeps ==
    ASSUME KeysInv, NEW r \in KeyedRequest, Keys!Mark(r)
    PROVE  KeysInv'
<1> DEFINE c == call[r].key
<1>1. /\ call[r].at = "mark"
      /\ entry' = [entry EXCEPT ![c] = "in flight"]
      /\ call' = [call EXCEPT ![r].at = "handler"]
      /\ late' = late /\ ran' = ran /\ overlapped' = overlapped
  BY DEF Keys!Mark, Keys!At, Keys!Go, Keys!KeyOf, Keys!InFlight
<1>2. c \in Key /\ call[r] \in [at : {"mark", "handler", "answered"}, key : Key]
  BY <1>1 DEF KeysInv, KeyTypes
<1>3. /\ call'[r] = [call[r] EXCEPT !.at = "handler"]
      /\ \A q \in KeyedRequest : q # r => call'[q] = call[q]
  BY <1>1 DEF KeysInv, KeyTypes
<1>4. call'[r].at = "handler" /\ call'[r].key = c
  BY <1>2, <1>3
<1>5. r \notin ran
  BY <1>1 DEF KeysInv, KeyTypes
<1>6. KeyTypes'
  <2>1. call'[r] \in [at : {"mark", "handler", "answered"}, key : Key]
    BY <1>2, <1>3
  <2> QED
    BY <1>1, <1>2, <1>3, <1>5, <2>1 DEF KeysInv, KeyTypes
<1>7. ASSUME NEW k \in Key \ overlapped' PROVE Phased(k)'
  <2>1. Phased(k) /\ ran \subseteq KeyedRequest
    BY <1>1, <1>7 DEF KeysInv, KeyTypes
  <2>2. CASE k = c
    <3>1. Runs(r, k)
      BY <1>1, <2>2 DEF Runs
    <3>2. Unused(k)
      BY <1>1, <2>1, <3>1 DEF Phased, Unused, Taken, Answered, Kept, NoneRuns
    <3>3. \A q \in KeyedRequest : Runs(q, k)' => q = r
      BY <1>3, <3>1, <3>2 DEF Unused, Runs
    <3>4. entry'[k] = "in flight"
      BY <1>1, <1>2, <2>2 DEF KeysInv, KeyTypes
    <3>5. NothingLate(k)' /\ NoneRan(k)'
      BY <1>1, <1>3, <1>5, <2>1, <3>2 DEF Unused, NothingLate, NoneRan
    <3>6. Runs(r, k)' /\ call'[r].at = "handler"
      BY <1>4, <2>2 DEF Runs
    <3> QED
      BY <3>3, <3>4, <3>5, <3>6 DEF Phased, Taken
  <2>3. CASE k # c
    <3>1. entry'[k] = entry[k]
      BY <1>1, <2>3 DEF KeysInv, KeyTypes
    <3> HIDE DEF c
    <3>2. ~Runs(r, k) /\ ~Runs(r, k)'
      BY <1>4, <2>3 DEF Runs, c
    <3>3. \A q \in KeyedRequest : /\ Runs(q, k)' <=> Runs(q, k)
                                  /\ Runs(q, k) => call'[q].at = call[q].at
      BY <1>3, <3>2 DEF Runs
    <3>4. \A q \in KeyedRequest : q \in ran' /\ call'[q].key = k <=> q \in ran /\ call[q].key = k
      BY <1>1, <1>3, <1>5
    <3> QED
      BY <1>1, <2>1, <3>1, <3>3, <3>4, PhaseStays DEF KeysInv
  <2> QED
    BY <2>2, <2>3
<1> QED
  BY <1>6, <1>7 DEF KeysInv

\* The answer is sent: what it writes is the only thing on its way to the key.
LEMMA RespondKeeps ==
    ASSUME KeysInv, NEW r \in KeyedRequest, NEW ok \in BOOLEAN, Keys!Respond(r, ok)
    PROVE  KeysInv'
<1> DEFINE c == call[r].key
           w == [key |-> c, by |-> r, value |-> IF ok THEN "stored" ELSE "nothing"]
<1>1. /\ call[r].at = "handler"
      /\ call' = [call EXCEPT ![r].at = "answered"]
      /\ late' = late \cup {w} /\ ran' = IF ok THEN ran \cup {r} ELSE ran
      /\ entry' = entry /\ overlapped' = overlapped
  BY DEF Keys!Respond, Keys!At, Keys!Go, Keys!KeyOf, Keys!WriteFor, Keys!Stored, Keys!Nothing
<1>2. c \in Key /\ call[r] \in [at : {"mark", "handler", "answered"}, key : Key]
  BY <1>1 DEF KeysInv, KeyTypes
<1>3. /\ call'[r] = [call[r] EXCEPT !.at = "answered"]
      /\ \A q \in KeyedRequest : q # r => call'[q] = call[q]
  BY <1>1 DEF KeysInv, KeyTypes
<1>4. call'[r].at = "answered" /\ call'[r].key = c
  BY <1>2, <1>3
<1>5. r \notin ran
  BY <1>1 DEF KeysInv, KeyTypes
<1>6. KeyTypes'
  <2>1. call'[r] \in [at : {"mark", "handler", "answered"}, key : Key]
    BY <1>2, <1>3
  <2>2. w \in [key : Key, by : KeyedRequest, value : {"nothing", "stored"}]
    BY <1>2
  <2> HIDE DEF w, c
  <2>3. call' \in [KeyedRequest -> [at : {"idle"}] \cup [at : {"mark", "handler", "answered"}, key : Key]]
    BY <1>1, <1>3, <2>1 DEF KeysInv, KeyTypes
  <2>4. \A q \in ran' : call'[q].at = "answered"
    BY <1>1, <1>3, <1>4 DEF KeysInv, KeyTypes
  <2>5. late' \subseteq [key : Key, by : KeyedRequest, value : {"nothing", "stored"}]
    BY <1>1, <2>2 DEF KeysInv, KeyTypes
  <2>6. ran' \subseteq KeyedRequest
    BY <1>1 DEF KeysInv, KeyTypes
  <2> QED
    BY <1>1, <2>3, <2>4, <2>5, <2>6 DEF KeysInv, KeyTypes
<1>7. ASSUME NEW k \in Key \ overlapped' PROVE Phased(k)'
  <2>1. Phased(k) /\ ran \subseteq KeyedRequest
    BY <1>1, <1>7 DEF KeysInv, KeyTypes
  <2>2. CASE k = c
    <3>1. Runs(r, k) /\ call[r].at # "mark"
      BY <1>1, <2>2 DEF Runs
    <3>2. Taken(k)
      BY <2>1, <3>1 DEF Phased, Unused, Answered, Kept, NoneRuns
    <3>3. entry'[k] = "in flight"
      BY <1>1, <3>2 DEF Taken
    <3>4. \A q \in KeyedRequest : Runs(q, k) => q = r
      BY <3>1, <3>2 DEF Taken
    <3>5. ~Runs(r, k)'
      BY <1>4 DEF Runs
    <3>6. NoneRuns(k)'
      BY <1>3, <3>4, <3>5 DEF NoneRuns, Runs
    <3>7. w.key = k /\ w.by = r /\ w.value = IF ok THEN "stored" ELSE "nothing"
      BY <2>2
    <3> HIDE DEF w, c
    <3>8. w \in late' /\ \A v \in late' : v.key = k => v = w
      BY <1>1, <3>2 DEF Taken, NothingLate
    <3>9. ok => OnlyRan(r, k)'
      BY <1>1, <1>3, <1>4, <1>5, <2>1, <2>2, <3>2 DEF Taken, NoneRan, OnlyRan
    <3>10. ~ok => NoneRan(k)'
      BY <1>1, <1>3, <1>5, <2>1, <3>2 DEF Taken, NoneRan
    <3>11. w.value = "stored" <=> ok
      BY <3>7
    <3> QED
      BY <3>3, <3>6, <3>7, <3>8, <3>9, <3>10, <3>11 DEF Phased, Answered
  <2>3. CASE k # c
    <3>1. w.key # k
      BY <2>3
    <3> HIDE DEF c, w
    <3>2. ~Runs(r, k) /\ ~Runs(r, k)'
      BY <1>4, <2>3 DEF Runs, c
    <3>3. \A q \in KeyedRequest : /\ Runs(q, k)' <=> Runs(q, k)
                                  /\ Runs(q, k) => call'[q].at = call[q].at
      BY <1>3, <3>2 DEF Runs
    <3>4. \A q \in KeyedRequest : q \in ran' /\ call'[q].key = k <=> q \in ran /\ call[q].key = k
      BY <1>1, <1>3, <1>4, <1>5, <2>3
    <3>5. \A v : v.key = k => (v \in late' <=> v \in late)
      BY <1>1, <3>1
    <3>6. ran' \subseteq KeyedRequest /\ entry' = entry
      BY <1>1, <2>1
    <3> QED
      BY <2>1, <3>3, <3>4, <3>5, <3>6, PhaseStays DEF KeysInv
  <2> QED
    BY <2>2, <2>3
<1> QED
  BY <1>6, <1>7 DEF KeysInv

\* The cache takes what was on its way, or loses it, or forgets an entry.
LEMMA CacheKeeps ==
    ASSUME KeysInv,
           \/ \E k \in Key : Keys!Expire(k)
           \/ \E w \in late : Keys!LateWrite(w) \/ Keys!WriteLost(w)
    PROVE  KeysInv'
<1>1. call' = call /\ ran' = ran
  BY DEF Keys!Expire, Keys!LateWrite, Keys!WriteLost
<1>2. \A k : /\ NoneRan(k)' <=> NoneRan(k)
             /\ NoneRuns(k)' <=> NoneRuns(k)
             /\ \A r : OnlyRan(r, k)' <=> OnlyRan(r, k)
             /\ \A r : Runs(r, k)' <=> Runs(r, k)
  BY <1>1 DEF NoneRan, NoneRuns, OnlyRan, Runs
<1>3. ASSUME NEW c \in Key, overlapped' = overlapped \cup {c}, late' \subseteq late,
             entry' \in [Key -> {"nothing", "in flight", "stored"}],
             \A k \in Key : k # c => entry'[k] = entry[k],
             \A w \in late : w.key # c => w \in late'
      PROVE  KeysInv'
  <2>1. KeyTypes'
    BY <1>1, <1>3 DEF KeysInv, KeyTypes
  <2>2. ASSUME NEW k \in Key \ overlapped' PROVE Phased(k)'
    <3>1. Phased(k) /\ entry'[k] = entry[k] /\ \A w : w.key = k => (w \in late' <=> w \in late)
      BY <1>3, <2>2 DEF KeysInv
    <3> QED
      BY <1>1, <1>2, <3>1, PhaseStays DEF KeysInv, KeyTypes
  <2> QED
    BY <2>1, <2>2 DEF KeysInv
<1>4. CASE \E k \in Key : Keys!Expire(k)
  <2>1. PICK c \in Key : Keys!Expire(c)
    BY <1>4
  <2>2. /\ overlapped' = overlapped \cup {c} /\ late' = late
        /\ entry' = [entry EXCEPT ![c] = "nothing"]
    BY <2>1 DEF Keys!Expire, Keys!Nothing
  <2>3. /\ entry' \in [Key -> {"nothing", "in flight", "stored"}]
        /\ \A k \in Key : k # c => entry'[k] = entry[k]
    BY <2>2 DEF KeysInv, KeyTypes
  <2> QED
    BY <1>3, <2>2, <2>3
<1>5. CASE \E w \in late : Keys!WriteLost(w)
  <2>1. PICK w \in late : Keys!WriteLost(w)
    BY <1>5
  <2>2. w.key \in Key
    BY DEF KeysInv, KeyTypes
  <2> QED
    BY <1>3, <2>1, <2>2 DEF Keys!WriteLost, KeysInv, KeyTypes
<1>6. CASE \E w \in late : Keys!LateWrite(w)
  <2>1. PICK w \in late : Keys!LateWrite(w)
    BY <1>6
  <2>2. /\ late' = late \ {w} /\ entry' = [entry EXCEPT ![w.key] = w.value]
        /\ overlapped' = overlapped
    BY <2>1 DEF Keys!LateWrite
  <2>3. w.key \in Key /\ w.value \in {"nothing", "stored"} /\ w.by \in KeyedRequest
    BY DEF KeysInv, KeyTypes
  <2>4. KeyTypes'
    BY <1>1, <2>2, <2>3 DEF KeysInv, KeyTypes
  <2>5. ASSUME NEW k \in Key \ overlapped' PROVE Phased(k)'
    <3>1. Phased(k) /\ ran \subseteq KeyedRequest
      BY <2>2, <2>5 DEF KeysInv, KeyTypes
    <3>2. CASE w.key = k
      <4>1. Answered(k)
        BY <3>1, <3>2 DEF Phased, Unused, Taken, Kept, NothingLate
      <4>2. /\ \A v \in late : v.key = k => v = w
            /\ w.value = "stored" => OnlyRan(w.by, k)
            /\ w.value = "nothing" => NoneRan(k)
        BY <3>2, <4>1 DEF Answered
      <4>3. NothingLate(k)' /\ NoneRuns(k)'
        BY <1>2, <2>2, <4>1, <4>2 DEF NothingLate, Answered
      <4>4. entry'[k] = w.value
        BY <2>2, <2>3, <3>2 DEF KeysInv, KeyTypes
      <4>5. CASE w.value = "stored"
        <5>1. OnlyRan(w.by, k)'
          BY <1>2, <4>2, <4>5
        <5> QED
          BY <1>1, <4>3, <4>4, <4>5, <5>1 DEF Phased, Kept, OnlyRan
      <4>6. CASE w.value = "nothing"
        BY <1>2, <4>2, <4>3, <4>4, <4>6 DEF Phased, Unused, NoneRuns
      <4> QED
        BY <2>3, <4>5, <4>6
    <3>3. CASE w.key # k
      <4>1. entry'[k] = entry[k] /\ \A v : v.key = k => (v \in late' <=> v \in late)
        BY <2>2, <2>3, <3>3 DEF KeysInv, KeyTypes
      <4> QED
        BY <1>1, <1>2, <3>1, <4>1, PhaseStays DEF KeysInv
    <3> QED
      BY <3>2, <3>3
  <2> QED
    BY <2>4, <2>5 DEF KeysInv
<1> QED
  BY <1>4, <1>5, <1>6

LEMMA KeysKept == ASSUME KeysInv, Keys!Next \/ UNCHANGED keyVars PROVE KeysInv'
<1>1. CASE UNCHANGED keyVars
  <2>1. UNCHANGED <<entry, call, late, ran, overlapped>>
    BY <1>1 DEF keyVars
  <2>2. \A k : Phased(k)' <=> Phased(k)
    BY <2>1 DEF Phased, Unused, Taken, Answered, Kept, NothingLate, NoneRan, NoneRuns, OnlyRan, Runs
  <2> QED
    BY <2>1, <2>2 DEF KeysInv, KeyTypes
<1>2. CASE Keys!Next
  BY <1>2, CacheKeeps, CheckKeeps, MarkKeeps, RespondKeeps DEF Keys!Next
<1> QED
  BY <1>1, <1>2

\* The cardinality of the module is that of the library.
LEMMA KeysCount == ASSUME NEW S PROVE Keys!Cardinality(S) = Cardinality(S)
BY Zenon DEF Keys!Cardinality, Cardinality

\* At most one request of a key ran, and a sentinel is followed by a write.
LEMMA KeysHold == ASSUME KeysInv PROVE Keys!RunsOnce /\ Keys!TypeOK /\ Keys!SentinelGoes
<1>1. Keys!TypeOK
  BY DEF KeysInv, KeyTypes, Keys!TypeOK, Keys!Nothing, Keys!InFlight, Keys!Stored
<1>2. ASSUME NEW k \in Key \ overlapped
      PROVE  Cardinality({r \in ran : Keys!KeyOf(r) = k}) <= 1
  <2>1. Phased(k)
    BY <1>2 DEF KeysInv
  <2>2. CASE NoneRan(k)
    <3>1. {r \in ran : Keys!KeyOf(r) = k} = {}
      BY <2>2 DEF NoneRan, Keys!KeyOf
    <3>2. Cardinality({r \in ran : Keys!KeyOf(r) = k}) = 0
      BY <3>1, FS_EmptySet
    <3> QED
      BY <3>2
  <2>3. CASE \E r : OnlyRan(r, k)
    <3>1. PICK r : OnlyRan(r, k)
      BY <2>3
    <3>2. {q \in ran : Keys!KeyOf(q) = k} = {r}
      BY <3>1 DEF OnlyRan, Keys!KeyOf
    <3>3. Cardinality({q \in ran : Keys!KeyOf(q) = k}) = 1
      BY <3>2, FS_Singleton
    <3> QED
      BY <3>3
  <2>4. NoneRan(k) \/ \E r : OnlyRan(r, k)
    <3>1. \A w \in late : w.value \in {"stored", "nothing"}
      BY DEF KeysInv, KeyTypes
    <3> QED
      BY <2>1, <3>1 DEF Phased, Unused, Taken, Answered, Kept
  <2> QED
    BY <2>2, <2>3, <2>4
<1>3. ASSUME NEW k \in Key \ overlapped, entry[k] = "in flight"
      PROVE  Keys!Running(k) # {} \/ \E w \in late : w.key = k
  <2>1. Taken(k) \/ Answered(k)
    BY <1>3 DEF KeysInv, Phased, Unused, Kept
  <2>2. CASE Taken(k)
    <3>1. PICK r \in KeyedRequest : Runs(r, k)
      BY <2>2 DEF Taken
    <3>2. r \in Keys!Running(k)
      BY <3>1 DEF Runs, Keys!Running, Keys!KeyOf
    <3> QED
      BY <3>2
  <2>3. CASE Answered(k)
    BY <2>3 DEF Answered
  <2> QED
    BY <2>1, <2>2, <2>3
<1>4. Keys!RunsOnce
  BY <1>2, KeysCount DEF Keys!RunsOnce
<1>5. Keys!SentinelGoes
  BY <1>3 DEF Keys!SentinelGoes, Keys!InFlight
<1> QED
  BY <1>1, <1>4, <1>5

-----------------------------------------------------------------------------
(* Requests on their way through the guards *)

\* Where a request is once the token was looked at.
Beyond == {"throttler", "roles", "csrf", "interceptors", "handler"}

Underway ==
    [at : {"jwt"} \cup Beyond, credential : Requests!Credential, argument : Argument,
     user : Requests!Roles \cup {Requests!Nobody},
     id : {"fresh"}, correlation : {"fresh"}, version : {1}]

\* A request under way has the user its token names, once that was looked at.
Guarded(q) ==
    /\ q.at \in {"idle", "jwt", "answered"} \cup Beyond
    /\ q.at \in {"jwt"} \cup Beyond => q \in Underway
    /\ q.at \in Beyond => q.user = Requests!UserOf(q.credential)

RequestsInv ==
    /\ route \in Requests!AllRoutes /\ DOMAIN request = ArrivingRequest
    /\ \A r \in ArrivingRequest : Guarded(request[r])
    /\ hits \in [Requests!Tracker -> 0 .. DefaultLimit + StrictLimit]
    /\ cache \in Argument \cup {Requests!Empty} /\ audited \subseteq ArrivingRequest

LEMMA RequestNumbers == StrictLimit \in Nat \ {0} /\ DefaultLimit \in Nat \ {0}
BY Given DEF Requests!RequestsAssumption

LEMMA RequestsStart == ASSUME Requests!Init PROVE RequestsInv
<1>1. \A r \in ArrivingRequest : request[r].at = "idle"
  BY DEF Requests!Init, Requests!Idle
<1>2. \A r \in ArrivingRequest : Guarded(request[r])
  BY <1>1 DEF Guarded, Beyond
<1>3. hits \in [Requests!Tracker -> 0 .. DefaultLimit + StrictLimit]
  BY RequestNumbers DEF Requests!Init
<1> QED
  BY <1>2, <1>3 DEF Requests!Init, RequestsInv

\* One request moves on.
RequestMoves(r, q) == request' = [request EXCEPT ![r] = q] /\ route' = route

LEMMA RequestKeeps ==
    ASSUME RequestsInv, NEW r \in ArrivingRequest, NEW q, RequestMoves(r, q), Guarded(q),
           hits' \in [Requests!Tracker -> 0 .. DefaultLimit + StrictLimit],
           cache' \in Argument \cup {Requests!Empty}, audited' \subseteq ArrivingRequest
    PROVE  RequestsInv'
<1>1. /\ DOMAIN request' = ArrivingRequest
      /\ \A p \in ArrivingRequest : request'[p] = IF p = r THEN q ELSE request[p]
  BY DEF RequestsInv, RequestMoves
<1>2. \A p : Guarded(p)' <=> Guarded(p)
  BY DEF RequestMoves, Guarded, Requests!UserOf
<1>3. ASSUME NEW p \in ArrivingRequest PROVE Guarded(request[p])'
  <2>1. PICK x : x = request'[p]
    OBVIOUS
  <2>2. Guarded(x)
    BY <1>1, <2>1 DEF RequestsInv
  <2> QED
    BY <1>2, <2>1, <2>2 DEF RequestMoves, Guarded, Requests!UserOf
<1> QED
  BY <1>1, <1>3 DEF RequestsInv, RequestMoves

\* What has been answered is answered, whatever the answer is.
LEMMA AnswerGuarded == ASSUME NEW q, q.at = "answered" \/ q = Requests!Idle PROVE Guarded(q)
BY DEF Guarded, Beyond, Requests!Idle

LEMMA Rests ==
    ASSUME RequestsInv
    PROVE  /\ hits \in [Requests!Tracker -> 0 .. DefaultLimit + StrictLimit]
           /\ cache \in Argument \cup {Requests!Empty} /\ audited \subseteq ArrivingRequest
           /\ \A r \in ArrivingRequest : Guarded(request[r])
BY DEF RequestsInv

LEMMA RefuseKeeps ==
    ASSUME RequestsInv, NEW r \in ArrivingRequest, NEW status, Requests!Refuse(r, status),
           UNCHANGED <<route, hits, cache, audited>>
    PROVE  RequestsInv'
<1> DEFINE q == [at |-> "answered", status |-> status]
<1>1. RequestMoves(r, q) /\ q.at = "answered"
  BY DEF Requests!Refuse, RequestMoves
<1> HIDE DEF q
<1> QED
  BY <1>1, AnswerGuarded, RequestKeeps, Rests

LEMMA AnswerKeepsRequests ==
    ASSUME RequestsInv, NEW r \in ArrivingRequest, NEW argument, Requests!Answer(r, argument),
           route' = route, hits' = hits,
           cache' \in Argument \cup {Requests!Empty}, audited' \subseteq ArrivingRequest
    PROVE  RequestsInv'
<1> DEFINE q == [at |-> "answered", status |-> 200, asked |-> request[r].argument, argument |-> argument]
<1>1. RequestMoves(r, q) /\ q.at = "answered"
  BY DEF Requests!Answer, RequestMoves
<1> HIDE DEF q
<1> QED
  BY <1>1, AnswerGuarded, RequestKeeps, Rests

\* A request goes to its next place with all it has.
LEMMA GoKeeps ==
    ASSUME RequestsInv, NEW r \in ArrivingRequest, request[r].at \in Beyond, NEW at \in Beyond,
           Requests!Go(r, at), route' = route,
           hits' \in [Requests!Tracker -> 0 .. DefaultLimit + StrictLimit],
           UNCHANGED <<cache, audited>>
    PROVE  RequestsInv'
<1> DEFINE q == [request[r] EXCEPT !.at = at]
<1>1. RequestMoves(r, q)
  BY DEF Requests!Go, RequestMoves
<1>2. request[r] \in Underway /\ request[r].user = Requests!UserOf(request[r].credential)
  BY Rests DEF Guarded
<1>3. q \in Underway /\ q.at = at /\ q.user = request[r].user /\ q.credential = request[r].credential
  BY <1>2 DEF Underway
<1> HIDE DEF q
<1>4. Guarded(q)
  BY <1>2, <1>3 DEF Guarded
<1> QED
  BY <1>1, <1>4, RequestKeeps, Rests

LEMMA ArriveKeeps ==
    ASSUME RequestsInv, NEW r \in ArrivingRequest, NEW c \in Requests!Credential,
           NEW a \in Argument, Requests!Arrive(r, c, a)
    PROVE  RequestsInv'
<1> DEFINE q == [at |-> "jwt", credential |-> c, argument |-> a, user |-> Requests!Nobody,
                 id |-> Requests!RequestId("none"), correlation |-> Requests!CorrelationId("none"),
                 version |-> Requests!ApiVersion("unversioned")]
<1>1. \/ Requests!Refuse(r, 401)
      \/ request' = [request EXCEPT ![r] = q]
  BY DEF Requests!Arrive
<1>2. UNCHANGED <<route, hits, cache, audited>>
  BY DEF Requests!Arrive
<1>3. q \in Underway /\ q.at = "jwt"
  BY DEF Underway, Requests!RequestId, Requests!CorrelationId, Requests!ApiVersion
<1> HIDE DEF q
<1>4. Guarded(q)
  BY <1>3 DEF Guarded, Beyond
<1>5. CASE request' = [request EXCEPT ![r] = q]
  BY <1>2, <1>4, <1>5, RequestKeeps, Rests DEF RequestMoves
<1> QED
  BY <1>1, <1>2, <1>5, RefuseKeeps

LEMMA JwtAuthGuardKeeps ==
    ASSUME RequestsInv, NEW r \in ArrivingRequest, Requests!JwtAuthGuard(r) PROVE RequestsInv'
<1>1. PICK user : user = Requests!UserOf(request[r].credential)
  OBVIOUS
<1>2. request[r] \in Underway /\ request[r].at = "jwt" /\ UNCHANGED <<route, hits, cache, audited>>
  BY Rests DEF Guarded, Requests!JwtAuthGuard, Requests!At
<1>3. CASE user = "refused"
  BY <1>1, <1>2, <1>3, RefuseKeeps DEF Requests!JwtAuthGuard
<1>4. CASE user # "refused"
  <2> DEFINE q == [request[r] EXCEPT !.user = user, !.at = "throttler"]
  <2>1. request' = [request EXCEPT ![r].user = user, ![r].at = "throttler"]
    BY <1>1, <1>4 DEF Requests!JwtAuthGuard
  <2>2. RequestMoves(r, q)
    BY <1>2, <2>1 DEF RequestMoves, RequestsInv
  <2>3. user \in Requests!Roles \cup {Requests!Nobody}
    BY <1>1, <1>4 DEF Requests!UserOf
  <2>4. q \in Underway /\ q.at = "throttler" /\ q.user = user /\ q.credential = request[r].credential
    BY <1>2, <2>3 DEF Underway, Beyond
  <2> HIDE DEF q
  <2>5. Guarded(q)
    BY <1>1, <2>4 DEF Guarded, Beyond
  <2> QED
    BY <1>2, <2>2, <2>5, RequestKeeps, Rests
<1> QED
  BY <1>3, <1>4

LEMMA ThrottlerKeeps ==
    ASSUME RequestsInv, NEW r \in ArrivingRequest, Requests!RedisThrottlerGuard(r) PROVE RequestsInv'
<1>1. request[r].at = "throttler" /\ request[r] \in Underway /\ UNCHANGED <<route, cache, audited>>
  BY Rests DEF Guarded, Beyond, Requests!RedisThrottlerGuard, Requests!At
<1>2. request[r].at \in Beyond /\ "roles" \in Beyond /\ "roles" \notin {"interceptors", "handler"}
  BY <1>1 DEF Beyond
<1>3. ASSUME Requests!Go(r, "roles"),
             hits' \in [Requests!Tracker -> 0 .. DefaultLimit + StrictLimit]
      PROVE  RequestsInv'
  BY <1>1, <1>2, <1>3, GoKeeps
<1>4. CASE Requests!Has("unthrottled")
  BY <1>3, <1>4, Rests DEF Requests!RedisThrottlerGuard
<1>5. CASE ~Requests!Has("unthrottled")
  <2>1. PICK t : t = Requests!GetTracker(r)
    OBVIOUS
  <2>2. t \in Requests!Tracker
    BY <1>1, <2>1 DEF Requests!GetTracker, Requests!Tracker, Underway
  <2>3. PICK n \in 0 .. DefaultLimit + StrictLimit : n = hits[t]
    BY <2>2, Rests
  <2>4. CASE n < Requests!Limit
    <3>1. n + 1 \in 0 .. DefaultLimit + StrictLimit
      BY <2>4, RequestNumbers DEF Requests!Limit
    <3>2. hits' = [hits EXCEPT ![t] = n + 1] /\ Requests!Go(r, "roles")
      BY <1>5, <2>1, <2>3, <2>4 DEF Requests!RedisThrottlerGuard
    <3>3. hits' \in [Requests!Tracker -> 0 .. DefaultLimit + StrictLimit]
      BY <3>1, <3>2, Rests
    <3> QED
      BY <1>3, <3>2, <3>3
  <2>5. CASE ~(n < Requests!Limit)
    <3>1. hits' = hits /\ Requests!Refuse(r, 429)
      BY <1>5, <2>1, <2>3, <2>5 DEF Requests!RedisThrottlerGuard
    <3> QED
      BY <1>1, <3>1, RefuseKeeps
  <2> QED
    BY <2>4, <2>5
<1> QED
  BY <1>4, <1>5

LEMMA RolesGuardKeeps ==
    ASSUME RequestsInv, NEW r \in ArrivingRequest, Requests!RolesGuard(r) PROVE RequestsInv'
<1>1. request[r].at = "roles" /\ UNCHANGED <<route, hits, cache, audited>>
  BY DEF Requests!RolesGuard, Requests!At
<1>2. request[r].at \in Beyond /\ "csrf" \in Beyond /\ "csrf" \notin {"interceptors", "handler"}
  BY <1>1 DEF Beyond
<1>3. Requests!Go(r, "csrf") \/ Requests!Refuse(r, 403)
  BY DEF Requests!RolesGuard
<1>4. CASE Requests!Go(r, "csrf")
  BY <1>1, <1>2, <1>4, GoKeeps, Rests
<1> QED
  BY <1>1, <1>3, <1>4, RefuseKeeps

LEMMA CsrfGuardKeeps ==
    ASSUME RequestsInv, NEW r \in ArrivingRequest, Requests!CsrfGuard(r) PROVE RequestsInv'
<1>1. request[r].at = "csrf" /\ UNCHANGED <<route, hits, cache, audited>>
  BY DEF Requests!CsrfGuard, Requests!At
<1>2. request[r].at \in Beyond /\ "interceptors" \in Beyond
  BY <1>1 DEF Beyond
<1>3. CASE Requests!CsrfSkipped(r)
  <2>1. Requests!Go(r, "interceptors")
    BY <1>3 DEF Requests!CsrfGuard
  <2> QED
    BY <1>1, <1>2, <2>1, GoKeeps, Rests
<1>4. CASE ~Requests!CsrfSkipped(r)
  BY <1>1, <1>4, RefuseKeeps DEF Requests!CsrfGuard
<1> QED
  BY <1>3, <1>4

LEMMA CacheInterceptorKeeps ==
    ASSUME RequestsInv, NEW r \in ArrivingRequest, Requests!CacheInterceptor(r) PROVE RequestsInv'
<1>1. request[r].at = "interceptors" /\ UNCHANGED <<route, hits, cache, audited>>
  BY DEF Requests!CacheInterceptor, Requests!At
<1>2. request[r].at \in Beyond /\ "handler" \in Beyond
  BY <1>1 DEF Beyond
<1>3. Requests!Answer(r, cache) \/ Requests!Go(r, "handler")
  BY DEF Requests!CacheInterceptor
<1>4. CASE Requests!Go(r, "handler")
  BY <1>1, <1>2, <1>4, GoKeeps, Rests
<1>5. CASE Requests!Answer(r, cache)
  BY <1>1, <1>5, AnswerKeepsRequests, Rests
<1> QED
  BY <1>3, <1>4, <1>5

LEMMA HandlerKeeps ==
    ASSUME RequestsInv, NEW r \in ArrivingRequest,
           Requests!HandlerThrows(r) \/ Requests!HandlerReturns(r)
    PROVE  RequestsInv'
<1>1. CASE Requests!HandlerThrows(r)
  BY <1>1, RefuseKeeps DEF Requests!HandlerThrows
<1>2. CASE Requests!HandlerReturns(r)
  <2>1. request[r].argument \in Argument
    BY <1>2, Rests DEF Guarded, Beyond, Underway, Requests!HandlerReturns, Requests!At
  <2>2. cache' \in Argument \cup {Requests!Empty} /\ audited' \subseteq ArrivingRequest
    BY <1>2, <2>1, Rests DEF Requests!HandlerReturns
  <2>3. Requests!Answer(r, request[r].argument) /\ route' = route /\ hits' = hits
    BY <1>2 DEF Requests!HandlerReturns
  <2> QED
    BY <2>2, <2>3, AnswerKeepsRequests
<1> QED
  BY <1>1, <1>2

LEMMA ForgetKeeps ==
    ASSUME RequestsInv, NEW r \in ArrivingRequest, Requests!Forget(r) PROVE RequestsInv'
<1>1. PICK q : q = Requests!Idle
  OBVIOUS
<1>2. RequestMoves(r, q) /\ hits' = hits /\ cache' = cache /\ audited' \subseteq audited
  BY <1>1 DEF Requests!Forget, RequestMoves
<1>3. Guarded(q)
  BY <1>1, AnswerGuarded
<1>4. audited' \subseteq ArrivingRequest
  BY <1>2, Rests
<1> QED
  BY <1>2, <1>3, <1>4, RequestKeeps, Rests

LEMMA WindowKeeps ==
    ASSUME RequestsInv, Requests!CacheExpires \/ \E t \in Requests!Tracker : Requests!WindowEnds(t)
    PROVE  RequestsInv'
<1>1. UNCHANGED <<route, request, audited>>
  BY DEF Requests!CacheExpires, Requests!WindowEnds
<1>2. \A q : Guarded(q)' <=> Guarded(q)
  BY <1>1 DEF Guarded, Requests!UserOf
<1>3. hits' \in [Requests!Tracker -> 0 .. DefaultLimit + StrictLimit]
  BY RequestNumbers, Rests DEF Requests!CacheExpires, Requests!WindowEnds
<1>4. cache' \in Argument \cup {Requests!Empty}
  BY Rests DEF Requests!CacheExpires, Requests!WindowEnds
<1>5. ASSUME NEW r \in ArrivingRequest PROVE Guarded(request[r])'
  BY <1>1, Rests DEF Guarded, Requests!UserOf
<1> QED
  BY <1>1, <1>3, <1>4, <1>5 DEF RequestsInv

LEMMA RequestsKept ==
    ASSUME RequestsInv, Requests!Next \/ UNCHANGED requestVars PROVE RequestsInv'
<1>1. CASE UNCHANGED requestVars
  BY <1>1 DEF requestVars, RequestsInv, Guarded, Requests!UserOf
<1> QED
  BY <1>1, ArriveKeeps, JwtAuthGuardKeeps, ThrottlerKeeps, RolesGuardKeeps, CsrfGuardKeeps,
     CacheInterceptorKeeps, HandlerKeeps, ForgetKeeps, WindowKeeps DEF Requests!Next

\* None of the routes of a controller whose handler reads the user is public.
NonePublic(routes) == \A x \in routes : "user" \in x.traits => x.access # "public"

LEMMA UserRoutesAreNotPublic == NonePublic(Requests!AllRoutes)
<1>1. \A verb, name, access, traits :
         LET x == Requests!Route(verb, name, access, traits)
         IN  x.traits = traits /\ x.access = access
  BY DEF Requests!Route
<1>2. NonePublic(Requests!AccountRoutes)
  BY <1>1 DEF NonePublic, Requests!AccountRoutes
<1>3. NonePublic(Requests!SessionRoutes)
  BY <1>1 DEF NonePublic, Requests!SessionRoutes
<1>4. NonePublic(Requests!BiometricRoutes)
  BY <1>1 DEF NonePublic, Requests!BiometricRoutes
<1>5. NonePublic(Requests!TotpRoutes)
  BY <1>1 DEF NonePublic, Requests!TotpRoutes
<1>6. NonePublic(Requests!UserRoutes)
  BY <1>1 DEF NonePublic, Requests!UserRoutes
<1>7. NonePublic(Requests!PictureRoutes)
  BY <1>1 DEF NonePublic, Requests!PictureRoutes
<1>8. NonePublic(Requests!CreateBookingRoutes)
  BY <1>1 DEF NonePublic, Requests!CreateBookingRoutes
<1>9. NonePublic(Requests!BookingRoutes)
  BY <1>1 DEF NonePublic, Requests!BookingRoutes
<1>10. NonePublic(Requests!CancellationPolicyRoutes)
  BY <1>1 DEF NonePublic, Requests!CancellationPolicyRoutes
<1>11. NonePublic(Requests!ClockRoutes)
  BY <1>1 DEF NonePublic, Requests!ClockRoutes
<1>12. NonePublic(Requests!AttendanceRoutes)
  BY <1>1 DEF NonePublic, Requests!AttendanceRoutes
<1>13. NonePublic(Requests!WorkspaceRoutes)
  BY <1>1 DEF NonePublic, Requests!WorkspaceRoutes
<1>14. NonePublic(Requests!AmenityRoutes)
  BY <1>1 DEF NonePublic, Requests!AmenityRoutes
<1>15. NonePublic(Requests!HubRoutes)
  BY <1>1 DEF NonePublic, Requests!HubRoutes
<1>16. NonePublic(Requests!StellarRoutes)
  BY <1>1 DEF NonePublic, Requests!StellarRoutes
<1>17. NonePublic(Requests!WebhookRoutes)
  BY <1>1 DEF NonePublic, Requests!WebhookRoutes
<1>18. NonePublic(Requests!AuditLogRoutes)
  BY <1>1 DEF NonePublic, Requests!AuditLogRoutes
<1>19. NonePublic(Requests!NewsletterRoutes)
  BY <1>1 DEF NonePublic, Requests!NewsletterRoutes
<1>20. NonePublic(Requests!ContactRoutes)
  BY <1>1 DEF NonePublic, Requests!ContactRoutes
<1>21. NonePublic(Requests!PreviewRoutes)
  BY <1>1 DEF NonePublic, Requests!PreviewRoutes
<1>22. NonePublic(Requests!RevenueRoutes)
  BY <1>1 DEF NonePublic, Requests!RevenueRoutes
<1>23. NonePublic(Requests!OccupancyRoutes)
  BY <1>1 DEF NonePublic, Requests!OccupancyRoutes
<1>24. NonePublic(Requests!PricingRoutes)
  BY <1>1 DEF NonePublic, Requests!PricingRoutes
<1>25. NonePublic(Requests!AnalyticsRoutes)
  BY <1>1 DEF NonePublic, Requests!AnalyticsRoutes
<1>26. NonePublic(Requests!DashboardRoutes)
  BY <1>1 DEF NonePublic, Requests!DashboardRoutes
<1>27. NonePublic(Requests!ProbeRoutes)
  BY <1>1 DEF NonePublic, Requests!ProbeRoutes
<1>28. NonePublic(Requests!DeepHealthRoutes)
  BY <1>1 DEF NonePublic, Requests!DeepHealthRoutes
<1> QED
  BY <1>2, <1>3, <1>4, <1>5, <1>6, <1>7, <1>8, <1>9, <1>10, <1>11, <1>12, <1>13, <1>14, <1>15,
     <1>16, <1>17, <1>18, <1>19, <1>20, <1>21, <1>22, <1>23, <1>24, <1>25, <1>26, <1>27, <1>28
     DEF NonePublic, Requests!AllRoutes

LEMMA RequestsHold ==
    ASSUME RequestsInv
    PROVE  Requests!TypeOK /\ Requests!HandlersHaveUser
<1>1. Requests!TypeOK
  BY DEF RequestsInv, Guarded, Beyond, Requests!TypeOK
<1>2. ASSUME NEW r \in ArrivingRequest, request[r].at = "handler", "user" \in route.traits
      PROVE  request[r].user # Requests!Nobody
  <2>1. route.access # "public"
    BY <1>2, UserRoutesAreNotPublic DEF RequestsInv, NonePublic
  <2>2. request[r] \in Underway /\ request[r].user = Requests!UserOf(request[r].credential)
    BY <1>2, Rests DEF Guarded, Beyond
  <2> QED
    BY <2>1, <2>2 DEF Requests!UserOf, Requests!Roles, Requests!Nobody
<1>3. Requests!HandlersHaveUser
  BY <1>2 DEF Requests!HandlersHaveUser, Requests!At, Requests!Has
<1> QED
  BY <1>1, <1>3

-----------------------------------------------------------------------------
(* Mails *)

\* A row of a mail: what is thrown is never one of the errors that are tried again, so no
\* mail gets a second attempt.
MailRow ==
    [kind : Mails!Kinds \cup {"none"},
     at : {"new", "check", "smtp", "recording", "failing", "sent", "failed"},
     attempt : {0, 1},
     error : {"none", "transient", "timeout", "other", "redis"}]

\* The last n failures of f came while the counter of the one before lived.
Close(f, n) ==
    /\ n <= Len(f)
    /\ \A i \in 1 .. Len(f) : Len(f) < i + n /\ i < Len(f) => f[i + 1] < f[i] + CounterLife

\* The counter counts the last failures, and ends its life after the last of them.
Counted ==
    /\ Close(failedAt, failures.count)
    /\ failures.count = 0 => failures.until = 0
    /\ failures.count # 0 => failures.until = failedAt[Len(failedAt)] + CounterLife

\* The key of the breaker, when it is there, was set by the last failure of a burst.
SetByBurst ==
    breaker # 0 =>
        \E last \in DOMAIN failedAt : Mails!Burst(last) /\ breaker = failedAt[last] + ResetTimeout

MailsInv ==
    /\ mail \in [Mail -> MailRow]
    /\ failures \in [count : Nat, until : Nat]
    /\ mailClock \in 0 .. MaxMailClock
    /\ failedAt \in Seq(0 .. MaxMailClock)
    /\ Counted /\ SetByBurst

LEMMA MailNumbers ==
    /\ MaxAttempts \in Nat \ {0} /\ FailureThreshold \in Nat \ {0} /\ CounterLife \in Nat \ {0}
    /\ ResetTimeout \in Nat \ {0} /\ MaxMailClock \in Nat \ {0} /\ AskedKind \subseteq Mails!Kinds
BY Given DEF Mails!MailAssumption

\* Nothing the counter and the breaker are about changes.
BreakerRests == UNCHANGED <<failures, breaker, failedAt, mailClock>>

LEMMA MailChanges ==
    ASSUME MailsInv, NEW m \in Mail, NEW row \in MailRow, mail' = [mail EXCEPT ![m] = row],
           BreakerRests
    PROVE  MailsInv'
BY DEF MailsInv, BreakerRests, Counted, Close, SetByBurst, Mails!Burst

LEMMA MailsStart == ASSUME Mails!Init PROVE MailsInv
<1>1. mail \in [Mail -> MailRow] /\ failures \in [count : Nat, until : Nat]
  BY DEF Mails!Init, Mails!Fresh, MailRow
<1>2. mailClock \in 0 .. MaxMailClock /\ breaker = 0
  BY MailNumbers DEF Mails!Init
<1>3. failedAt = <<>> /\ failedAt \in Seq(0 .. MaxMailClock) /\ Len(failedAt) = 0 /\ DOMAIN failedAt = {}
  BY EmptySeq DEF Mails!Init
<1>4. Counted
  BY <1>3 DEF Mails!Init, Counted, Close
<1> QED
  BY <1>1, <1>2, <1>3, <1>4 DEF MailsInv, SetByBurst

LEMMA SendKeeps ==
    ASSUME MailsInv, NEW m \in Mail, NEW kind \in AskedKind, Mails!Send(m, kind)
    PROVE  MailsInv'
<1> DEFINE row == [mail[m] EXCEPT !.kind = kind, !.at = "check", !.attempt = 1]
<1>1. row \in MailRow
  BY MailNumbers DEF MailsInv, MailRow
<1>2. mail' = [mail EXCEPT ![m] = row] /\ BreakerRests
  BY DEF Mails!Send, BreakerRests
<1> HIDE DEF row
<1> QED
  BY <1>1, <1>2, MailChanges

LEMMA CheckBreakerKeeps ==
    ASSUME MailsInv, NEW m \in Mail, NEW redisUp \in BOOLEAN, Mails!CheckBreaker(m, redisUp)
    PROVE  MailsInv'
<1> DEFINE row == IF redisUp /\ ~Mails!IsOpen THEN [mail[m] EXCEPT !.at = "smtp"]
                  ELSE [mail[m] EXCEPT !.at = "failing", !.error = "other"]
<1>1. row \in MailRow
  BY DEF MailsInv, MailRow
<1>2. mail' = [mail EXCEPT ![m] = row] /\ BreakerRests
  BY DEF Mails!CheckBreaker, BreakerRests
<1> HIDE DEF row
<1> QED
  BY <1>1, <1>2, MailChanges

LEMMA SendMailKeeps ==
    ASSUME MailsInv, NEW m \in Mail, NEW answer \in {"ok", "transient", "timeout", "other"},
           Mails!SendMail(m, answer)
    PROVE  MailsInv'
<1> DEFINE recorded == [mail[m] EXCEPT !.at = "recording"]
           refused(error) == [mail[m] EXCEPT !.at = "failing", !.error = error]
<1>1. mail[m] \in MailRow
  BY DEF MailsInv
<1>2. recorded \in MailRow /\ refused("other") \in MailRow
  BY <1>1 DEF MailRow
<1>3. answer # "ok" => refused(answer) \in MailRow
  BY <1>1 DEF MailRow
<1>4. \/ mail' = [mail EXCEPT ![m] = recorded]
      \/ answer # "ok" /\ mail' = [mail EXCEPT ![m] = refused(answer)]
      \/ mail' = [mail EXCEPT ![m] = refused("other")]
  BY Zenon DEF Mails!SendMail
<1>5. BreakerRests
  BY DEF Mails!SendMail, BreakerRests
<1> HIDE DEF recorded, refused
<1> QED
  BY <1>2, <1>3, <1>4, <1>5, MailChanges

\* A success removes the key of the breaker, and leaves the counter.
LEMMA RecordSuccessKeeps ==
    ASSUME MailsInv, NEW m \in Mail, NEW redisUp \in BOOLEAN, Mails!RecordSuccess(m, redisUp)
    PROVE  MailsInv'
<1> DEFINE row == IF redisUp THEN [mail[m] EXCEPT !.at = "sent"]
                  ELSE [mail[m] EXCEPT !.at = "failing", !.error = "redis"]
<1>1. row \in MailRow
  BY DEF MailsInv, MailRow
<1>2. mail' = [mail EXCEPT ![m] = row] /\ UNCHANGED <<failures, failedAt, mailClock>>
  BY DEF Mails!RecordSuccess
<1>3. breaker' = 0 \/ breaker' = breaker
  BY DEF Mails!RecordSuccess
<1> HIDE DEF row
<1>4. mail' \in [Mail -> MailRow]
  BY <1>1, <1>2 DEF MailsInv
<1>5. SetByBurst'
  BY <1>2, <1>3 DEF MailsInv, SetByBurst, Mails!Burst
<1> QED
  BY <1>2, <1>4, <1>5 DEF MailsInv, Counted, Close

LEMMA Extended ==
    ASSUME NEW f \in Seq(0 .. MaxMailClock), NEW t \in 0 .. MaxMailClock
    PROVE  /\ Append(f, t) \in Seq(0 .. MaxMailClock)
           /\ Len(f) \in Nat /\ Len(Append(f, t)) = Len(f) + 1
           /\ DOMAIN f = 1 .. Len(f) /\ DOMAIN Append(f, t) = 1 .. (Len(f) + 1)
           /\ Append(f, t)[Len(f) + 1] = t
           /\ \A i \in 1 .. Len(f) : Append(f, t)[i] = f[i] /\ f[i] \in Nat
<1>1. /\ Append(f, t) \in Seq(0 .. MaxMailClock) /\ Len(Append(f, t)) = Len(f) + 1
      /\ Append(f, t)[Len(f) + 1] = t /\ \A i \in 1 .. Len(f) : Append(f, t)[i] = f[i]
  BY AppendProperties
<1>2. Len(f) \in Nat /\ DOMAIN f = 1 .. Len(f)
  BY LenProperties
<1>3. DOMAIN Append(f, t) = 1 .. (Len(f) + 1)
  BY <1>1, LenProperties
<1>4. ASSUME NEW i \in 1 .. Len(f) PROVE f[i] \in Nat
  <2>1. f[i] \in 0 .. MaxMailClock
    BY ElementOfSeq
  <2> QED
    BY <2>1, MailNumbers
<1> QED
  BY <1>1, <1>2, <1>3, <1>4

LEMMA CloseOn ==
    ASSUME NEW f \in Seq(0 .. MaxMailClock), NEW t \in 0 .. MaxMailClock, NEW n \in Nat \ {0},
           Close(f, n), t < f[Len(f)] + CounterLife
    PROVE  Close(Append(f, t), n + 1)
<1> DEFINE g == Append(f, t)
           L == Len(f)
<1>1. L \in Nat /\ Len(g) = L + 1 /\ g[L + 1] = t /\ \A i \in 1 .. L : g[i] = f[i]
  BY Extended
<1>2. n <= L /\ \A i \in 1 .. L : L < i + n /\ i < L => f[i + 1] < f[i] + CounterLife
  BY DEF Close
<1>3. ASSUME NEW i \in 1 .. (L + 1), L + 1 < i + (n + 1), i < L + 1
      PROVE  g[i + 1] < g[i] + CounterLife
  <2>1. CASE i = L
    <3>1. L \in 1 .. L
      BY <2>1, <1>1, <1>3
    <3> QED
      BY <2>1, <3>1, <1>1
  <2>2. CASE i # L
    <3>1. i \in 1 .. L /\ i + 1 \in 1 .. L /\ L < i + n /\ i < L
      BY <2>2, <1>3, <1>1
    <3>2. f[i + 1] < f[i] + CounterLife
      BY <3>1, <1>2
    <3> QED
      BY <3>1, <3>2, <1>1
  <2> QED
    BY <2>1, <2>2
<1> HIDE DEF g, L
<1>4. n + 1 <= Len(g)
  BY <1>1, <1>2
<1>5. Close(g, n + 1)
  BY <1>1, <1>3, <1>4 DEF Close
<1> QED
  BY <1>5 DEF g

\* A failure is counted: the counter goes on while it lives, and starts again at one.
LEMMA CountedOn ==
    ASSUME MailsInv, Mails!RecordFailure, mailClock' = mailClock
    PROVE  /\ failedAt' \in Seq(0 .. MaxMailClock) /\ failures' \in [count : Nat, until : Nat]
           /\ Counted' /\ SetByBurst'
<1>1. PICK f, t, n, k, u : /\ f = failedAt /\ t = mailClock /\ n = Mails!RecordedFailures
                           /\ k = failures.count /\ u = failures.until
  OBVIOUS
<1>2. /\ f \in Seq(0 .. MaxMailClock) /\ t \in 0 .. MaxMailClock /\ k \in Nat /\ u \in Nat
      /\ Close(f, k) /\ (k = 0 => u = 0) /\ (k # 0 => u = f[Len(f)] + CounterLife)
  BY <1>1 DEF MailsInv, Counted
<1> DEFINE g == Append(f, t)
<1>3. failedAt' = g /\ failures' = [count |-> n, until |-> t + CounterLife]
  BY <1>1 DEF Mails!RecordFailure
<1>4. n = IF u > t THEN k + 1 ELSE 1
  BY <1>1 DEF Mails!RecordedFailures
<1>5. n \in Nat \ {0}
  BY <1>2, <1>4
<1>6. /\ g \in Seq(0 .. MaxMailClock) /\ Len(f) \in Nat /\ Len(g) = Len(f) + 1 /\ g[Len(g)] = t
      /\ DOMAIN f = 1 .. Len(f) /\ DOMAIN g = 1 .. (Len(f) + 1)
      /\ \A i \in 1 .. Len(f) : g[i] = f[i]
  BY <1>2, Extended
<1>7. Close(g, n)
  <2>1. CASE u > t
    <3>1. k \in Nat \ {0} /\ t < f[Len(f)] + CounterLife /\ n = k + 1
      BY <2>1, <1>2, <1>4
    <3> QED
      BY <3>1, <1>2, CloseOn
  <2>2. CASE ~(u > t)
    <3>1. n = 1
      BY <2>2, <1>4
    <3> QED
      BY <3>1, <1>6 DEF Close
  <2> QED
    BY <2>1, <2>2
<1> HIDE DEF g
<1>8. failures'.count = n /\ failures'.until = t + CounterLife
  BY <1>3
<1>9. Counted'
  BY <1>3, <1>5, <1>6, <1>7, <1>8 DEF Counted, Close
<1>10. SetByBurst'
  <2>1. CASE n >= FailureThreshold
    <3>1. breaker' = t + ResetTimeout
      BY <2>1, <1>1 DEF Mails!RecordFailure
    <3>2. Len(g) \in FailureThreshold .. Len(g)
      BY <2>1, <1>5, <1>6, <1>7, MailNumbers DEF Close
    <3>3. ASSUME NEW i \in (Len(g) - FailureThreshold + 1) .. (Len(g) - 1)
          PROVE  g[i + 1] < g[i] + CounterLife
      <4>1. i \in 1 .. Len(g) /\ Len(g) < i + n /\ i < Len(g)
        BY <2>1, <3>2, <1>5, <1>6, MailNumbers
      <4> QED
        BY <4>1, <1>7 DEF Close
    <3>4. Mails!Burst(Len(g))'
      BY <3>2, <3>3, <1>3 DEF Mails!Burst
    <3>5. Len(g) \in DOMAIN g
      BY <1>6
    <3> QED
      BY <3>1, <3>4, <3>5, <1>3, <1>6 DEF SetByBurst
  <2>2. CASE ~(n >= FailureThreshold)
    <3>1. breaker' = breaker
      BY <2>2, <1>1 DEF Mails!RecordFailure
    <3>2. ASSUME breaker # 0
          PROVE  \E last \in DOMAIN g : Mails!Burst(last)' /\ breaker = g[last] + ResetTimeout
      <4>1. PICK last \in DOMAIN f : Mails!Burst(last) /\ breaker = f[last] + ResetTimeout
        BY <3>2, <1>1 DEF MailsInv, SetByBurst
      <4>2. /\ last \in FailureThreshold .. Len(f) /\ last \in DOMAIN g /\ g[last] = f[last]
            /\ \A i \in (last - FailureThreshold + 1) .. (last - 1) : f[i + 1] < f[i] + CounterLife
        BY <4>1, <1>1, <1>6 DEF Mails!Burst
      <4>3. last \in FailureThreshold .. Len(g)
        BY <4>2, <1>6, MailNumbers
      <4>4. ASSUME NEW i \in (last - FailureThreshold + 1) .. (last - 1)
            PROVE  g[i + 1] < g[i] + CounterLife
        <5>1. i \in 1 .. Len(f) /\ i + 1 \in 1 .. Len(f)
          BY <4>2, <1>6, MailNumbers
        <5> QED
          BY <5>1, <4>2, <1>6
      <4>5. Mails!Burst(last)'
        BY <4>3, <4>4, <1>3 DEF Mails!Burst
      <4> QED
        BY <4>1, <4>2, <4>5
    <3> QED
      BY <3>1, <3>2, <1>3 DEF SetByBurst
  <2> QED
    BY <2>1, <2>2
<1>11. t + CounterLife \in Nat
  BY <1>2, MailNumbers
<1>12. failures' \in [count : Nat, until : Nat]
  BY <1>3, <1>5, <1>11
<1> QED
  BY <1>3, <1>6, <1>9, <1>10, <1>12

LEMMA HandleErrorKeeps ==
    ASSUME MailsInv, NEW m \in Mail, NEW redisUp \in BOOLEAN, Mails!HandleError(m, redisUp)
    PROVE  MailsInv'
<1> DEFINE row == [mail[m] EXCEPT !.at = "failed"]
<1>1. row \in MailRow
  BY DEF MailsInv, MailRow
<1>2. mail' = [mail EXCEPT ![m] = row] /\ mailClock' = mailClock
  BY DEF Mails!HandleError, Mails!Wrapped, Mails!IsRetryableError
<1> HIDE DEF row
<1>3. mail' \in [Mail -> MailRow] /\ mailClock' \in 0 .. MaxMailClock
  BY <1>1, <1>2 DEF MailsInv
<1>4. CASE redisUp
  <2>1. Mails!RecordFailure
    BY <1>4 DEF Mails!HandleError
  <2> QED
    BY <2>1, <1>2, <1>3, CountedOn DEF MailsInv
<1>5. CASE ~redisUp
  <2>1. BreakerRests
    BY <1>5, <1>2 DEF Mails!HandleError, BreakerRests
  <2> QED
    BY <2>1, <1>1, <1>2, MailChanges
<1> QED
  BY <1>4, <1>5

LEMMA MailsKept == ASSUME MailsInv, Mails!Next \/ UNCHANGED mailVars PROVE MailsInv'
<1>1. CASE UNCHANGED mailVars
  BY <1>1 DEF mailVars, MailsInv, Counted, SetByBurst, Mails!Burst
<1>2. CASE Mails!Tick
  BY <1>2, MailNumbers DEF Mails!Tick, MailsInv, Counted, SetByBurst, Mails!Burst
<1> QED
  BY <1>1, <1>2, SendKeeps, CheckBreakerKeeps, SendMailKeeps, RecordSuccessKeeps, HandleErrorKeeps
     DEF Mails!Next

LEMMA MailsHold == ASSUME MailsInv PROVE Mails!TypeOK /\ Mails!BreakerEarned
<1>1. breaker \in 0 .. (MaxMailClock + ResetTimeout)
  <2>1. CASE breaker # 0
    <3>1. PICK last \in DOMAIN failedAt : breaker = failedAt[last] + ResetTimeout
      BY <2>1 DEF MailsInv, SetByBurst
    <3>2. failedAt[last] \in 0 .. MaxMailClock
      BY LenProperties, ElementOfSeq DEF MailsInv
    <3> QED
      BY <3>1, <3>2, MailNumbers
  <2> QED
    BY <2>1, MailNumbers
<1>2. Mails!TypeOK
  BY <1>1, MailNumbers DEF MailsInv, MailRow, Mails!TypeOK
<1>3. Mails!IsOpen => breaker # 0
  BY DEF MailsInv, Mails!IsOpen
<1> QED
  BY <1>2, <1>3 DEF MailsInv, SetByBurst, Mails!BreakerEarned

-----------------------------------------------------------------------------
(* The caches in front of the statistics *)

\* A computation under way began no longer ago than the longest one takes, and what is kept
\* was good for the life of an entry when it ended.
Recent(q) == q # Stats!Idle => q.at <= cacheClock /\ cacheClock <= q.at + MaxCompute
Aged(e) == e.at <= cacheClock /\ e.until <= e.at + MaxCompute + Life

StatsInv ==
    /\ cacheClock \in 0 .. MaxStatsClock
    /\ kept \in [Stats!Caches -> [at : Nat, until : Nat]]
    /\ reading \in [StatsRequest -> [cache : Stats!Caches \cup {"none"}, at : Nat]]
    /\ served \in [Stats!Caches -> Nat]
    /\ \A c \in Stats!Caches : Aged(kept[c]) /\ served[c] <= cacheClock
    /\ \A r \in StatsRequest : Recent(reading[r])

LEMMA StatsNumbers == Life \in Nat /\ MaxCompute \in Nat /\ MaxStatsClock \in Nat
BY Given DEF Stats!StatsCacheAssumption

LEMMA StatsStart == ASSUME Stats!Init PROVE StatsInv
BY StatsNumbers DEF Stats!Init, Stats!Empty, Stats!Idle, Stats!Caches, StatsInv, Recent, Aged

LEMMA ServeKeeps ==
    ASSUME StatsInv, NEW c \in Stats!Caches, Stats!Serve(c) PROVE StatsInv'
<1>1. UNCHANGED <<cacheClock, kept, reading>>
  BY DEF Stats!Serve
<1>2. served' \in [Stats!Caches -> Nat] /\ \A d \in Stats!Caches : served'[d] <= cacheClock
  BY DEF Stats!Serve, StatsInv, Aged
<1> QED
  BY <1>1, <1>2 DEF StatsInv, Recent, Aged

LEMMA ComputeKeeps ==
    ASSUME StatsInv, NEW r \in StatsRequest, NEW c \in Stats!Caches, Stats!Compute(r, c)
    PROVE  StatsInv'
<1>1. UNCHANGED <<cacheClock, kept, served>> /\ cacheClock \in Nat
  BY DEF Stats!Compute, StatsInv
<1>2. reading' = [reading EXCEPT ![r] = [cache |-> c, at |-> cacheClock]]
  BY DEF Stats!Compute
<1>3. reading' \in [StatsRequest -> [cache : Stats!Caches \cup {"none"}, at : Nat]]
  BY <1>1, <1>2 DEF StatsInv
<1>4. ASSUME NEW q \in StatsRequest PROVE Recent(reading'[q])
  BY <1>1, <1>2, StatsNumbers DEF StatsInv, Recent
<1> QED
  BY <1>1, <1>3, <1>4 DEF StatsInv, Recent, Aged

LEMMA StoreKeeps == ASSUME StatsInv, NEW r \in StatsRequest, Stats!Store(r) PROVE StatsInv'
<1>1. PICK c \in Stats!Caches \cup {"none"}, at \in Nat :
         reading[r].cache = c /\ reading[r].at = at /\ at <= cacheClock /\ cacheClock <= at + MaxCompute
  BY DEF StatsInv, Recent, Stats!Store
<1>2. PICK clock \in Nat : clock = cacheClock /\ cacheClock' = clock
  BY DEF StatsInv, Stats!Store
<1> DEFINE row == [at |-> at, until |-> clock + Life]
<1>3. kept' = [kept EXCEPT ![c] = row] /\ served' = [served EXCEPT ![c] = at]
  BY <1>1, <1>2 DEF Stats!Store, Stats!GoodUntil
<1>4. reading' = [reading EXCEPT ![r] = Stats!Idle]
  BY DEF Stats!Store
<1>5. row \in [at : Nat, until : Nat] /\ row.at <= clock /\ row.until <= row.at + MaxCompute + Life
  BY <1>1, <1>2, StatsNumbers
<1> HIDE DEF row
<1>6. kept' \in [Stats!Caches -> [at : Nat, until : Nat]] /\ served' \in [Stats!Caches -> Nat]
  BY <1>3, <1>5 DEF StatsInv
<1>7. ASSUME NEW d \in Stats!Caches PROVE Aged(kept[d])' /\ served'[d] <= cacheClock'
  BY <1>1, <1>2, <1>3, <1>5 DEF StatsInv, Aged
<1>8. /\ reading' \in [StatsRequest -> [cache : Stats!Caches \cup {"none"}, at : Nat]]
      /\ \A q \in StatsRequest : reading'[q] = Stats!Idle \/ reading'[q] = reading[q]
  BY <1>4 DEF StatsInv, Stats!Idle
<1>9. ASSUME NEW q \in StatsRequest PROVE Recent(reading[q])'
  BY <1>2, <1>8 DEF StatsInv, Recent
<1> QED
  BY <1>2, <1>6, <1>7, <1>8, <1>9 DEF StatsInv

LEMMA InvalidateKeeps == ASSUME StatsInv, Stats!InvalidateDashboardCache PROVE StatsInv'
<1>1. UNCHANGED <<cacheClock, reading, served>> /\ cacheClock \in Nat
  BY DEF Stats!InvalidateDashboardCache, StatsInv
<1>2. kept' = [kept EXCEPT !["dashboard"] = Stats!Empty]
  BY DEF Stats!InvalidateDashboardCache
<1>3. /\ kept' \in [Stats!Caches -> [at : Nat, until : Nat]]
      /\ \A d \in Stats!Caches : kept'[d] = Stats!Empty \/ kept'[d] = kept[d]
  BY <1>2 DEF StatsInv, Stats!Empty
<1>4. ASSUME NEW d \in Stats!Caches PROVE Aged(kept[d])'
  BY <1>1, <1>3, StatsNumbers DEF StatsInv, Aged, Stats!Empty
<1> QED
  BY <1>1, <1>3, <1>4 DEF StatsInv, Recent

LEMMA StatsTickKeeps == ASSUME StatsInv, Stats!Tick PROVE StatsInv'
<1>1. UNCHANGED <<kept, reading, served>> /\ cacheClock' = cacheClock + 1
      /\ cacheClock' \in 0 .. MaxStatsClock
  BY StatsNumbers DEF Stats!Tick, StatsInv
<1>2. ASSUME NEW r \in StatsRequest PROVE Recent(reading[r])'
  BY <1>1, StatsNumbers DEF StatsInv, Recent, Stats!Tick
<1>3. ASSUME NEW c \in Stats!Caches PROVE Aged(kept[c])' /\ served'[c] <= cacheClock'
  BY <1>1, StatsNumbers DEF StatsInv, Aged
<1> QED
  BY <1>1, <1>2, <1>3 DEF StatsInv

LEMMA StatsKept == ASSUME StatsInv, Stats!Next \/ UNCHANGED statsVars PROVE StatsInv'
<1>1. CASE UNCHANGED statsVars
  BY <1>1 DEF statsVars, StatsInv, Recent, Aged
<1> QED
  BY <1>1, ServeKeeps, ComputeKeeps, StoreKeeps, InvalidateKeeps, StatsTickKeeps DEF Stats!Next

LEMMA StatsHold == ASSUME StatsInv PROVE Stats!TypeOK /\ Stats!StaleBounded
<1>1. Stats!TypeOK
  BY DEF StatsInv, Aged, Stats!TypeOK
<1>2. ASSUME NEW c \in Stats!Caches, kept[c].until > cacheClock
      PROVE  cacheClock < kept[c].at + MaxCompute + Life
  BY <1>2, StatsNumbers DEF StatsInv, Aged
<1> QED
  BY <1>1, <1>2 DEF Stats!StaleBounded, Stats!Hit

-----------------------------------------------------------------------------
(* The newsletter *)

\* One address has one row at most.
OneRowIn(rows) ==
    \A i, j \in 1 .. MaxRow :
        rows[i] # Newsletter!Gone /\ rows[j] # Newsletter!Gone /\ rows[i].email = rows[j].email
        => i = j

OneRowEach == OneRowIn(subscribers)

NewsletterInv ==
    /\ subscribers \in [1 .. MaxRow -> [email : Email \cup {"none"}, isConfirmed : BOOLEAN]]
    /\ DOMAIN subscription = NewsletterRequest /\ nextRow \in Nat \ {0}
    /\ \A r \in NewsletterRequest :
          /\ subscription[r].op \in {"subscribe", "confirm"} => subscription[r].email \in Email \cup {"none"}
          /\ subscription[r].op = "confirm" => subscription[r].id \in 1 .. MaxRow
    /\ OneRowEach

LEMMA NewsletterNumbers == MaxRow \in Nat
BY Given DEF Newsletter!InboxAssumption

LEMMA NewsletterStart == ASSUME Newsletter!Init PROVE NewsletterInv
<1>0. \A i \in 1 .. MaxRow : subscribers[i] = Newsletter!Gone
  BY DEF Newsletter!Init
<1>1. DOMAIN subscription = NewsletterRequest /\ nextRow \in Nat \ {0} /\ OneRowEach
  BY <1>0 DEF Newsletter!Init, OneRowEach, OneRowIn
<1>2. \A r \in NewsletterRequest : subscription[r].op = "none"
  BY DEF Newsletter!Init, Newsletter!Idle
<1>3. subscribers \in [1 .. MaxRow -> [email : Email \cup {"none"}, isConfirmed : BOOLEAN]]
  BY DEF Newsletter!Init, Newsletter!Gone
<1> QED
  BY <1>1, <1>2, <1>3 DEF NewsletterInv

\* A request that starts keeps what is known of the requests.
LEMMA RequestStarts ==
    ASSUME NewsletterInv, NEW r \in NewsletterRequest, NEW q, UNCHANGED <<subscribers, nextRow>>,
           subscription' = [subscription EXCEPT ![r] = q],
           q.op \in {"subscribe", "confirm"} => q.email \in Email \cup {"none"},
           q.op = "confirm" => q.id \in 1 .. MaxRow
    PROVE  NewsletterInv'
<1>1. DOMAIN subscription' = NewsletterRequest
  BY DEF NewsletterInv
<1>2. ASSUME NEW p \in NewsletterRequest
      PROVE  subscription'[p] = IF p = r THEN q ELSE subscription[p]
  BY <1>2 DEF NewsletterInv
<1>3. OneRowEach'
  BY DEF NewsletterInv, OneRowEach
<1> QED
  BY <1>1, <1>2, <1>3 DEF NewsletterInv

\* A row written at an address that no other row has.
LEMMA RowWritten ==
    ASSUME NewsletterInv, NEW id \in 1 .. MaxRow, NEW row, NEW rows,
           row \in [email : Email \cup {"none"}, isConfirmed : BOOLEAN],
           Newsletter!AddressFree(id, row.email), rows = [subscribers EXCEPT ![id] = row]
    PROVE  /\ rows \in [1 .. MaxRow -> [email : Email \cup {"none"}, isConfirmed : BOOLEAN]]
           /\ OneRowIn(rows)
<1>1. \A i \in 1 .. MaxRow :
         subscribers[i] # Newsletter!Gone /\ subscribers[i].email = row.email => i = id
  BY DEF Newsletter!AddressFree, Newsletter!RowsOf, Newsletter!Rows
<1>2. rows \in [1 .. MaxRow -> [email : Email \cup {"none"}, isConfirmed : BOOLEAN]]
  BY DEF NewsletterInv
<1>3. \A i \in 1 .. MaxRow : rows[i] = IF i = id THEN row ELSE subscribers[i]
  BY DEF NewsletterInv
<1>4. ASSUME NEW i \in 1 .. MaxRow, NEW j \in 1 .. MaxRow, rows[i] # Newsletter!Gone,
             rows[j] # Newsletter!Gone, rows[i].email = rows[j].email
      PROVE  i = j
  BY <1>1, <1>3, <1>4 DEF NewsletterInv, OneRowEach, OneRowIn
<1> QED
  BY <1>2, <1>4 DEF OneRowIn

LEMMA InsertSubscriberKeeps ==
    ASSUME NewsletterInv, NEW r \in NewsletterRequest, Newsletter!InsertSubscriber(r)
    PROVE  NewsletterInv'
<1>1. PICK email \in Email \cup {"none"} : email = subscription[r].email
  BY DEF NewsletterInv, Newsletter!InsertSubscriber
<1>2. PICK id \in Nat \ {0} : id = nextRow /\ id <= MaxRow
  BY DEF NewsletterInv, Newsletter!InsertSubscriber
<1>3. subscription' = [subscription EXCEPT ![r] = Newsletter!Idle]
  BY DEF Newsletter!InsertSubscriber
<1>4. /\ DOMAIN subscription' = NewsletterRequest
      /\ \A q \in NewsletterRequest : subscription'[q] = Newsletter!Idle \/ subscription'[q] = subscription[q]
  BY <1>3 DEF NewsletterInv
<1>5. \A q \in NewsletterRequest :
          /\ subscription'[q].op \in {"subscribe", "confirm"} =>
               subscription'[q].email \in Email \cup {"none"}
          /\ subscription'[q].op = "confirm" => subscription'[q].id \in 1 .. MaxRow
  BY <1>4 DEF NewsletterInv, Newsletter!Idle
<1>6. CASE Newsletter!AddressFree(id, email)
  <2> DEFINE row == [email |-> email, isConfirmed |-> FALSE]
  <2>1. subscribers' = [subscribers EXCEPT ![id] = row]
    BY <1>1, <1>2, <1>6 DEF Newsletter!InsertSubscriber
  <2>2. /\ id \in 1 .. MaxRow
        /\ row \in [email : Email \cup {"none"}, isConfirmed : BOOLEAN] /\ row.email = email
    BY <1>2, NewsletterNumbers
  <2> HIDE DEF row
  <2>3. /\ subscribers' \in [1 .. MaxRow -> [email : Email \cup {"none"}, isConfirmed : BOOLEAN]]
        /\ OneRowEach'
    BY <1>6, <2>1, <2>2, RowWritten DEF OneRowEach
  <2>4. nextRow' \in Nat \ {0}
    BY <1>1, <1>2, <1>6 DEF Newsletter!InsertSubscriber
  <2> QED
    BY <1>4, <1>5, <2>3, <2>4 DEF NewsletterInv
<1>7. CASE ~Newsletter!AddressFree(id, email)
  <2>1. UNCHANGED <<subscribers, nextRow>>
    BY <1>1, <1>2, <1>7 DEF Newsletter!InsertSubscriber
  <2> QED
    BY <1>4, <1>5, <2>1 DEF NewsletterInv, OneRowEach
<1> QED
  BY <1>6, <1>7

LEMMA SaveConfirmedKeeps ==
    ASSUME NewsletterInv, NEW r \in NewsletterRequest, Newsletter!SaveConfirmed(r)
    PROVE  NewsletterInv'
<1>1. PICK email \in Email \cup {"none"}, id \in 1 .. MaxRow :
         email = subscription[r].email /\ id = subscription[r].id
  BY DEF NewsletterInv, Newsletter!SaveConfirmed
<1>3. subscription' = [subscription EXCEPT ![r] = Newsletter!Idle] /\ nextRow' = nextRow
  BY DEF Newsletter!SaveConfirmed
<1>4. /\ DOMAIN subscription' = NewsletterRequest
      /\ \A q \in NewsletterRequest : subscription'[q] = Newsletter!Idle \/ subscription'[q] = subscription[q]
  BY <1>3 DEF NewsletterInv
<1>5. \A q \in NewsletterRequest :
          /\ subscription'[q].op \in {"subscribe", "confirm"} =>
               subscription'[q].email \in Email \cup {"none"}
          /\ subscription'[q].op = "confirm" => subscription'[q].id \in 1 .. MaxRow
  BY <1>4 DEF NewsletterInv, Newsletter!Idle
<1>6. CASE Newsletter!AddressFree(id, email)
  <2> DEFINE row == [email |-> email, isConfirmed |-> TRUE]
  <2>1. subscribers' = [subscribers EXCEPT ![id] = row]
    BY <1>1, <1>6 DEF Newsletter!SaveConfirmed
  <2>2. row \in [email : Email \cup {"none"}, isConfirmed : BOOLEAN] /\ row.email = email
    OBVIOUS
  <2> HIDE DEF row
  <2>3. /\ subscribers' \in [1 .. MaxRow -> [email : Email \cup {"none"}, isConfirmed : BOOLEAN]]
        /\ OneRowEach'
    BY <1>6, <2>1, <2>2, RowWritten DEF OneRowEach
  <2> QED
    BY <1>3, <1>4, <1>5, <2>3 DEF NewsletterInv
<1>7. CASE ~Newsletter!AddressFree(id, email)
  <2>1. UNCHANGED subscribers
    BY <1>1, <1>7 DEF Newsletter!SaveConfirmed
  <2> QED
    BY <1>3, <1>4, <1>5, <2>1 DEF NewsletterInv, OneRowEach
<1> QED
  BY <1>6, <1>7

LEMMA UnsubscribeKeeps ==
    ASSUME NewsletterInv, NEW id \in 1 .. MaxRow, Newsletter!Unsubscribe(id)
    PROVE  NewsletterInv'
<1>1. subscribers' = [subscribers EXCEPT ![id] = Newsletter!Gone] /\ UNCHANGED <<nextRow, subscription>>
  BY DEF Newsletter!Unsubscribe
<1>2. Newsletter!Gone \in [email : Email \cup {"none"}, isConfirmed : BOOLEAN]
  BY DEF Newsletter!Gone
<1>3. /\ subscribers' \in [1 .. MaxRow -> [email : Email \cup {"none"}, isConfirmed : BOOLEAN]]
      /\ \A i \in 1 .. MaxRow : subscribers'[i] # Newsletter!Gone => subscribers'[i] = subscribers[i]
  BY <1>1, <1>2 DEF NewsletterInv
<1>4. OneRowEach'
  BY <1>3 DEF NewsletterInv, OneRowEach, OneRowIn
<1> QED
  BY <1>1, <1>3, <1>4 DEF NewsletterInv

LEMMA StartSubscribeKeeps ==
    ASSUME NewsletterInv, NEW r \in NewsletterRequest, NEW email \in Email,
           Newsletter!StartSubscribe(r, email)
    PROVE  NewsletterInv'
<1> DEFINE q == [op |-> "subscribe", id |-> 0, email |-> email]
<1>1. \/ subscription' = [subscription EXCEPT ![r] = q]
      \/ subscription' = [subscription EXCEPT ![r] = Newsletter!Idle]
  BY DEF Newsletter!StartSubscribe
<1>2. UNCHANGED <<subscribers, nextRow>>
  BY DEF Newsletter!StartSubscribe
<1>3. q.op = "subscribe" /\ q.email \in Email \cup {"none"}
  OBVIOUS
<1>4. Newsletter!Idle.op = "none"
  BY DEF Newsletter!Idle
<1> HIDE DEF q
<1> QED
  BY <1>1, <1>2, <1>3, <1>4, RequestStarts

LEMMA StartConfirmKeeps ==
    ASSUME NewsletterInv, NEW r \in NewsletterRequest, NEW id \in 1 .. MaxRow,
           Newsletter!StartConfirm(r, id)
    PROVE  NewsletterInv'
<1> DEFINE q == [op |-> "confirm", id |-> id, email |-> subscribers[id].email]
<1>1. subscription' = [subscription EXCEPT ![r] = q] /\ UNCHANGED <<subscribers, nextRow>>
  BY DEF Newsletter!StartConfirm
<1>2. q.id \in 1 .. MaxRow /\ q.email \in Email \cup {"none"}
  BY DEF NewsletterInv
<1> HIDE DEF q
<1> QED
  BY <1>1, <1>2, RequestStarts

\* The contact form and the gateway leave the newsletter alone.
LEMMA NewsletterKept ==
    ASSUME NewsletterInv, Newsletter!Next \/ UNCHANGED inboxVars PROVE NewsletterInv'
<1>1. CASE UNCHANGED <<subscribers, nextRow, subscription>>
  BY <1>1 DEF NewsletterInv, OneRowEach
<1>2. CASE UNCHANGED inboxVars
  BY <1>1, <1>2 DEF inboxVars
<1>3. CASE Newsletter!WindowPasses \/ Newsletter!SendToAll
  BY <1>1, <1>3 DEF Newsletter!WindowPasses, Newsletter!SendToAll, Newsletter!newsletterVars
<1> QED
  BY <1>1, <1>2, <1>3, StartSubscribeKeeps, InsertSubscriberKeeps, StartConfirmKeeps,
     SaveConfirmedKeeps, UnsubscribeKeeps DEF Newsletter!Next

LEMMA NewsletterCount == ASSUME NEW S PROVE Newsletter!Cardinality(S) = Cardinality(S)
BY Zenon DEF Newsletter!Cardinality, Cardinality

LEMMA NewsletterHolds ==
    ASSUME NewsletterInv PROVE Newsletter!TypeOK /\ Newsletter!OneRowPerAddress
<1>1. Newsletter!TypeOK
  BY DEF NewsletterInv, Newsletter!TypeOK
<1>2. ASSUME NEW email \in Email PROVE Cardinality(Newsletter!RowsOf(email)) <= 1
  <2>1. CASE Newsletter!RowsOf(email) = {}
    <3>1. Cardinality(Newsletter!RowsOf(email)) = 0
      BY <2>1, FS_EmptySet
    <3> QED
      BY <3>1
  <2>2. CASE Newsletter!RowsOf(email) # {}
    <3>1. PICK id : id \in Newsletter!RowsOf(email)
      BY <2>2
    <3>2. Newsletter!RowsOf(email) = {id}
      BY <3>1 DEF NewsletterInv, OneRowEach, OneRowIn, Newsletter!RowsOf, Newsletter!Rows
    <3>3. Cardinality(Newsletter!RowsOf(email)) = 1
      BY <3>2, FS_Singleton
    <3> QED
      BY <3>3
  <2> QED
    BY <2>1, <2>2
<1> QED
  BY <1>1, <1>2, NewsletterCount DEF Newsletter!OneRowPerAddress

-----------------------------------------------------------------------------
(* Workspaces, amenities and hubs *)

TablesInv ==
    /\ workspaces \in [Workspace -> [state : {"absent", "live", "deleted"}, amenities : SUBSET Amenity]]
    /\ amenities \in [Amenity -> [name : Name \cup {None}, deleted : BOOLEAN]]
    /\ hubs \subseteq Slug /\ DOMAIN edit = TableRequest
    /\ picture = 0 /\ assets = {} /\ uploads = 0
    /\ \A r \in TableRequest :
          /\ edit[r].op \in {"none", "update", "hub", "profile"}
          /\ edit[r].op = "hub" => edit[r].on \in Slug
          /\ edit[r].op = "profile" => edit[r].old = 0

LEMMA TablesStart == ASSUME Tables!Init PROVE TablesInv
<1>1. workspaces \in [Workspace -> [state : {"absent", "live", "deleted"}, amenities : SUBSET Amenity]]
  BY DEF Tables!Init, Tables!NoWorkspace
<1>2. amenities \in [Amenity -> [name : Name \cup {None}, deleted : BOOLEAN]]
  BY DEF Tables!Init, Tables!NoAmenity
<1> QED
  BY <1>1, <1>2 DEF Tables!Init, Tables!Idle, TablesInv

\* A step of one request that leaves the tables as the invariant wants them.
LEMMA EditMoves ==
    ASSUME TablesInv, NEW r \in TableRequest, NEW q, edit' = [edit EXCEPT ![r] = q],
           workspaces' \in [Workspace -> [state : {"absent", "live", "deleted"}, amenities : SUBSET Amenity]],
           amenities' = amenities, hubs' \subseteq Slug,
           picture' = 0, assets' = {}, uploads' = 0,
           q.op \in {"none", "update", "hub", "profile"},
           q.op = "hub" => q.on \in Slug, q.op = "profile" => q.old = 0
    PROVE  TablesInv'
<1>1. DOMAIN edit' = TableRequest
  BY DEF TablesInv
<1>2. \A p \in TableRequest : edit'[p] = IF p = r THEN q ELSE edit[p]
  BY DEF TablesInv
<1>3. \A p \in TableRequest :
          /\ edit'[p].op \in {"none", "update", "hub", "profile"}
          /\ edit'[p].op = "hub" => edit'[p].on \in Slug
          /\ edit'[p].op = "profile" => edit'[p].old = 0
  BY <1>2 DEF TablesInv
<1> QED
  BY <1>1, <1>3 DEF TablesInv

LEMMA TableRequestKeeps ==
    ASSUME TablesInv, NEW r \in TableRequest,
           \/ \E w \in Workspace : Tables!LoadWorkspace(r, w)
           \/ \E slug \in Slug : Tables!StartHub(r, slug)
           \/ Tables!InsertHub(r) \/ Tables!LoadProfile(r) \/ Tables!SaveProfile(r)
    PROVE  TablesInv'
<1>1. /\ workspaces \in [Workspace -> [state : {"absent", "live", "deleted"}, amenities : SUBSET Amenity]]
      /\ hubs \subseteq Slug /\ picture = 0 /\ assets = {} /\ uploads = 0
  BY DEF TablesInv
<1>2. ASSUME NEW w \in Workspace, Tables!LoadWorkspace(r, w) PROVE TablesInv'
  <2> DEFINE q == [Tables!Idle EXCEPT !.op = "update", !.on = w]
  <2>1. edit' = [edit EXCEPT ![r] = q] /\ UNCHANGED <<workspaces, amenities, hubs, picture, assets, uploads>>
    BY <1>2 DEF Tables!LoadWorkspace, Tables!Go, Tables!tableVars, Tables!pictureVars
  <2>2. q.op = "update"
    BY DEF Tables!Idle
  <2> HIDE DEF q
  <2> QED
    BY <1>1, <2>1, <2>2, EditMoves
<1>3. ASSUME NEW slug \in Slug, Tables!StartHub(r, slug) PROVE TablesInv'
  <2> DEFINE q == [Tables!Idle EXCEPT !.op = "hub", !.on = slug]
  <2>1. edit' = [edit EXCEPT ![r] = q] /\ UNCHANGED <<workspaces, amenities, hubs, picture, assets, uploads>>
    BY <1>3 DEF Tables!StartHub, Tables!Go, Tables!tableVars, Tables!pictureVars
  <2>2. q.op = "hub" /\ q.on \in Slug
    BY DEF Tables!Idle
  <2> HIDE DEF q
  <2> QED
    BY <1>1, <2>1, <2>2, EditMoves
<1>4. Tables!Idle.op = "none"
  BY DEF Tables!Idle
<1>5. CASE Tables!InsertHub(r)
  <2>1. /\ edit' = [edit EXCEPT ![r] = Tables!Idle]
        /\ UNCHANGED <<workspaces, amenities, picture, assets, uploads>>
    BY <1>5 DEF Tables!InsertHub, Tables!Go, Tables!pictureVars
  <2>2. hubs' \subseteq Slug
    BY <1>5 DEF Tables!InsertHub, TablesInv
  <2> QED
    BY <1>1, <1>4, <2>1, <2>2, EditMoves
<1>6. CASE Tables!LoadProfile(r)
  <2> DEFINE q == [Tables!Idle EXCEPT !.op = "profile", !.old = picture]
  <2>1. edit' = [edit EXCEPT ![r] = q] /\ UNCHANGED <<workspaces, amenities, hubs, picture, assets, uploads>>
    BY <1>6 DEF Tables!LoadProfile, Tables!Go, Tables!tableVars, Tables!pictureVars
  <2>2. q.op = "profile" /\ q.old = 0
    BY <1>1 DEF Tables!Idle
  <2> HIDE DEF q
  <2> QED
    BY <1>1, <2>1, <2>2, EditMoves
<1>7. CASE Tables!SaveProfile(r)
  <2>1. /\ edit' = [edit EXCEPT ![r] = Tables!Idle]
        /\ UNCHANGED <<workspaces, amenities, hubs, assets, uploads>>
    BY <1>7 DEF Tables!SaveProfile, Tables!Go, Tables!tableVars
  <2>2. picture' = 0
    BY <1>7 DEF Tables!SaveProfile, TablesInv
  <2> QED
    BY <1>1, <1>4, <2>1, <2>2, EditMoves
<1> QED
  BY <1>2, <1>3, <1>5, <1>6, <1>7

LEMMA UpdateWorkspaceKeeps ==
    ASSUME TablesInv, NEW r \in TableRequest, NEW ids \in SUBSET Amenity,
           Tables!UpdateWorkspace(r, ids)
    PROVE  TablesInv'
<1>1. PICK w : w = edit[r].on
  OBVIOUS
<1> DEFINE row == [state |-> "live",
                   amenities |-> IF ids = {} THEN workspaces[w].amenities ELSE Tables!FindByIds(ids)]
<1>2. workspaces' = [workspaces EXCEPT ![w] = row]
  BY <1>1 DEF Tables!UpdateWorkspace
<1>3. workspaces \in [Workspace -> [state : {"absent", "live", "deleted"}, amenities : SUBSET Amenity]]
  BY DEF TablesInv
<1>4. w \in Workspace => row \in [state : {"absent", "live", "deleted"}, amenities : SUBSET Amenity]
  BY <1>3 DEF Tables!FindByIds
<1> HIDE DEF row
<1>5. workspaces' \in [Workspace -> [state : {"absent", "live", "deleted"}, amenities : SUBSET Amenity]]
  BY <1>2, <1>3, <1>4
<1>6. /\ edit' = [edit EXCEPT ![r] = Tables!Idle]
      /\ UNCHANGED <<amenities, hubs, picture, assets, uploads>>
  BY DEF Tables!UpdateWorkspace, Tables!Go, Tables!pictureVars
<1>7. Tables!Idle.op = "none"
  BY DEF Tables!Idle
<1>8. hubs \subseteq Slug /\ picture = 0 /\ assets = {} /\ uploads = 0
  BY DEF TablesInv
<1> QED
  BY <1>5, <1>6, <1>7, <1>8, EditMoves

\* Steps of an admin: no request under way changes.
LEMMA TableAdminKeeps ==
    ASSUME TablesInv,
           \/ \E a \in Amenity : (\E name \in Name : Tables!CreateAmenity(a, name)) \/ Tables!RemoveAmenity(a)
           \/ \E w \in Workspace :
                 (\E ids \in SUBSET Amenity : Tables!CreateWorkspace(w, ids)) \/ Tables!SoftDelete(w)
    PROVE  TablesInv'
<1>1. /\ workspaces \in [Workspace -> [state : {"absent", "live", "deleted"}, amenities : SUBSET Amenity]]
      /\ amenities \in [Amenity -> [name : Name \cup {None}, deleted : BOOLEAN]]
  BY DEF TablesInv
<1>2. /\ workspaces' \in [Workspace -> [state : {"absent", "live", "deleted"}, amenities : SUBSET Amenity]]
      /\ amenities' \in [Amenity -> [name : Name \cup {None}, deleted : BOOLEAN]]
      /\ UNCHANGED <<hubs, edit, picture, assets, uploads>>
  <2>1. ASSUME NEW a \in Amenity, NEW name \in Name, Tables!CreateAmenity(a, name)
        PROVE  /\ amenities' \in [Amenity -> [name : Name \cup {None}, deleted : BOOLEAN]]
               /\ UNCHANGED <<workspaces, hubs, edit, picture, assets, uploads>>
    BY <1>1, <2>1 DEF Tables!CreateAmenity, Tables!pictureVars
  <2>2. ASSUME NEW a \in Amenity, Tables!RemoveAmenity(a)
        PROVE  /\ amenities' \in [Amenity -> [name : Name \cup {None}, deleted : BOOLEAN]]
               /\ UNCHANGED <<workspaces, hubs, edit, picture, assets, uploads>>
    BY <1>1, <2>2 DEF Tables!RemoveAmenity, Tables!pictureVars
  <2>3. ASSUME NEW w \in Workspace, NEW ids \in SUBSET Amenity, Tables!CreateWorkspace(w, ids)
        PROVE  /\ workspaces' \in [Workspace -> [state : {"absent", "live", "deleted"}, amenities : SUBSET Amenity]]
               /\ UNCHANGED <<amenities, hubs, edit, picture, assets, uploads>>
    BY <1>1, <2>3 DEF Tables!CreateWorkspace, Tables!FindByIds, Tables!pictureVars
  <2>4. ASSUME NEW w \in Workspace, Tables!SoftDelete(w)
        PROVE  /\ workspaces' \in [Workspace -> [state : {"absent", "live", "deleted"}, amenities : SUBSET Amenity]]
               /\ UNCHANGED <<amenities, hubs, edit, picture, assets, uploads>>
    BY <1>1, <2>4 DEF Tables!SoftDelete, Tables!pictureVars
  <2> QED
    BY <1>1, <2>1, <2>2, <2>3, <2>4
<1> QED
  BY <1>2 DEF TablesInv

LEMMA TablesKept == ASSUME TablesInv, Tables!Next \/ UNCHANGED catalogVars PROVE TablesInv'
<1>1. CASE UNCHANGED catalogVars
  BY <1>1 DEF catalogVars, TablesInv
<1>2. ASSUME NEW r \in TableRequest, NEW fails \in BOOLEAN
      PROVE  ~Tables!UploadPicture(r) /\ ~Tables!DeleteAsset(r, fails) /\ ~Tables!SavePicture(r, fails)
  BY DEF TablesInv, Tables!UploadPicture, Tables!DeleteAsset, Tables!SavePicture
<1>3. \A r \in TableRequest : ~Tables!UploadPicture(r)
  BY <1>2
<1> QED
  BY <1>1, <1>2, <1>3, TableRequestKeeps, UpdateWorkspaceKeeps, TableAdminKeeps DEF Tables!Next

LEMMA TablesHold == ASSUME TablesInv PROVE Tables!TypeOK
<1>1. picture \in 0 .. 0 /\ assets \subseteq 1 .. 0
  BY DEF TablesInv
<1>2. \A w \in Workspace :
         workspaces[w].state \in {"absent", "live", "deleted"} /\ workspaces[w].amenities \subseteq Amenity
  BY DEF TablesInv
<1>3. \A a \in Amenity : amenities[a].name \in Name \union {None}
  BY DEF TablesInv
<1> QED
  BY <1>1, <1>2, <1>3 DEF TablesInv, Tables!TypeOK

-----------------------------------------------------------------------------
(* The picture of a user *)

\* A request that has uploaded its picture and not yet saved the row.
Replacing(r) == edit[r].op \in {"uploaded", "replace"}

\* Its picture is at the host, and nobody has seen it.
Unseen(r) ==
    /\ edit[r].new \in assets /\ edit[r].new # picture
    /\ \A q \in PictureRequest : edit[q].op # "none" => edit[q].old # edit[r].new
    /\ \A q \in PictureRequest : Replacing(q) /\ edit[q].new = edit[r].new => q = r

PicturesInv ==
    /\ hubs = {} /\ DOMAIN edit = PictureRequest
    /\ uploads \in 0 .. MaxAsset /\ picture \in 0 .. uploads /\ assets \subseteq 1 .. uploads
    /\ \A r \in PictureRequest :
          /\ edit[r] # Pictures!Idle => edit[r].op \in {"uploaded", "replace", "profile"}
          /\ edit[r].op # "none" => edit[r].old \in 0 .. uploads
          /\ Replacing(r) => edit[r].new \in 1 .. uploads /\ Unseen(r)

LEMMA PictureNumbers == MaxAsset \in Nat
BY Given DEF Pictures!CatalogAssumption

LEMMA PicturesStart == ASSUME Pictures!Init PROVE PicturesInv
<1>1. hubs = {} /\ DOMAIN edit = PictureRequest
  BY DEF Pictures!Init
<1>2. uploads \in 0 .. MaxAsset /\ picture \in 0 .. uploads /\ assets \subseteq 1 .. uploads /\ picture = 0
  BY PictureNumbers DEF Pictures!Init
<1>3. \A r \in PictureRequest : edit[r] = Pictures!Idle /\ edit[r].op = "none"
  BY DEF Pictures!Init, Pictures!Idle
<1> QED
  BY <1>1, <1>2, <1>3 DEF PicturesInv, Replacing

\* What happens to the pictures when one request moves on.
PictureTypes ==
    /\ uploads \in 0 .. MaxAsset /\ picture \in 0 .. uploads /\ assets \subseteq 1 .. uploads
    /\ hubs = {} /\ DOMAIN edit = PictureRequest

EditTypes(r) ==
    /\ edit[r] # Pictures!Idle => edit[r].op \in {"uploaded", "replace", "profile"}
    /\ edit[r].op # "none" => edit[r].old \in 0 .. uploads
    /\ Replacing(r) => edit[r].new \in 1 .. uploads

LEMMA PicturesParts ==
    /\ PicturesInv <=> /\ PictureTypes
                       /\ \A r \in PictureRequest : EditTypes(r) /\ (Replacing(r) => Unseen(r))
    /\ PicturesInv' <=> /\ PictureTypes'
                        /\ \A r \in PictureRequest : EditTypes(r)' /\ (Replacing(r)' => Unseen(r)')
BY DEF PicturesInv, PictureTypes, EditTypes

LEMMA IdleEdit == Pictures!Idle.op = "none"
BY DEF Pictures!Idle

LEMMA EditIs ==
    ASSUME PicturesInv, NEW r \in PictureRequest, NEW q, edit' = [edit EXCEPT ![r] = q]
    PROVE  /\ DOMAIN edit' = PictureRequest
           /\ \A p \in PictureRequest : edit'[p] = IF p = r THEN q ELSE edit[p]
BY DEF PicturesInv

LEMMA UploadPictureKeeps ==
    ASSUME PicturesInv, NEW r \in PictureRequest, Pictures!UploadPicture(r) PROVE PicturesInv'
<1>1. PICK n \in Nat \ {0}, old \in Nat : n = uploads + 1 /\ old = picture /\ old < n /\ n <= MaxAsset
  BY PictureNumbers DEF PicturesInv, Pictures!UploadPicture
<1> DEFINE q == [Pictures!Idle EXCEPT !.op = "uploaded", !.old = old, !.new = n]
<1>2. edit' = [edit EXCEPT ![r] = q]
  BY <1>1 DEF Pictures!UploadPicture, Pictures!Go
<1>3. /\ uploads' = n /\ assets' = assets \cup {n} /\ UNCHANGED <<hubs, picture>>
      /\ edit[r] = Pictures!Idle
  BY <1>1 DEF Pictures!UploadPicture, Pictures!tableVars
<1>4. q.op = "uploaded" /\ q.old = old /\ q.new = n
  BY DEF Pictures!Idle
<1> HIDE DEF q
<1>5. /\ DOMAIN edit' = PictureRequest
      /\ \A p \in PictureRequest : edit'[p] = IF p = r THEN q ELSE edit[p]
  BY <1>2, EditIs
<1>6. PictureTypes'
  <2>1. hubs' = {}
    BY <1>3 DEF PicturesInv
  <2>2. uploads' \in 0 .. MaxAsset /\ picture' \in 0 .. uploads' /\ assets' \subseteq 1 .. uploads'
    BY <1>1, <1>3, PictureNumbers DEF PicturesInv
  <2> QED
    BY <1>5, <2>1, <2>2 DEF PictureTypes
<1>7. ASSUME NEW p \in PictureRequest PROVE EditTypes(p)'
  BY <1>1, <1>3, <1>4, <1>5, PictureNumbers DEF PicturesInv, EditTypes, Replacing
<1>8. \A p \in PictureRequest : edit[p].op # "none" => edit[p].old # n
  BY <1>1 DEF PicturesInv
<1>9. \A p \in PictureRequest : Replacing(p) => edit[p].new # n
  BY <1>1 DEF PicturesInv
<1>10. n \notin assets
  BY <1>1 DEF PicturesInv
<1>11. ASSUME NEW p \in PictureRequest, Replacing(p)' PROVE Unseen(p)'
  <2>1. CASE p = r
    BY <2>1, <1>1, <1>3, <1>4, <1>5, <1>8, <1>9 DEF Unseen, Replacing
  <2>2. CASE p # r
    <3>1. Unseen(p) /\ Replacing(p)
      BY <2>2, <1>11, <1>5 DEF PicturesInv, Replacing
    <3> QED
      BY <2>2, <3>1, <1>1, <1>3, <1>4, <1>5, <1>9 DEF Unseen, Replacing
  <2> QED
    BY <2>1, <2>2
<1> QED
  BY <1>6, <1>7, <1>11, PicturesParts

\* The row of a request that is over, or that has read the picture, has no part in it.
LEMMA EditLeaves ==
    ASSUME PicturesInv, NEW r \in PictureRequest, NEW q, edit' = [edit EXCEPT ![r] = q],
           UNCHANGED <<hubs, picture, assets, uploads>>,
           q = Pictures!Idle \/ (q.op = "profile" /\ q.old = picture)
    PROVE  PicturesInv'
<1>1. /\ DOMAIN edit' = PictureRequest
      /\ \A p \in PictureRequest : edit'[p] = IF p = r THEN q ELSE edit[p]
  BY EditIs
<1>2. PictureTypes'
  BY <1>1 DEF PicturesInv, PictureTypes
<1>3. ASSUME NEW p \in PictureRequest PROVE EditTypes(p)'
  BY <1>1, IdleEdit DEF PicturesInv, EditTypes, Replacing
<1>4. ASSUME NEW p \in PictureRequest, Replacing(p)' PROVE Unseen(p)'
  <2>1. p # r /\ Replacing(p) /\ Unseen(p)
    BY <1>1, <1>4, IdleEdit DEF PicturesInv, Replacing
  <2> QED
    BY <1>1, <2>1, IdleEdit DEF Unseen, Replacing
<1> QED
  BY <1>2, <1>3, <1>4, PicturesParts

LEMMA LoadProfileKeeps ==
    ASSUME PicturesInv, NEW r \in PictureRequest, Pictures!LoadProfile(r) PROVE PicturesInv'
<1> DEFINE q == [Pictures!Idle EXCEPT !.op = "profile", !.old = picture]
<1>1. /\ edit' = [edit EXCEPT ![r] = q] /\ UNCHANGED <<hubs, picture, assets, uploads>>
      /\ edit[r] = Pictures!Idle
  BY DEF Pictures!LoadProfile, Pictures!Go, Pictures!tableVars, Pictures!pictureVars, PicturesInv
<1>2. q.op = "profile" /\ q.old = picture
  BY DEF Pictures!Idle
<1> HIDE DEF q
<1> QED
  BY <1>1, <1>2, IdleEdit, EditLeaves

LEMMA DeleteAssetKeeps ==
    ASSUME PicturesInv, NEW r \in PictureRequest, NEW fails \in BOOLEAN, Pictures!DeleteAsset(r, fails)
    PROVE  PicturesInv'
<1>1. PICK old \in Nat, new \in Nat : old = edit[r].old /\ new = edit[r].new /\ old <= uploads
  BY PictureNumbers DEF PicturesInv, Pictures!DeleteAsset, Replacing
<1>2. /\ edit[r].op = "uploaded" /\ UNCHANGED <<hubs, picture, uploads>>
  BY DEF Pictures!DeleteAsset, Pictures!tableVars, PicturesInv
<1>3. CASE fails /\ old # 0
  <2>1. edit' = [edit EXCEPT ![r] = Pictures!Idle] /\ assets' = assets
    BY <1>1, <1>3 DEF Pictures!DeleteAsset, Pictures!Go
  <2>2. PICK q : q = Pictures!Idle
    OBVIOUS
  <2>3. edit' = [edit EXCEPT ![r] = q] /\ UNCHANGED <<hubs, picture, assets, uploads>>
    BY <1>2, <2>1, <2>2
  <2> QED
    BY <2>2, <2>3, EditLeaves
<1>4. CASE ~(fails /\ old # 0)
  <2> DEFINE q == [edit[r] EXCEPT !.op = "replace"]
  <2>1. edit' = [edit EXCEPT ![r] = q] /\ assets' \subseteq assets /\ \A a \in assets : a # old => a \in assets'
    BY <1>1, <1>4 DEF Pictures!DeleteAsset, Pictures!Go, PicturesInv
  <2>2. q.op = "replace" /\ q.old = old /\ q.new = new
    <3>1. edit[r] # Pictures!Idle
      BY <1>2, IdleEdit
    <3> QED
      BY <1>1, <3>1
  <2> HIDE DEF q
  <2>3. /\ DOMAIN edit' = PictureRequest
        /\ \A p \in PictureRequest : edit'[p] = IF p = r THEN q ELSE edit[p]
    BY <2>1, EditIs
  <2>4. PictureTypes'
    BY <1>2, <2>1, <2>3 DEF PicturesInv, PictureTypes
  <2>5. ASSUME NEW p \in PictureRequest PROVE EditTypes(p)'
    BY <1>1, <1>2, <2>2, <2>3, IdleEdit DEF PicturesInv, EditTypes, Replacing
  <2>6. ASSUME NEW p \in PictureRequest
        PROVE  /\ Replacing(p)' <=> Replacing(p)
               /\ edit'[p].new = edit[p].new /\ edit'[p].old = edit[p].old
               /\ edit'[p].op # "none" <=> edit[p].op # "none"
    BY <1>1, <1>2, <2>2, <2>3 DEF Replacing
  <2>7. ASSUME NEW p \in PictureRequest, Replacing(p)' PROVE Unseen(p)'
    <3>1. Replacing(p) /\ Unseen(p)
      BY <2>6, <2>7 DEF PicturesInv
    <3>2. edit[p].new # old
      BY <3>1, <1>1, <1>2 DEF Unseen
    <3> QED
      BY <1>2, <2>1, <2>6, <3>1, <3>2 DEF Unseen
  <2> QED
    BY <2>4, <2>5, <2>7, PicturesParts
<1> QED
  BY <1>3, <1>4

LEMMA SavePictureKeeps ==
    ASSUME PicturesInv, NEW r \in PictureRequest, NEW fails \in BOOLEAN, Pictures!SavePicture(r, fails)
    PROVE  PicturesInv'
<1>1. PICK new \in Nat : new = edit[r].new /\ new \in 1 .. uploads
  BY PictureNumbers DEF PicturesInv, Pictures!SavePicture, Replacing
<1>2. /\ edit' = [edit EXCEPT ![r] = Pictures!Idle] /\ UNCHANGED <<hubs, assets, uploads>>
      /\ edit[r].op = "replace" /\ Replacing(r) /\ Unseen(r)
  BY DEF Pictures!SavePicture, Pictures!Go, Pictures!tableVars, PicturesInv, Replacing
<1>3. picture' = picture \/ picture' = new
  BY <1>1 DEF Pictures!SavePicture
<1>4. /\ DOMAIN edit' = PictureRequest
      /\ \A p \in PictureRequest : edit'[p] = IF p = r THEN Pictures!Idle ELSE edit[p]
  BY <1>2, EditIs
<1>5. PictureTypes'
  BY <1>1, <1>2, <1>3, <1>4 DEF PicturesInv, PictureTypes
<1>6. ASSUME NEW p \in PictureRequest PROVE EditTypes(p)'
  BY <1>2, <1>4, IdleEdit DEF PicturesInv, EditTypes, Replacing
<1>7. ASSUME NEW p \in PictureRequest, Replacing(p)' PROVE Unseen(p)'
  <2>1. p # r /\ Replacing(p) /\ Unseen(p)
    BY <1>4, <1>7, IdleEdit DEF PicturesInv, Replacing
  <2>2. edit[p].new # new
    BY <1>1, <1>2, <2>1 DEF Unseen
  <2>3. edit[p].new # picture'
    BY <1>3, <2>1, <2>2 DEF Unseen
  <2> QED
    BY <1>2, <1>4, <2>1, <2>3, IdleEdit DEF Unseen, Replacing
<1> QED
  BY <1>5, <1>6, <1>7, PicturesParts

LEMMA SaveProfileKeeps ==
    ASSUME PicturesInv, NEW r \in PictureRequest, Pictures!SaveProfile(r) PROVE PicturesInv'
<1>1. PICK old \in Nat : old = edit[r].old /\ old \in 0 .. uploads
  BY PictureNumbers DEF PicturesInv, Pictures!SaveProfile
<1>2. /\ edit' = [edit EXCEPT ![r] = Pictures!Idle] /\ UNCHANGED <<hubs, assets, uploads>>
      /\ edit[r].op = "profile" /\ picture' = old
  BY <1>1 DEF Pictures!SaveProfile, Pictures!Go, Pictures!tableVars, PicturesInv
<1>3. /\ DOMAIN edit' = PictureRequest
      /\ \A p \in PictureRequest : edit'[p] = IF p = r THEN Pictures!Idle ELSE edit[p]
  BY <1>2, EditIs
<1>4. PictureTypes'
  BY <1>1, <1>2, <1>3 DEF PicturesInv, PictureTypes
<1>5. ASSUME NEW p \in PictureRequest PROVE EditTypes(p)'
  BY <1>2, <1>3, IdleEdit DEF PicturesInv, EditTypes, Replacing
<1>6. ASSUME NEW p \in PictureRequest, Replacing(p)' PROVE Unseen(p)'
  <2>1. p # r /\ Replacing(p) /\ Unseen(p)
    BY <1>3, <1>6, IdleEdit DEF PicturesInv, Replacing
  <2>2. edit[p].new # picture'
    BY <1>1, <1>2, <2>1 DEF Unseen
  <2> QED
    BY <1>2, <1>3, <2>1, <2>2, IdleEdit DEF Unseen, Replacing
<1> QED
  BY <1>4, <1>5, <1>6, PicturesParts

LEMMA PicturesKept == ASSUME PicturesInv, Pictures!Next \/ UNCHANGED catalogVars PROVE PicturesInv'
<1>1. CASE UNCHANGED catalogVars
  <2>1. UNCHANGED <<hubs, edit, picture, assets, uploads>>
    BY <1>1 DEF catalogVars
  <2> QED
    BY <2>1 DEF PicturesInv, Replacing, Unseen
<1>2. ASSUME NEW r \in PictureRequest, NEW ids
      PROVE  ~Pictures!UpdateWorkspace(r, ids) /\ ~Pictures!InsertHub(r)
  BY IdleEdit DEF PicturesInv, Pictures!UpdateWorkspace, Pictures!InsertHub
<1>3. \A r \in PictureRequest : ~Pictures!InsertHub(r)
  BY <1>2
<1> QED
  BY <1>1, <1>2, <1>3, UploadPictureKeeps, DeleteAssetKeeps, SavePictureKeeps, LoadProfileKeeps,
     SaveProfileKeeps DEF Pictures!Next

LEMMA PicturesHold == ASSUME PicturesInv PROVE Pictures!TypeOK /\ Pictures!UploadSurvives
<1>1. picture \in 0 .. MaxAsset /\ assets \subseteq 1 .. MaxAsset /\ hubs = {}
  BY PictureNumbers DEF PicturesInv
<1>2. Pictures!TypeOK
  BY <1>1 DEF Pictures!TypeOK
<1> QED
  BY <1>2 DEF PicturesInv, Replacing, Unseen, Pictures!UploadSurvives

-----------------------------------------------------------------------------
(* Probes *)

LEMMA ProbeNumbers ==
    ShortLimit \in Nat /\ LongLimit \in Nat /\ MaxProbeClock \in Nat /\ LongLimit <= MaxProbeClock
    /\ ShortLimit < LongLimit
BY Given DEF Probes!HealthAssumption

\* A check under way: it has not begun and no time has passed, or its stages before this
\* one took no longer than they may.
Waiting(d, s, t) ==
    /\ s = 0 => probeClock = 0
    /\ d \in Probes!Ready /\ s > 0 =>
         t <= ShortLimit /\ probeClock <= (s - 1) * ShortLimit + t
    /\ t <= probeClock

ProbesInv ==
    /\ Probes!TypeOK
    /\ \A d \in Probes!Dependency :
          /\ Probes!Asking(d) => Waiting(d, stage[d], since[d])
          /\ stage[d] <= Probes!Stages(d)
          /\ d \in open => Probes!Asking(d) /\ stage[d] > 0
          /\ stage[d] > 0 => d \in configured

LEMMA ProbesStart == ASSUME Probes!Init PROVE ProbesInv
<1>1. Probes!TypeOK
  BY ProbeNumbers DEF Probes!Init, Probes!TypeOK
<1> QED
  BY <1>1, ProbeNumbers DEF Probes!Init, ProbesInv, Waiting, Probes!Stages

\* Of the clients only that of one check is opened or closed.
ClientOf(d) ==
    /\ open' \subseteq Probes!Dependency
    /\ \A e \in Probes!Dependency : e # d => (e \in open' <=> e \in open)

\* A step that changes the fields of one check only.
LEMMA CheckMoves ==
    ASSUME ProbesInv, NEW d \in Probes!Dependency, NEW s \in 0 .. 3, NEW t \in 0 .. MaxProbeClock,
           NEW v \in {"asking", "up", "down"},
           stage' = [stage EXCEPT ![d] = s], since' = [since EXCEPT ![d] = t],
           verdict' = [verdict EXCEPT ![d] = v],
           UNCHANGED <<asked, configured, probeClock>>,
           ClientOf(d), d \in asked /\ v = "asking" => Waiting(d, s, t),
           s <= Probes!Stages(d), d \in open' => d \in asked /\ v = "asking" /\ s > 0,
           s > 0 => d \in configured
    PROVE  ProbesInv'
<1>1. Probes!TypeOK'
  BY DEF ProbesInv, Probes!TypeOK, ClientOf
<1>2. ASSUME NEW e \in Probes!Dependency
      PROVE  /\ Probes!Asking(e)' => Waiting(e, stage[e], since[e])'
             /\ stage'[e] <= Probes!Stages(e)
             /\ e \in open' => Probes!Asking(e)' /\ stage'[e] > 0
             /\ stage'[e] > 0 => e \in configured'
  <2>1. CASE e = d
    <3>1. stage'[e] = s /\ since'[e] = t /\ verdict'[e] = v
      BY <2>1 DEF ProbesInv, Probes!TypeOK
    <3> QED
      BY <2>1, <3>1 DEF Waiting, Probes!Asking
  <2>2. CASE e # d
    <3>1. stage'[e] = stage[e] /\ since'[e] = since[e] /\ verdict'[e] = verdict[e]
      BY <2>2 DEF ProbesInv, Probes!TypeOK
    <3> QED
      BY <2>2, <3>1 DEF ProbesInv, Waiting, Probes!Asking, ClientOf
  <2> QED
    BY <2>1, <2>2
<1> QED
  BY <1>1, <1>2 DEF ProbesInv

LEMMA CheckTypes ==
    ASSUME ProbesInv, NEW d \in Probes!Dependency
    PROVE  /\ stage[d] \in 0 .. 3 /\ since[d] \in 0 .. MaxProbeClock /\ probeClock \in 0 .. MaxProbeClock
           /\ verdict[d] \in {"asking", "up", "down"} /\ Probes!Stages(d) \in 1 .. 3
           /\ stage = [stage EXCEPT ![d] = stage[d]] /\ since = [since EXCEPT ![d] = since[d]]
           /\ verdict = [verdict EXCEPT ![d] = verdict[d]]
           /\ open \subseteq Probes!Dependency
BY ProbeNumbers DEF ProbesInv, Probes!TypeOK, Probes!Stages

LEMMA BeginKeeps ==
    ASSUME ProbesInv, NEW d \in Probes!Dependency, Probes!Begin(d) PROVE ProbesInv'
<1>1. Probes!Asking(d) /\ stage[d] = 0 /\ probeClock = 0 /\ since[d] = 0 /\ d \in configured
  BY CheckTypes DEF ProbesInv, Probes!Begin, Waiting
<1>2. PICK s \in 0 .. 3, t \in 0 .. MaxProbeClock : s = 1 /\ t = 0
  BY ProbeNumbers
<1>3. Waiting(d, s, t)
  BY <1>1, <1>2, ProbeNumbers DEF Waiting
<1>4. /\ stage' = [stage EXCEPT ![d] = s] /\ since' = [since EXCEPT ![d] = t]
      /\ verdict' = [verdict EXCEPT ![d] = "asking"]
  BY <1>1, <1>2, CheckTypes DEF Probes!Begin, Probes!Asking
<1>5. ClientOf(d)
  BY CheckTypes DEF Probes!Begin, ClientOf
<1>6. UNCHANGED <<asked, configured, probeClock>> /\ d \in asked
  BY DEF Probes!Begin, Probes!Asking
<1>7. s > 0 /\ s <= Probes!Stages(d)
  BY <1>2, CheckTypes
<1> QED
  BY <1>1, <1>3, <1>4, <1>5, <1>6, <1>7, CheckMoves

\* A check that is settled, with its client closed.
LEMMA SettleKeeps ==
    ASSUME ProbesInv, NEW d \in Probes!Dependency, NEW v \in {"up", "down"}, Probes!Settle(d, v),
           open' = open \ {d}, UNCHANGED <<asked, configured, probeClock>>
    PROVE  ProbesInv'
<1>1. PICK s \in 0 .. 3, t \in 0 .. MaxProbeClock : s = 0 /\ t = 0
  BY ProbeNumbers
<1>2. /\ stage' = [stage EXCEPT ![d] = s] /\ since' = [since EXCEPT ![d] = t]
      /\ verdict' = [verdict EXCEPT ![d] = v]
  BY <1>1 DEF Probes!Settle
<1>3. ClientOf(d) /\ d \notin open'
  BY CheckTypes DEF ClientOf
<1>4. s <= Probes!Stages(d) /\ ~(s > 0)
  BY <1>1, CheckTypes
<1>5. v \in {"asking", "up", "down"} /\ v # "asking"
  OBVIOUS
<1> QED
  BY <1>2, <1>3, <1>4, <1>5, CheckMoves

LEMMA SkipKeeps ==
    ASSUME ProbesInv, NEW d \in Probes!Dependency, Probes!Skip(d) PROVE ProbesInv'
<1>1. d \notin open
  BY DEF ProbesInv, Probes!Skip
<1>2. open' = open \ {d} /\ Probes!Settle(d, "up") /\ UNCHANGED <<asked, configured, probeClock>>
  BY <1>1 DEF Probes!Skip
<1> QED
  BY <1>2, SettleKeeps

LEMMA SucceedKeeps ==
    ASSUME ProbesInv, NEW d \in Probes!Dependency, Probes!Succeed(d) PROVE ProbesInv'
<1>1. CASE stage[d] < Probes!Stages(d)
  <2>1. PICK s \in 1 .. 3, t \in 0 .. MaxProbeClock : s = stage[d] /\ t = since[d]
    BY CheckTypes DEF Probes!Succeed
  <2>2. /\ stage' = [stage EXCEPT ![d] = s + 1] /\ since' = [since EXCEPT ![d] = 0]
        /\ verdict' = [verdict EXCEPT ![d] = "asking"]
        /\ UNCHANGED <<asked, configured, open, probeClock>>
    BY <1>1, <2>1, CheckTypes DEF Probes!Succeed, Probes!Asking
  <2>3. s + 1 \in 0 .. 3 /\ 0 \in 0 .. MaxProbeClock /\ s + 1 <= Probes!Stages(d) /\ s + 1 > 0
    BY <1>1, <2>1, CheckTypes, ProbeNumbers
  <2>4. Probes!Asking(d) /\ d \in configured /\ d \in asked
    BY <2>1 DEF ProbesInv, Probes!Succeed, Probes!Asking
  <2>5. Waiting(d, s + 1, 0)
    <3>1. Waiting(d, s, t) /\ probeClock \in Nat
      BY <2>1, <2>4, CheckTypes DEF ProbesInv
    <3>2. ASSUME d \in Probes!Ready PROVE probeClock <= s * ShortLimit
      <4>1. t <= ShortLimit /\ probeClock <= (s - 1) * ShortLimit + t
        BY <3>1, <3>2, <2>1 DEF Waiting
      <4>2. (s - 1) * ShortLimit + ShortLimit = s * ShortLimit
        BY <2>1, ProbeNumbers
      <4>3. (s - 1) * ShortLimit \in Int /\ s * ShortLimit \in Int
        BY <2>1, ProbeNumbers
      <4> QED
        BY <4>1, <4>2, <4>3, <3>1, <2>1, ProbeNumbers
    <3>3. (s + 1) - 1 = s /\ s * ShortLimit + 0 = s * ShortLimit
      BY <2>1, ProbeNumbers
    <3> QED
      BY <3>1, <3>2, <3>3, <2>3, ProbeNumbers DEF Waiting
  <2>6. ClientOf(d)
    BY <2>2, CheckTypes DEF ClientOf
  <2> QED
    BY <2>2, <2>3, <2>4, <2>5, <2>6, CheckMoves
<1>2. CASE ~(stage[d] < Probes!Stages(d))
  BY <1>2, SettleKeeps DEF Probes!Succeed
<1> QED
  BY <1>1, <1>2

LEMMA FailKeeps ==
    ASSUME ProbesInv, NEW d \in Probes!Dependency, Probes!Fail(d) PROVE ProbesInv'
BY SettleKeeps DEF Probes!Fail, Probes!AfterFailure

LEMMA ProbeTickKeeps == ASSUME ProbesInv, Probes!Tick PROVE ProbesInv'
<1>1. /\ probeClock' = probeClock + 1 /\ probeClock \in Nat /\ probeClock < MaxProbeClock
      /\ UNCHANGED <<asked, configured, stage, verdict, open>>
  BY DEF Probes!Tick, ProbesInv, Probes!TypeOK
<1>2. \A d \in Probes!Dependency : since'[d] = IF Probes!Asking(d) THEN since[d] + 1 ELSE 0
  BY DEF Probes!Tick
<1>3. ASSUME NEW d \in Probes!Dependency, Probes!Asking(d)
      PROVE  Waiting(d, stage[d], since[d])' /\ since'[d] \in 0 .. MaxProbeClock
  <2>1. stage[d] > 0 /\ since[d] < Probes!Limit(d, stage[d]) /\ Waiting(d, stage[d], since[d])
    BY <1>3 DEF Probes!Tick, Probes!Asking, ProbesInv
  <2>2. PICK s \in 1 .. 3, t \in Nat : s = stage[d] /\ t = since[d] /\ since'[d] = t + 1
    BY <1>2, <1>3, <2>1, CheckTypes
  <2>3. d \in Probes!Ready => t < ShortLimit
    BY <2>1, <2>2 DEF Probes!Limit, Probes!Ready
  <2>4. Waiting(d, s, t)
    BY <2>1, <2>2
  <2>5. Waiting(d, s, t + 1)'
    <3>1. (s - 1) * ShortLimit \in Int
      BY <2>2, ProbeNumbers
    <3> QED
      BY <1>1, <2>2, <2>3, <2>4, <3>1, ProbeNumbers DEF Waiting
  <2>6. stage'[d] = s /\ since'[d] = t + 1
    BY <1>1, <2>2
  <2>7. Waiting(d, stage[d], since[d])'
    BY <2>5, <2>6 DEF Waiting
  <2>8. t + 1 \in 0 .. MaxProbeClock
    BY <1>1, <2>2, <2>4, ProbeNumbers DEF Waiting
  <2> QED
    BY <2>6, <2>7, <2>8
<1>4. Probes!TypeOK'
  <2>1. since' = [d \in Probes!Dependency |-> IF Probes!Asking(d) THEN since[d] + 1 ELSE 0]
    BY DEF Probes!Tick
  <2>2. \A d \in Probes!Dependency : since'[d] \in 0 .. MaxProbeClock
    BY <1>2, <1>3, ProbeNumbers
  <2>3. since' \in [Probes!Dependency -> 0 .. MaxProbeClock]
    BY <2>1, <2>2
  <2> QED
    BY <1>1, <2>3, ProbeNumbers DEF ProbesInv, Probes!TypeOK
<1>5. \A d : Probes!Asking(d)' <=> Probes!Asking(d)
  BY <1>1 DEF Probes!Asking
<1>6. ASSUME NEW d \in Probes!Dependency
      PROVE  /\ Probes!Asking(d)' => Waiting(d, stage[d], since[d])'
             /\ stage'[d] <= Probes!Stages(d)
             /\ d \in open' => Probes!Asking(d)' /\ stage'[d] > 0
             /\ stage'[d] > 0 => d \in configured'
  BY <1>1, <1>3, <1>5 DEF ProbesInv
<1> QED
  BY <1>4, <1>6 DEF ProbesInv

LEMMA ProbesKept == ASSUME ProbesInv, Probes!Next \/ UNCHANGED healthVars PROVE ProbesInv'
<1>1. CASE UNCHANGED healthVars
  <2>1. UNCHANGED <<asked, configured, stage, since, verdict, open, probeClock>>
    BY <1>1 DEF healthVars
  <2> QED
    BY <2>1 DEF ProbesInv, Probes!TypeOK, Probes!Asking, Waiting
<1> QED
  BY <1>1, ProbeTickKeeps, SkipKeeps, BeginKeeps, SucceedKeeps, FailKeeps DEF Probes!Next

LEMMA ProbesHold == ASSUME ProbesInv PROVE Probes!TypeOK /\ Probes!ProbeEnds
<1>1. ASSUME asked = Probes!Ready, probeClock > 3 * ShortLimit, NEW d \in asked, Probes!Asking(d)
      PROVE  FALSE
  <2>1. d \in Probes!Dependency
    BY <1>1 DEF Probes!Ready, Probes!Dependency
  <2>2. PICK s \in 0 .. 3, t \in Nat : s = stage[d] /\ t = since[d]
    BY <2>1, CheckTypes
  <2>3. Waiting(d, s, t) /\ probeClock \in Nat
    BY <1>1, <2>1, <2>2, CheckTypes DEF ProbesInv
  <2>4. s # 0
    BY <1>1, <2>3, ProbeNumbers DEF Waiting
  <2>5. t <= ShortLimit /\ probeClock <= (s - 1) * ShortLimit + t
    BY <1>1, <2>3, <2>4, <2>2 DEF Waiting
  <2>6. s - 1 = 0 \/ s - 1 = 1 \/ s - 1 = 2
    BY <2>2, <2>4
  <2>7. (s - 1) * ShortLimit <= 2 * ShortLimit /\ (s - 1) * ShortLimit \in Int
    BY <2>2, <2>6, ProbeNumbers
  <2> QED
    BY <1>1, <2>2, <2>3, <2>5, <2>7, ProbeNumbers
<1>2. ASSUME Probes!Answered PROVE open = {}
  <2>1. \A d \in Probes!Dependency : d \notin open
    BY <1>2 DEF ProbesInv, Probes!Answered, Probes!Asking
  <2>2. open \subseteq Probes!Dependency
    BY DEF ProbesInv, Probes!TypeOK
  <2> QED
    BY <2>1, <2>2
<1>3. (asked = Probes!Ready /\ probeClock > 3 * ShortLimit) => Probes!Answered
  BY <1>1 DEF Probes!Answered, Probes!Asking
<1>4. Probes!TypeOK
  BY DEF ProbesInv
<1> QED
  BY <1>2, <1>3, <1>4 DEF Probes!ProbeEnds

-----------------------------------------------------------------------------
(* The services together *)

\* The tables and the picture are two halves of one module: the first state says which of
\* them moves.
CatalogInv ==
    /\ part = "tables" => TablesInv
    /\ part = "pictures" => PicturesInv

ServicesInv ==
    /\ OutboxInv /\ WebhookInv /\ KeysInv /\ MailsInv /\ StatsInv
    /\ ProbesInv /\ NewsletterInv /\ RequestsInv /\ CatalogInv

\* The service that was picked takes the step, the others stay as they are.
LEMMA PartMoves ==
    ASSUME [Next]_vars
    PROVE  /\ Outboxes!Next \/ UNCHANGED outboxVars
           /\ Webhooks!Next \/ UNCHANGED webhookVars
           /\ Requests!Next \/ UNCHANGED requestVars
           /\ Keys!Next \/ UNCHANGED keyVars
           /\ Mails!Next \/ UNCHANGED mailVars
           /\ Newsletter!Next \/ UNCHANGED inboxVars
           /\ part = "tables" => Tables!Next \/ UNCHANGED catalogVars
           /\ part = "pictures" => Pictures!Next \/ UNCHANGED catalogVars
           /\ Stats!Next \/ UNCHANGED statsVars
           /\ Probes!Next \/ UNCHANGED healthVars
           /\ part' = part
<1>1. CASE UNCHANGED vars
  BY <1>1 DEF vars
<1>2. CASE Next
  BY <1>2 DEF Next, Others
<1> QED
  BY <1>1, <1>2

LEMMA ServicesStart == ASSUME Init PROVE ServicesInv
<1>1. OutboxInv /\ WebhookInv /\ KeysInv /\ MailsInv /\ StatsInv
  BY OutboxInit, WebhookInit, KeysStart, MailsStart, StatsStart DEF Init
<1>2. ProbesInv /\ NewsletterInv /\ RequestsInv
  BY ProbesStart, NewsletterStart, RequestsStart DEF Init
<1>3. CatalogInv
  BY TablesStart, PicturesStart DEF Init, CatalogInv
<1> QED
  BY <1>1, <1>2, <1>3 DEF ServicesInv

LEMMA ServicesStep == ASSUME ServicesInv, [Next]_vars PROVE ServicesInv'
<1>1. OutboxInv' /\ WebhookInv' /\ KeysInv' /\ MailsInv' /\ StatsInv'
  BY PartMoves, OutboxKept, WebhookKept, KeysKept, MailsKept, StatsKept DEF ServicesInv
<1>2. ProbesInv' /\ NewsletterInv' /\ RequestsInv'
  BY PartMoves, ProbesKept, NewsletterKept, RequestsKept DEF ServicesInv
<1>3. CatalogInv'
  BY PartMoves, TablesKept, PicturesKept DEF ServicesInv, CatalogInv
<1> QED
  BY <1>1, <1>2, <1>3 DEF ServicesInv

LEMMA ServicesKept == Spec => []ServicesInv
<1>1. Init => ServicesInv
  BY ServicesStart
<1>2. ServicesInv /\ [Next]_vars => ServicesInv'
  BY ServicesStep
<1> QED
  BY <1>1, <1>2, PTL DEF Spec

\* outbox.service.ts, webhook.service.ts: with any number of rows, of processes polling the
\* tables at once, of crashes and of writes that fail, a row counts as sent or delivered
\* only after the other side took it, and as failed or dead only after every attempt was
\* made and failed.
THEOREM QueuesAreTruthful == Spec => []QueuesTruthful
<1>1. OutboxInv => Outboxes!TypeOK /\ Outboxes!Truthful
  BY DEF OutboxInv, EventHolds, Outboxes!Truthful
<1>2. WebhookInv => Webhooks!TypeOK /\ Webhooks!Truthful
  BY DEF WebhookInv, DeliveryHolds, Webhooks!Truthful, Webhooks!Status
<1>3. ServicesInv => QueuesTruthful
  BY <1>1, <1>2 DEF ServicesInv, QueuesTruthful
<1> QED
  BY <1>3, ServicesKept, PTL

\* processPending, processReady: the row locks end with the query, so two processes may have
\* one row in their batches; but for such a row, what is sent, failed, delivered or dead
\* is never written again.
THEOREM EndedIsFinal == Spec => Outboxes!Final /\ Webhooks!Final
<1>1. ASSUME ServicesInv, [Next]_vars
      PROVE  [\A e \in Event : event[e].status \in {"SENT", "FAILED"} /\ e \notin shared
                 => event'[e].status = event[e].status]_(Outboxes!vars)
  <2>1. Outboxes!Next \/ UNCHANGED outboxVars
    BY <1>1, PartMoves
  <2>2. CASE UNCHANGED outboxVars
    BY <2>2 DEF outboxVars, Outboxes!vars
  <2>3. CASE Outboxes!Next
    BY <1>1, <2>3, OutboxFinal DEF Closed, ServicesInv
  <2> QED
    BY <2>1, <2>2, <2>3
<1>2. ASSUME ServicesInv, [Next]_vars
      PROVE  [\A d \in Delivery : Webhooks!Status(d) \in Webhooks!Ended /\ d \notin raced
                 => delivery'[d].status = Webhooks!Status(d)]_(Webhooks!vars)
  <2>1. Webhooks!Next \/ UNCHANGED webhookVars
    BY <1>2, PartMoves
  <2>2. CASE UNCHANGED webhookVars
    BY <2>2 DEF webhookVars, Webhooks!vars
  <2>3. CASE Webhooks!Next
    BY <1>2, <2>3, WebhookFinal DEF Webhooks!Status, ServicesInv
  <2> QED
    BY <2>1, <2>2, <2>3
<1> QED
  BY <1>1, <1>2, ServicesKept, PTL DEF Spec, Outboxes!Final, Webhooks!Final

\* idempotency.middleware.ts: however many requests use however many keys, whatever the
\* cache takes or loses and whenever its writes arrive, a key runs its handler to success
\* once, unless two requests read the empty entry before either had marked it; and as long
\* as the sentinel is there, the request that wrote it runs or its last write is under way.
THEOREM KeyRunsOnce == Spec => []RunsOnce
<1>1. ServicesInv => RunsOnce
  BY KeysHold DEF ServicesInv, RunsOnce
<1> QED
  BY <1>1, ServicesKept, PTL

\* smtp-circuit-breaker.ts: for any number of mails, any threshold and any lives of the two
\* keys, whatever SMTP answers and whenever Redis is away, the breaker is open only because
\* of enough failures that followed each other closely, and no longer than its time after
\* the last of them.
THEOREM BreakerIsEarned == Spec => []BreakerEarned
<1>1. ServicesInv => BreakerEarned
  BY MailsHold DEF ServicesInv, BreakerEarned
<1> QED
  BY <1>1, ServicesKept, PTL

\* dashboard.service.ts, analytics.controller.ts: however computations overlap each other,
\* expiries and invalidations, an answer of the cache is no older than the life of an entry
\* and one computation.
THEOREM AnswersAreRecent == Spec => []StaleBounded
<1>1. ServicesInv => StaleBounded
  BY StatsHold DEF ServicesInv, StaleBounded
<1> QED
  BY <1>1, ServicesKept, PTL

\* No handler of any route runs without the user it reads; an address has one newsletter
\* row, however subscriptions, confirmations and removals overlap; no request deletes the
\* picture another one has uploaded and not stored; and the readiness probe is answered
\* within three limits and leaves no client behind.
THEOREM ServicesAgreeAlways == Spec => []ServicesAgree
<1>1. ASSUME ServicesInv PROVE ServicesAgree
  <2>1. Requests!TypeOK /\ Requests!HandlersHaveUser
    BY <1>1, RequestsHold DEF ServicesInv
  <2>2. Newsletter!TypeOK /\ Newsletter!OneRowPerAddress
    BY <1>1, NewsletterHolds DEF ServicesInv
  <2>3. part = "tables" => Tables!TypeOK
    BY <1>1, TablesHold DEF ServicesInv, CatalogInv
  <2>4. part = "pictures" => Pictures!TypeOK /\ Pictures!UploadSurvives
    BY <1>1, PicturesHold DEF ServicesInv, CatalogInv
  <2>5. Probes!TypeOK /\ Probes!ProbeEnds
    BY <1>1, ProbesHold DEF ServicesInv
  <2> QED
    BY <2>1, <2>2, <2>3, <2>4, <2>5 DEF ServicesAgree
<1> QED
  BY <1>1, ServicesKept, PTL
=============================================================================
