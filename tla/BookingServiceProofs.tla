------------------------ MODULE BookingServiceProofs ------------------------
(***************************************************************************)
(* Theorems about BookingService, for every number of requests, bookings   *)
(* and places.                                                             *)
(***************************************************************************)
EXTENDS BookingService, FiniteSetTheorems, TLAPS

-----------------------------------------------------------------------------
(* The inductive invariant *)

\* What of a booking is never written again.
SameBooking(a, b) == a.start = b.start /\ a.end = b.end /\ a.series = b.series

Confirming(r) == At(r, "confirm") \/ At(r, "confirmUpdate")
Cancelling(r) == At(r, "cancel") \/ At(r, "cancelUpdate")
Updating(r) == At(r, "confirmUpdate") \/ At(r, "cancelUpdate")

\* What a request holds between two steps fits the table it will write to: there is room
\* for what it creates, a copy is of a stored booking and marked as what it becomes.  An
\* update that leaves the status out met a booking that was not Pending, and none becomes
\* Pending again.
Holds(r) ==
    /\ At(r, "create") => Cardinality(Stored) + Len(request[r].slots) <= MaxBookings
    /\ Confirming(r) \/ Cancelling(r) =>
          \A id \in DOMAIN request[r].copies :
              id \in Stored /\ SameBooking(request[r].copies[id], rows[id])
    /\ Confirming(r) =>
          /\ \A id, other \in DOMAIN request[r].copies : id = other
          /\ \A id \in DOMAIN request[r].copies :
                request[r].copies[id].status = "Confirmed" /\ request[r].copies[id].refund = "unset"
    /\ Cancelling(r) =>
          \A id \in DOMAIN request[r].copies : request[r].copies[id].status = "Cancelled"
    /\ Updating(r) =>
          \A id \in DOMAIN request[r].copies :
              "status" \in request[r].columns[id] \/ rows[id].status # "Pending"
    /\ At(r, "delete") => request[r].ids \subseteq Stored

\* What a stored booking is like.
Consistent(id) ==
    /\ rows[id].status = "Cancelled" => id \in everCancelled
    /\ rows[id].status = "Confirmed" => confirmEvents[id] > 0
    /\ rows[id].refund # "unset" => id \in everCancelled
    /\ rows[id].status = "Pending" => confirmEvents[id] = 0 /\ id \notin everCancelled

\* Ids are dense, nothing is known of a booking before it is stored, and no creation is in
\* progress once the workspace is deleted.
BookInv ==
    /\ TypeOK
    /\ \E n \in 0 .. MaxBookings : Stored = 1 .. n
    /\ \A id \in Stored : Consistent(id)
    /\ everCancelled \subseteq Stored
    /\ \A id \in BookingId : id \notin Stored => confirmEvents[id] = 0
    /\ \A r \in Requests : Holds(r)
    /\ deleted => lock = NoRequest

-----------------------------------------------------------------------------
(* Lemmas about the table and the requests *)

\* The number of stored bookings is the last id.
LEMMA StoredDense ==
    ASSUME BookInv
    PROVE  /\ Cardinality(Stored) \in 0 .. MaxBookings
           /\ Stored = 1 .. Cardinality(Stored)
<1>1. PICK n \in 0 .. MaxBookings : Stored = 1 .. n
  BY DEF BookInv
<1>2. n \in Nat
  BY <1>1, NumbersAssumption
<1>3. Cardinality(1 .. n) = n
  BY <1>2, FS_Interval
<1> QED
  BY <1>1, <1>3

\* A stored booking is a full row.
LEMMA StoredRow ==
    ASSUME TypeOK, NEW id \in Stored
    PROVE  id \in BookingId /\ rows[id] \in Row
  BY DEF TypeOK, Stored, Exists

\* What the local state of a request looks like, by where it is.
LEMMA LocalState ==
    ASSUME TypeOK, NEW r \in Requests
    PROVE  /\ At(r, "create") => /\ request[r].user \in Users /\ request[r].slots \in Seq(Slot)
                                 /\ request[r].series \in BOOLEAN
           /\ At(r, "notify") => request[r].id \in BookingId
           /\ At(r, "delete") => request[r].ids \in SUBSET BookingId
           /\ Confirming(r) \/ Cancelling(r) =>
                 /\ request[r].copies \in [DOMAIN request[r].copies -> Row]
                 /\ DOMAIN request[r].copies \subseteq BookingId
           /\ Updating(r) =>
                 request[r].columns \in [DOMAIN request[r].copies -> SUBSET Columns]
<1>1. Local(request[r])
  BY DEF TypeOK
<1> QED
  BY <1>1 DEF Local, At, Idle, Confirming, Cancelling, Updating

\* A row of the table with no status "None".
LEMMA RowIsStored ==
    ASSUME NEW row \in Row
    PROVE  row # NoRow /\ row.status \in Status /\ row.start \in Nat /\ row.end \in Nat
<1>1. row.status \in Status
  BY DEF Row
<1>2. "None" \notin Status
  BY DEF Status
<1> QED
  BY <1>1, <1>2 DEF NoRow, Row

\* The rows after a step that inserts nothing: each stored booking is left or overwritten
\* with a consistent row of the same booking.
Overwritten ==
    /\ rows' \in [BookingId -> Row \cup {NoRow}]
    /\ everCancelled \subseteq everCancelled' /\ everCancelled' \subseteq Stored
    /\ \A id \in BookingId : id \notin Stored => rows'[id] = rows[id] /\ confirmEvents'[id] = 0
    /\ \A id \in Stored : /\ rows'[id] \in Row
                          /\ SameBooking(rows'[id], rows[id])
                          /\ rows'[id].status = "Pending" => rows[id].status = "Pending"
                          /\ Consistent(id)'

\* It keeps the set of bookings.
LEMMA OverwrittenStored ==
    ASSUME TypeOK, Overwritten
    PROVE  Stored' = Stored
  BY RowIsStored DEF Overwritten, Stored, Exists, TypeOK

\* A step that inserts nothing keeps the invariant, if the request that makes it ends up
\* with a local state that fits.
LEMMA StepOfRequest ==
    ASSUME BookInv, Overwritten, NEW r \in Requests, NEW local, Goto(r, local), Local(local),
           local.at = "create" <=> lock' = r,
           \A q \in Requests \ {r} : lock' = q <=> lock = q,
           lock' \in Requests \cup {NoRequest},
           deleted' \in BOOLEAN, deleted' => lock' = NoRequest,
           escrowEvents' \subseteq BookingId,
           {confirmEvents', webhooks'} \subseteq [BookingId -> Nat], now' \in Nat,
           Holds(r)'
    PROVE  BookInv'
<1>1. Stored' = Stored
  BY OverwrittenStored DEF BookInv
<1>2. request' = [request EXCEPT ![r] = local] /\ DOMAIN request = Requests
  BY DEF Goto, BookInv, TypeOK
<1>3. /\ DOMAIN request' = Requests /\ request'[r] = local
      /\ \A q \in Requests \ {r} : request'[q] = request[q]
  BY <1>2
<1>4. \A q \in Requests : Local(request'[q]) /\ (request'[q].at = "create" <=> lock' = q)
  BY <1>3 DEF BookInv, TypeOK
<1>5. TypeOK'
  <2>1. everCancelled' \subseteq BookingId
    BY DEF Overwritten, Stored
  <2> QED
    BY <1>3, <1>4, <2>1 DEF TypeOK, Overwritten
<1>6. ASSUME NEW q \in Requests \ {r} PROVE Holds(q)'
  <2>1. Holds(q) /\ request'[q] = request[q]
    BY <1>3 DEF BookInv
  <2>2. \A id \in Stored : /\ SameBooking(rows'[id], rows[id])
                           /\ rows'[id].status = "Pending" => rows[id].status = "Pending"
    BY DEF Overwritten
  <2> QED
    BY <1>1, <2>1, <2>2 DEF Holds, At, SameBooking, Confirming, Cancelling, Updating
<1>7. /\ \A id \in Stored' : Consistent(id)'
      /\ everCancelled' \subseteq Stored'
      /\ \A id \in BookingId : id \notin Stored' => confirmEvents'[id] = 0
  BY <1>1 DEF Overwritten
<1> QED
  BY <1>1, <1>5, <1>6, <1>7 DEF BookInv
-----------------------------------------------------------------------------
(* Every step keeps the invariant *)

\* A step that leaves the table alone overwrites it with itself.
LEMMA LeftAlone ==
    ASSUME BookInv, UNCHANGED <<rows, everCancelled, confirmEvents>>
    PROVE  Overwritten
  BY DEF BookInv, TypeOK, Overwritten, SameBooking, Consistent, Stored, Exists

\* A refund is always one of the brackets.
LEMMA CancelledRow ==
    ASSUME TypeOK, NEW id \in Stored
    PROVE  /\ CancelledCopy(id) \in Row
           /\ CancelledCopy(id).status = "Cancelled"
           /\ SameBooking(CancelledCopy(id), rows[id])
<1>1. rows[id] \in Row
  BY StoredRow
<1>2. Refund(rows[id].start) \in Refunds
  BY DEF Refund, Refunds
<1> QED
  BY <1>1, <1>2 DEF CancelledCopy, Row, Status, SameBooking

\* The transaction of a creation up to the insert: it takes the lock.
LEMMA CheckInv ==
    ASSUME BookInv, NEW r \in Requests, NEW u \in Users, NEW slots \in Seq(Slot),
           NEW series \in BOOLEAN, Check(r, u, slots, series)
    PROVE  BookInv' /\ Overwritten
<1> DEFINE local == [at |-> "create", user |-> u, slots |-> slots, series |-> series]
<1>1. Overwritten
  BY LeftAlone DEF Check, outbox
<1>2. Goto(r, local) /\ Local(local) /\ local.at = "create"
  BY DEF Check, Local
<1>3. Holds(r)'
  <2>1. request'[r] = local
    BY <1>2 DEF Goto, BookInv, TypeOK
  <2>2. Stored' = Stored
    BY <1>1, OverwrittenStored DEF BookInv
  <2> QED
    BY <2>1, <2>2 DEF Check, Holds, At, Confirming, Cancelling, Updating
<1>4. \A q \in Requests \ {r} : lock' = q <=> lock = q
  BY NoRequestAssumption DEF Check
<1>5. lock' = r /\ UNCHANGED <<deleted, outbox, webhooks, now>> /\ ~deleted
  BY DEF Check
<1> HIDE DEF local
<1> QED
  BY <1>1, <1>2, <1>3, <1>4, <1>5, StepOfRequest DEF BookInv, TypeOK, outbox

\* A request at another step than the insert goes on without the lock.
LEMMA StepOutsideLock ==
    ASSUME BookInv, Overwritten, NEW r \in Requests, NEW local, Goto(r, local), Local(local),
           ~At(r, "create"), local.at # "create", lock' = lock,
           deleted' \in BOOLEAN, deleted' => lock = NoRequest,
           escrowEvents' \subseteq BookingId,
           {confirmEvents', webhooks'} \subseteq [BookingId -> Nat], now' = now,
           Holds(r)'
    PROVE  BookInv'
<1>1. lock # r
  BY DEF BookInv, TypeOK, At
<1>2. now' \in Nat
  BY DEF BookInv, TypeOK
<1>3. lock' \in Requests \cup {NoRequest}
  BY DEF BookInv, TypeOK
<1> QED
  BY <1>1, <1>2, <1>3, StepOfRequest

\* A request that only reads: a copy of what is stored.
LEMMA CopyInv ==
    ASSUME BookInv, NEW r \in Requests, At(r, "idle"), NEW place \in {"confirm", "cancel"},
           NEW ids \in SUBSET Stored, NEW copies \in [ids -> Row],
           \A id \in ids : SameBooking(copies[id], rows[id]),
           place = "confirm" =>
               /\ \A id, other \in ids : id = other
               /\ \A id \in ids : copies[id].status = "Confirmed" /\ copies[id].refund = "unset",
           place = "cancel" => \A id \in ids : copies[id].status = "Cancelled",
           Goto(r, [at |-> place, copies |-> copies]),
           UNCHANGED <<rows, deleted, lock, outbox, webhooks, now, everCancelled>>
    PROVE  BookInv' /\ Overwritten
<1> DEFINE local == [at |-> place, copies |-> copies]
<1>1. Overwritten /\ Stored' = Stored
  BY LeftAlone, OverwrittenStored DEF BookInv, outbox
<1>2. DOMAIN copies = ids /\ ids \subseteq BookingId
  BY DEF Stored
<1>3. Local(local) /\ local.at # "create"
  BY <1>2 DEF Local
<1>4. request'[r] = local
  BY DEF Goto, BookInv, TypeOK
<1>5. Holds(r)'
  BY <1>1, <1>2, <1>4 DEF Holds, At, Confirming, Cancelling, Updating
<1>6. ~At(r, "create")
  BY DEF At
<1> HIDE DEF local
<1>7. Goto(r, local)
  BY DEF local
<1> QED
  BY <1>1, <1>3, <1>5, <1>6, <1>7, StepOutsideLock DEF BookInv, TypeOK, outbox

\* findOne of a booking to be confirmed or cancelled, find of the instances of a series.
LEMMA ReadInv ==
    ASSUME BookInv, NEW r \in Requests,
           \/ \E id \in BookingId : ConfirmRead(r, id)
           \/ \E u \in Users, id \in BookingId : CancelRead(r, u, id) \/ CancelSeriesRead(r, u, id)
    PROVE  BookInv' /\ Overwritten
<1>0. TypeOK
  BY DEF BookInv
<1>1. ASSUME NEW id \in BookingId, ConfirmRead(r, id) PROVE BookInv' /\ Overwritten
  <2> DEFINE copies == [i \in {id} |-> ConfirmedCopy(i)]
  <2>1. id \in Stored /\ rows[id].status = "Pending"
    BY <1>1 DEF ConfirmRead, Stored
  <2>2. rows[id] \in Row /\ rows[id].refund = "unset"
    BY <1>0, <2>1, StoredRow DEF BookInv, Consistent
  <2>3. /\ ConfirmedCopy(id) \in Row /\ ConfirmedCopy(id).status = "Confirmed"
        /\ ConfirmedCopy(id).refund = "unset" /\ SameBooking(ConfirmedCopy(id), rows[id])
    BY <2>2 DEF ConfirmedCopy, Row, Status, SameBooking
  <2>4. /\ copies \in [{id} -> Row] /\ {id} \in SUBSET Stored
        /\ \A i \in {id} : /\ SameBooking(copies[i], rows[i])
                           /\ copies[i].status = "Confirmed" /\ copies[i].refund = "unset"
    BY <2>1, <2>3
  <2>5. /\ At(r, "idle") /\ Goto(r, [at |-> "confirm", copies |-> copies])
        /\ UNCHANGED <<rows, deleted, lock, outbox, webhooks, now, everCancelled>>
    BY <1>1 DEF ConfirmRead
  <2> HIDE DEF copies
  <2> QED
    BY <2>4, <2>5, CopyInv
<1>2. ASSUME NEW ids \in SUBSET Stored, At(r, "idle"),
             Goto(r, [at |-> "cancel", copies |-> [i \in ids |-> CancelledCopy(i)]]),
             UNCHANGED <<rows, deleted, lock, outbox, webhooks, now, everCancelled>>
      PROVE  BookInv' /\ Overwritten
  <2> DEFINE copies == [i \in ids |-> CancelledCopy(i)]
  <2>1. copies \in [ids -> Row]
    BY <1>0, CancelledRow
  <2>2. \A i \in ids : SameBooking(copies[i], rows[i]) /\ copies[i].status = "Cancelled"
    BY <1>0, CancelledRow
  <2>3. Goto(r, [at |-> "cancel", copies |-> copies])
    BY <1>2
  <2> HIDE DEF copies
  <2> QED
    BY <1>2, <2>1, <2>2, <2>3, CopyInv
<1>3. ASSUME NEW u \in Users, NEW id \in BookingId, CancelRead(r, u, id) PROVE BookInv' /\ Overwritten
  <2>1. {id} \in SUBSET Stored
    BY <1>3 DEF CancelRead, Stored
  <2> QED
    BY <1>2, <1>3, <2>1 DEF CancelRead
<1>4. ASSUME NEW u \in Users, NEW id \in BookingId, CancelSeriesRead(r, u, id) PROVE BookInv' /\ Overwritten
  <2> DEFINE future == {i \in {j \in Stored : rows[j].series = id} :
                           rows[i].start > now /\ rows[i].status # "Cancelled"}
  <2>1. future \in SUBSET Stored
    OBVIOUS
  <2>2. Goto(r, [at |-> "cancel", copies |-> [i \in future |-> CancelledCopy(i)]])
    BY <1>4 DEF CancelSeriesRead
  <2> HIDE DEF future
  <2> QED
    BY <1>2, <1>4, <2>1, <2>2 DEF CancelSeriesRead
<1> QED
  BY <1>1, <1>3, <1>4

\* save selects the rows again: what it will update is what differs now.
LEMMA SaveSelectInv ==
    ASSUME BookInv, NEW r \in Requests, SaveSelect(r)
    PROVE  BookInv' /\ Overwritten
<1> DEFINE copies == request[r].copies
           columns == [id \in DOMAIN copies |-> Changed(copies[id], rows[id])]
           place == IF At(r, "confirm") THEN "confirmUpdate" ELSE "cancelUpdate"
           local == [at |-> place, copies |-> copies, columns |-> columns]
<1>1. /\ TypeOK /\ Goto(r, local)
      /\ At(r, "confirm") \/ At(r, "cancel")
      /\ UNCHANGED <<rows, deleted, lock, outbox, webhooks, now, everCancelled>>
  BY DEF SaveSelect, BookInv
<1>2. Overwritten /\ Stored' = Stored
  BY <1>1, LeftAlone, OverwrittenStored DEF outbox
<1>3. Confirming(r) \/ Cancelling(r)
  BY <1>1 DEF Confirming, Cancelling
<1>4. /\ copies \in [DOMAIN copies -> Row] /\ DOMAIN copies \subseteq BookingId
      /\ \A id \in DOMAIN copies : id \in Stored /\ SameBooking(copies[id], rows[id])
      /\ At(r, "confirm") =>
            /\ \A id, other \in DOMAIN copies : id = other
            /\ \A id \in DOMAIN copies : copies[id].status = "Confirmed" /\ copies[id].refund = "unset"
      /\ At(r, "cancel") => \A id \in DOMAIN copies : copies[id].status = "Cancelled"
  BY <1>1, <1>3, LocalState DEF BookInv, Holds, Confirming, Cancelling
<1>5. \A id \in DOMAIN copies :
          "status" \in Changed(copies[id], rows[id]) \/ rows[id].status = copies[id].status
  BY DEF Changed, Columns
<1>6. /\ columns \in [DOMAIN copies -> SUBSET Columns]
      /\ \A id \in DOMAIN copies : "status" \in columns[id] \/ rows[id].status = copies[id].status
  BY <1>5 DEF Changed
<1> HIDE DEF copies, columns
<1>7. /\ place \in {"confirmUpdate", "cancelUpdate"}
      /\ place = "confirmUpdate" <=> At(r, "confirm")
      /\ place = "cancelUpdate" => At(r, "cancel")
  BY <1>1
<1> HIDE DEF place
<1>8. Local(local) /\ local.at # "create" /\ ~At(r, "create")
  BY <1>1, <1>4, <1>6, <1>7 DEF Local, At
<1>9. Holds(r)'
  <2>1. request'[r] = local
    BY <1>1 DEF Goto, TypeOK
  <2>2. \A id \in DOMAIN copies : "status" \in columns[id] \/ rows[id].status # "Pending"
    BY <1>1, <1>4, <1>6
  <2> QED
    BY <1>1, <1>2, <1>4, <1>7, <2>1, <2>2 DEF Holds, At, Confirming, Cancelling, Updating
<1> HIDE DEF local
<1> QED
  BY <1>1, <1>2, <1>8, <1>9, StepOutsideLock DEF BookInv, TypeOK, outbox

\* The update leaves a booking of the same time with the status and the refund of the copy or
\* of the row, and a Pending one never.
LEMMA SavedRows ==
    ASSUME BookInv, NEW r \in Requests, Updating(r), SaveUpdate(r)
    PROVE  /\ rows' \in [BookingId -> Row \cup {NoRow}]
           /\ DOMAIN request[r].copies \subseteq Stored
           /\ \A id \in BookingId : id \notin DOMAIN request[r].copies => rows'[id] = rows[id]
           /\ \A id \in DOMAIN request[r].copies :
                 /\ rows'[id] \in Row /\ SameBooking(rows'[id], rows[id])
                 /\ rows'[id].status # "Pending"
                 /\ rows'[id].status \in {rows[id].status, request[r].copies[id].status}
                 /\ rows'[id].refund \in {rows[id].refund, request[r].copies[id].refund}
<1> DEFINE copies == request[r].copies
           columns == request[r].columns
<1>1. TypeOK /\ (Confirming(r) \/ Cancelling(r))
  BY DEF BookInv, Updating, Confirming, Cancelling
<1>2. /\ copies \in [DOMAIN copies -> Row] /\ DOMAIN copies \subseteq Stored
      /\ \A id \in DOMAIN copies : /\ id \in BookingId
                                   /\ copies[id].status # "Pending"
                                   /\ "status" \in columns[id] \/ rows[id].status # "Pending"
  BY <1>1, LocalState DEF BookInv, Holds
<1>3. rows' = [id \in BookingId |->
                 IF id \in DOMAIN copies THEN Updated(rows[id], copies[id], columns[id]) ELSE rows[id]]
  BY DEF SaveUpdate
<1> HIDE DEF copies, columns
<1>4. ASSUME NEW id \in DOMAIN copies
      PROVE  /\ rows'[id] \in Row /\ SameBooking(rows'[id], rows[id])
             /\ rows'[id].status # "Pending"
             /\ rows'[id].status \in {rows[id].status, copies[id].status}
             /\ rows'[id].refund \in {rows[id].refund, copies[id].refund}
  <2>1. rows[id] \in Row /\ copies[id] \in Row
    BY <1>1, <1>2, StoredRow
  <2>2. rows'[id] = Updated(rows[id], copies[id], columns[id])
    BY <1>2, <1>3
  <2> QED
    BY <1>2, <2>1, <2>2 DEF Updated, Row, SameBooking
<1>5. \A id \in BookingId : id \notin DOMAIN copies => rows'[id] = rows[id]
  BY <1>3
<1>6. rows' \in [BookingId -> Row \cup {NoRow}]
  <2>1. \A id \in BookingId : rows'[id] \in Row \cup {NoRow}
    BY <1>1, <1>4, <1>5 DEF TypeOK
  <2> QED
    BY <1>3, <2>1
<1> QED
  BY <1>2, <1>4, <1>5, <1>6 DEF copies

\* The update of a confirmation and its event.
LEMMA ConfirmWriteInv ==
    ASSUME BookInv, NEW r \in Requests, ConfirmWrite(r)
    PROVE  BookInv' /\ Overwritten
<1> DEFINE copies == request[r].copies
<1>1. PICK x \in DOMAIN copies :
          /\ confirmEvents' = [confirmEvents EXCEPT ![x] = @ + 1]
          /\ Goto(r, [at |-> "notify", id |-> x])
  BY DEF ConfirmWrite
<1> DEFINE local == [at |-> "notify", id |-> x]
<1>2. /\ At(r, "confirmUpdate") /\ SaveUpdate(r) /\ TypeOK
      /\ UNCHANGED <<deleted, lock, escrowEvents, webhooks, now, everCancelled>>
  BY DEF ConfirmWrite, BookInv
<1>3. Updating(r) /\ Confirming(r)
  BY <1>2 DEF Updating, Confirming
<1>4. /\ copies \in [DOMAIN copies -> Row]
      /\ \A id, other \in DOMAIN copies : id = other
      /\ \A id \in DOMAIN copies : copies[id].status = "Confirmed" /\ copies[id].refund = "unset"
  BY <1>3, LocalState DEF BookInv, Holds
<1>5. /\ rows' \in [BookingId -> Row \cup {NoRow}]
      /\ DOMAIN copies \subseteq Stored
      /\ \A id \in BookingId : id \notin DOMAIN copies => rows'[id] = rows[id]
      /\ \A id \in DOMAIN copies :
            /\ rows'[id] \in Row /\ SameBooking(rows'[id], rows[id])
            /\ rows'[id].status # "Pending"
            /\ rows'[id].status \in {rows[id].status, copies[id].status}
            /\ rows'[id].refund \in {rows[id].refund, copies[id].refund}
  BY <1>2, <1>3, SavedRows
<1>6. x \in Stored /\ x \in BookingId /\ confirmEvents \in [BookingId -> Nat]
  BY <1>2, <1>5 DEF Stored, TypeOK
<1> HIDE DEF copies
<1>7. /\ confirmEvents'[x] > 0 /\ confirmEvents' \in [BookingId -> Nat]
      /\ \A id \in BookingId \ {x} : confirmEvents'[id] = confirmEvents[id]
  BY <1>1, <1>6
<1>8. ASSUME NEW id \in Stored
      PROVE  /\ rows'[id] \in Row /\ SameBooking(rows'[id], rows[id])
             /\ rows'[id].status = "Pending" => rows[id].status = "Pending"
             /\ Consistent(id)'
  <2>1. id \in BookingId /\ rows[id] \in Row /\ Consistent(id)
    BY <1>2, StoredRow DEF BookInv
  <2>2. CASE id = x
    <3>1. /\ rows'[id].status \in {rows[id].status, "Confirmed"} /\ rows'[id].status # "Pending"
          /\ rows'[id].refund \in {rows[id].refund, "unset"}
      BY <1>1, <1>4, <1>5, <2>2
    <3> QED
      BY <1>1, <1>2, <1>5, <1>7, <2>1, <2>2, <3>1 DEF Consistent
  <2>3. CASE id # x
    <3>1. rows'[id] = rows[id] /\ confirmEvents'[id] = confirmEvents[id]
      BY <1>1, <1>4, <1>5, <1>7, <2>1, <2>3
    <3> QED
      BY <1>2, <2>1, <3>1 DEF Consistent, SameBooking
  <2> QED
    BY <2>2, <2>3
<1>9. Overwritten
  <2>1. \A id \in BookingId : id \notin Stored => rows'[id] = rows[id] /\ confirmEvents'[id] = 0
    BY <1>5, <1>6, <1>7 DEF BookInv
  <2>2. everCancelled \subseteq everCancelled' /\ everCancelled' \subseteq Stored
    BY <1>2 DEF BookInv
  <2> QED
    BY <1>5, <1>8, <2>1, <2>2 DEF Overwritten
<1>10. Local(local) /\ local.at # "create" /\ ~At(r, "create")
  BY <1>2, <1>6 DEF Local, At
<1>11. Holds(r)'
  <2>1. request'[r].at = "notify"
    BY <1>1, <1>2 DEF Goto, TypeOK
  <2> QED
    BY <2>1 DEF Holds, At, Confirming, Cancelling, Updating
<1> HIDE DEF local
<1>12. Goto(r, local)
  BY <1>1 DEF local
<1> QED
  BY <1>2, <1>7, <1>9, <1>10, <1>11, <1>12, StepOutsideLock DEF BookInv, TypeOK

\* The callback after the commit.
LEMMA ConfirmNotifyInv ==
    ASSUME BookInv, NEW r \in Requests, ConfirmNotify(r)
    PROVE  BookInv' /\ Overwritten
<1>1. Overwritten
  BY LeftAlone DEF ConfirmNotify, outbox
<1>2. Local(Idle) /\ Idle.at # "create" /\ ~At(r, "create") /\ Goto(r, Idle)
  BY DEF Local, Idle, At, ConfirmNotify
<1>3. Holds(r)'
  BY <1>2 DEF Holds, At, Goto, Idle, BookInv, TypeOK, Confirming, Cancelling, Updating
<1>4. request[r].id \in BookingId
  BY LocalState DEF ConfirmNotify, BookInv
<1>5. webhooks' \in [BookingId -> Nat]
  <2>1. webhooks \in [BookingId -> Nat] /\ webhooks' = [webhooks EXCEPT ![request[r].id] = @ + 1]
    BY DEF ConfirmNotify, BookInv, TypeOK
  <2> QED
    BY <1>4, <2>1
<1> QED
  BY <1>1, <1>2, <1>3, <1>5, StepOutsideLock DEF BookInv, TypeOK, ConfirmNotify, outbox

\* The update of the cancelled copies.
LEMMA CancelWriteInv ==
    ASSUME BookInv, NEW r \in Requests, CancelWrite(r)
    PROVE  BookInv' /\ Overwritten
<1> DEFINE copies == request[r].copies
<1>1. /\ TypeOK /\ At(r, "cancelUpdate") /\ Goto(r, Idle) /\ SaveUpdate(r)
      /\ everCancelled' = everCancelled \cup DOMAIN copies
      /\ UNCHANGED <<deleted, lock, outbox, webhooks, now>>
  BY DEF CancelWrite, BookInv
<1>2. Updating(r) /\ Cancelling(r)
  BY <1>1 DEF Updating, Cancelling
<1>3. \A id \in DOMAIN copies : copies[id].status = "Cancelled"
  BY <1>2 DEF BookInv, Holds
<1>4. /\ rows' \in [BookingId -> Row \cup {NoRow}]
      /\ DOMAIN copies \subseteq Stored
      /\ \A id \in BookingId : id \notin DOMAIN copies => rows'[id] = rows[id]
      /\ \A id \in DOMAIN copies :
            /\ rows'[id] \in Row /\ SameBooking(rows'[id], rows[id])
            /\ rows'[id].status # "Pending"
            /\ rows'[id].status \in {rows[id].status, copies[id].status}
  BY <1>1, <1>2, SavedRows
<1> HIDE DEF copies
<1>5. confirmEvents' = confirmEvents
  BY <1>1 DEF outbox
<1>6. ASSUME NEW id \in Stored
      PROVE  /\ rows'[id] \in Row /\ SameBooking(rows'[id], rows[id])
             /\ rows'[id].status = "Pending" => rows[id].status = "Pending"
             /\ Consistent(id)'
  <2>1. id \in BookingId /\ rows[id] \in Row /\ Consistent(id)
    BY <1>1, StoredRow DEF BookInv
  <2>2. CASE id \in DOMAIN copies
    <3>1. /\ rows'[id].status \in {rows[id].status, "Cancelled"} /\ rows'[id].status # "Pending"
          /\ id \in everCancelled'
      BY <1>1, <1>3, <1>4, <2>2
    <3> QED
      BY <1>4, <1>5, <2>1, <2>2, <3>1 DEF Consistent
  <2>3. CASE id \notin DOMAIN copies
    <3>1. rows'[id] = rows[id] /\ (id \in everCancelled <=> id \in everCancelled')
      BY <1>1, <1>4, <2>1, <2>3
    <3> QED
      BY <1>5, <2>1, <3>1 DEF Consistent, SameBooking
  <2> QED
    BY <2>2, <2>3
<1>7. Overwritten
  <2>1. \A id \in BookingId : id \notin Stored => rows'[id] = rows[id] /\ confirmEvents'[id] = 0
    BY <1>4, <1>5 DEF BookInv
  <2>2. everCancelled \subseteq everCancelled' /\ everCancelled' \subseteq Stored
    BY <1>1, <1>4 DEF BookInv
  <2> QED
    BY <1>4, <1>6, <2>1, <2>2 DEF Overwritten
<1>8. Local(Idle) /\ Idle.at # "create" /\ ~At(r, "create")
  BY <1>1 DEF Local, Idle, At
<1>9. Holds(r)'
  BY <1>1 DEF Holds, At, Goto, Idle, TypeOK, Confirming, Cancelling, Updating
<1> QED
  BY <1>1, <1>7, <1>8, <1>9, StepOutsideLock DEF BookInv, TypeOK, outbox

\* softDelete: the bookings to come are read, then cancelled in one update that waits for
\* the creations in progress.
LEMMA DeleteReadInv ==
    ASSUME BookInv, NEW r \in Requests, DeleteRead(r)
    PROVE  BookInv' /\ Overwritten
<1> DEFINE ids == {id \in Stored : rows[id].status = "Confirmed" /\ rows[id].start > now}
           local == [at |-> "delete", ids |-> ids]
<1>1. /\ At(r, "idle") /\ Goto(r, local) /\ TypeOK
      /\ UNCHANGED <<rows, deleted, lock, outbox, webhooks, now, everCancelled>>
  BY DEF DeleteRead, BookInv
<1>2. Overwritten /\ Stored' = Stored
  BY <1>1, LeftAlone, OverwrittenStored DEF outbox
<1>3. ids \in SUBSET BookingId /\ ids \subseteq Stored
  BY DEF Stored
<1> HIDE DEF ids
<1>4. Local(local) /\ local.at # "create" /\ ~At(r, "create")
  BY <1>1, <1>3 DEF Local, At
<1>5. Holds(r)'
  BY <1>1, <1>2, <1>3 DEF Holds, At, Goto, TypeOK, Confirming, Cancelling, Updating
<1> HIDE DEF local
<1> QED
  BY <1>1, <1>2, <1>4, <1>5, StepOutsideLock DEF BookInv, TypeOK, outbox

LEMMA DeleteWriteInv ==
    ASSUME BookInv, NEW r \in Requests, DeleteWrite(r)
    PROVE  BookInv' /\ Overwritten
<1> DEFINE ids == request[r].ids
<1>1. /\ TypeOK /\ At(r, "delete") /\ Goto(r, Idle)
      /\ rows' = [id \in BookingId |->
                    IF id \in ids THEN [rows[id] EXCEPT !.status = "Cancelled"] ELSE rows[id]]
      /\ everCancelled' = everCancelled \cup ids
      /\ deleted' = TRUE /\ lock = NoRequest
      /\ UNCHANGED <<lock, outbox, webhooks, now>>
  BY DEF DeleteWrite, BookInv
<1>2. ids \subseteq Stored /\ ids \subseteq BookingId
  BY <1>1, LocalState DEF BookInv, Holds
<1> HIDE DEF ids
<1>3. \A i \in Stored : i \in BookingId /\ rows[i] \in Row /\ Consistent(i)
  BY <1>1, StoredRow DEF BookInv
<1>4. confirmEvents' = confirmEvents
  BY <1>1 DEF outbox
<1>5. Overwritten
  <2>1. ASSUME NEW id \in Stored
        PROVE  /\ rows'[id] \in Row /\ SameBooking(rows'[id], rows[id]) /\ Consistent(id)'
               /\ rows'[id].status = "Pending" => rows[id].status = "Pending"
    <3>1. CASE id \in ids
      <4>1. rows'[id] = [rows[id] EXCEPT !.status = "Cancelled"] /\ id \in everCancelled'
        BY <1>1, <1>2, <3>1
      <4> QED
        BY <1>3, <1>4, <4>1 DEF Consistent, Row, Status, SameBooking
    <3>2. CASE id \notin ids
      <4>1. rows'[id] = rows[id] /\ (id \in everCancelled <=> id \in everCancelled')
        BY <1>1, <1>3, <3>2
      <4> QED
        BY <1>3, <1>4, <4>1 DEF Consistent, SameBooking
    <3> QED
      BY <3>1, <3>2
  <2>2. \A id \in BookingId : id \notin Stored => rows'[id] = rows[id] /\ confirmEvents'[id] = 0
    BY <1>1, <1>2, <1>4 DEF BookInv
  <2>3. rows' \in [BookingId -> Row \cup {NoRow}]
    <3>1. \A id \in BookingId : rows'[id] \in Row \cup {NoRow}
      BY <1>1, <2>1, <2>2 DEF TypeOK
    <3> QED
      BY <1>1, <3>1
  <2>4. everCancelled \subseteq everCancelled' /\ everCancelled' \subseteq Stored
    BY <1>1, <1>2 DEF BookInv
  <2> QED
    BY <2>1, <2>2, <2>3, <2>4 DEF Overwritten
<1>6. Local(Idle) /\ Idle.at # "create" /\ ~At(r, "create")
  BY <1>1 DEF Local, Idle, At
<1>7. Holds(r)'
  BY <1>1 DEF Holds, At, Goto, Idle, TypeOK, Confirming, Cancelling, Updating
<1> QED
  BY <1>1, <1>5, <1>6, <1>7, StepOutsideLock DEF BookInv, TypeOK, outbox

\* A request that ends before its time gives the lock back and leaves the rest alone.
LEMMA AbortInv ==
    ASSUME BookInv, NEW r \in Requests, Abort(r)
    PROVE  BookInv' /\ Overwritten
<1>1. /\ Overwritten /\ Goto(r, Idle) /\ TypeOK
      /\ lock' = IF lock = r THEN NoRequest ELSE lock
      /\ UNCHANGED <<deleted, outbox, webhooks, now>>
  BY LeftAlone DEF Abort, BookInv, outbox
<1>2. Local(Idle) /\ Idle.at # "create"
  BY DEF Local, Idle
<1>3. Holds(r)'
  BY <1>1 DEF Holds, At, Goto, Idle, TypeOK, Confirming, Cancelling, Updating
<1>4. /\ lock' \in Requests \cup {NoRequest} /\ lock' # r
      /\ \A q \in Requests \ {r} : lock' = q <=> lock = q
      /\ deleted => lock' = NoRequest
  BY <1>1, NoRequestAssumption DEF BookInv, TypeOK
<1> QED
  BY <1>1, <1>2, <1>3, <1>4, StepOfRequest DEF TypeOK, outbox

\* Time moves nothing but the clock.
LEMMA TickInv == ASSUME BookInv, Tick \/ UNCHANGED vars PROVE BookInv' /\ Overwritten
<1>1. UNCHANGED <<rows, deleted, lock, outbox, webhooks, request, everCancelled>> /\ now' \in Nat
  BY DEF Tick, vars, BookInv, TypeOK
<1>2. Stored' = Stored
  BY <1>1 DEF Stored, Exists
<1>3. TypeOK'
  BY <1>1 DEF BookInv, TypeOK, outbox
<1>4. \A r \in Requests : Holds(r)'
  BY <1>1, <1>2 DEF BookInv, Holds, At, Confirming, Cancelling, Updating
<1>5. \A id \in Stored : Consistent(id)'
  BY <1>1 DEF BookInv, Consistent, outbox
<1>6. BookInv'
  BY <1>1, <1>2, <1>3, <1>4, <1>5 DEF BookInv, outbox
<1> QED
  BY <1>1, <1>6, LeftAlone DEF outbox

\* What an insert does to the table: the new bookings get the ids after the last one.
Inserted(r) ==
    LET n == Cardinality(Stored)
        m == Len(request[r].slots)
    IN  /\ n + m <= MaxBookings
        /\ \A id \in Stored : rows'[id] = rows[id]
        /\ \A id \in n + 1 .. n + m :
              /\ rows'[id] \in Row
              /\ rows'[id].status = "Pending" /\ rows'[id].refund = "unset"
              /\ rows'[id].start = request[r].slots[id - n].start
              /\ rows'[id].end = request[r].slots[id - n].end
              /\ rows'[id].series = IF request[r].series THEN n + 1 ELSE 0
        /\ \A id \in BookingId : id > n + m => rows'[id] = NoRow
        /\ Stored' = 1 .. n + m

LEMMA CommitInserts ==
    ASSUME BookInv, NEW r \in Requests, CreateCommit(r)
    PROVE  Inserted(r)
<1> DEFINE n == Cardinality(Stored)
           local == request[r]
           m == Len(local.slots)
           ids == n + 1 .. n + 1 + m - 1
<1>1. /\ TypeOK /\ At(r, "create")
      /\ rows' = [id \in BookingId |-> IF id \in ids THEN NewRow(local, n + 1, id) ELSE rows[id]]
  BY DEF CreateCommit, BookInv
<1>2. /\ local.slots \in Seq(Slot) /\ local.user \in Users /\ local.series \in BOOLEAN
      /\ m \in Nat
  BY <1>1, LocalState
<1>3. n \in 0 .. MaxBookings /\ Stored = 1 .. n /\ MaxBookings \in Nat
  BY StoredDense, NumbersAssumption
<1>4. n + m <= MaxBookings
  BY <1>1 DEF BookInv, Holds
<1>5. BookingId = 1 .. MaxBookings
  BY DEF BookingId
<1> HIDE DEF n, m, local
<1>6. ASSUME NEW id \in n + 1 .. n + m
      PROVE  /\ id \in BookingId /\ rows'[id] \in Row
             /\ rows'[id].status = "Pending" /\ rows'[id].refund = "unset"
             /\ rows'[id].start = local.slots[id - n].start
             /\ rows'[id].end = local.slots[id - n].end
             /\ rows'[id].series = IF local.series THEN n + 1 ELSE 0
  <2>1. id \in BookingId /\ id \in ids /\ id - n \in 1 .. m /\ n + 1 \in BookingId
        /\ id - (n + 1) + 1 = id - n
    BY <1>2, <1>3, <1>4, <1>5
  <2>2. rows'[id] = NewRow(local, n + 1, id)
    BY <1>1, <2>1 DEF n, m, local
  <2>3. local.slots[id - n] \in Slot
    BY <1>2, <2>1 DEF m
  <2>4. local.slots[id - n].start \in Nat /\ local.slots[id - n].end \in Nat
    BY <2>3 DEF Slot
  <2>5. /\ NewRow(local, n + 1, id).status = "Pending" /\ NewRow(local, n + 1, id).refund = "unset"
        /\ NewRow(local, n + 1, id).start = local.slots[id - n].start
        /\ NewRow(local, n + 1, id).end = local.slots[id - n].end
        /\ NewRow(local, n + 1, id).series = IF local.series THEN n + 1 ELSE 0
        /\ NewRow(local, n + 1, id) \in Row
    BY <1>2, <2>1, <2>4 DEF NewRow, Row, Status, Refunds
  <2> QED
    BY <2>1, <2>2, <2>5
<1>7. \A id \in Stored : id \in BookingId /\ id \notin ids /\ rows'[id] = rows[id]
  BY <1>1, <1>2, <1>3, <1>4, <1>5 DEF n, m, local
<1>8. \A id \in BookingId : id > n + m => id \notin Stored /\ rows'[id] = NoRow
  <2>1. \A id \in BookingId : id \notin Stored => rows[id] = NoRow
    BY DEF Stored, Exists
  <2> QED
    BY <1>1, <1>2, <1>3, <1>4, <1>5, <2>1 DEF n, m, local
<1>9. Stored' = 1 .. n + m
  <2>1. \A id \in 1 .. n : rows'[id] # NoRow
    BY <1>3, <1>7 DEF Stored, Exists
  <2>2. \A id \in n + 1 .. n + m : rows'[id] # NoRow
    BY <1>6, RowIsStored
  <2>3. \A id \in BookingId : rows'[id] # NoRow <=> id \in 1 .. n + m
    BY <1>2, <1>3, <1>5, <1>8, <2>1, <2>2
  <2>4. 1 .. n + m \subseteq BookingId
    BY <1>2, <1>3, <1>4, <1>5
  <2> QED
    BY <2>3, <2>4 DEF Stored, Exists
<1> QED
  BY <1>4, <1>6, <1>7, <1>8, <1>9 DEF Inserted, n, m, local

\* The insert and the commit.
LEMMA CommitInv ==
    ASSUME BookInv, NEW r \in Requests, CreateCommit(r)
    PROVE  BookInv'
<1> DEFINE n == Cardinality(Stored)
           m == Len(request[r].slots)
<1>1. /\ TypeOK /\ At(r, "create") /\ Goto(r, Idle) /\ lock' = NoRequest /\ lock = r
      /\ escrowEvents' = IF request[r].series THEN escrowEvents
                         ELSE escrowEvents \cup (n + 1 .. n + 1 + m - 1)
      /\ UNCHANGED <<deleted, confirmEvents, webhooks, now, everCancelled>>
  BY DEF CreateCommit, BookInv, TypeOK, At
<1>2. Inserted(r)
  BY CommitInserts
<1>3. n \in 0 .. MaxBookings /\ Stored = 1 .. n /\ MaxBookings \in Nat /\ m \in Nat
  BY <1>1, StoredDense, NumbersAssumption, LocalState
<1>4. /\ n + m <= MaxBookings /\ Stored' = 1 .. n + m
      /\ \A id \in Stored : rows'[id] = rows[id]
      /\ \A id \in n + 1 .. n + m :
              rows'[id] \in Row /\ rows'[id].status = "Pending" /\ rows'[id].refund = "unset"
      /\ \A id \in BookingId : id > n + m => rows'[id] = NoRow
  BY <1>2 DEF Inserted
<1> HIDE DEF n, m
<1>5. /\ DOMAIN request' = Requests /\ request'[r] = Idle
      /\ \A q \in Requests \ {r} : request'[q] = request[q]
  BY <1>1 DEF Goto, TypeOK
<1>6. rows' \in [BookingId -> Row \cup {NoRow}]
  <2>1. \A id \in Stored : rows'[id] \in Row
    BY <1>1, <1>4, StoredRow
  <2>2. \A id \in BookingId : rows'[id] \in Row \cup {NoRow}
    BY <1>3, <1>4, <2>1 DEF BookingId
  <2>3. rows' = [id \in BookingId |-> rows'[id]]
    BY DEF CreateCommit
  <2> QED
    BY <2>2, <2>3
<1>7. escrowEvents' \subseteq BookingId
  <2>1. n + 1 .. n + 1 + m - 1 \subseteq BookingId
    BY <1>3, <1>4 DEF BookingId
  <2> QED
    BY <1>1, <2>1 DEF TypeOK
<1>8. \A q \in Requests : Local(request'[q]) /\ (request'[q].at = "create" <=> lock' = q)
  <2>1. Local(Idle) /\ Idle.at # "create"
    BY DEF Local, Idle
  <2>2. \A q \in Requests : lock' # q
    BY <1>1, NoRequestAssumption
  <2>3. \A q \in Requests \ {r} : Local(request[q]) /\ request[q].at # "create"
    BY <1>1 DEF TypeOK
  <2> QED
    BY <1>5, <2>1, <2>2, <2>3
<1>9. TypeOK'
  BY <1>1, <1>5, <1>6, <1>7, <1>8 DEF TypeOK
<1>10. /\ \A id \in Stored' : Consistent(id)'
       /\ everCancelled' \subseteq Stored'
       /\ \A id \in BookingId : id \notin Stored' => confirmEvents'[id] = 0
  <2>1. \A id \in Stored : Consistent(id)'
    BY <1>1, <1>4 DEF BookInv, Consistent
  <2>2. \A id \in n + 1 .. n + m : id \in BookingId /\ id \notin Stored
    BY <1>3, <1>4 DEF BookingId
  <2>3. \A id \in n + 1 .. n + m : Consistent(id)'
    BY <1>1, <1>4, <2>2 DEF BookInv, Consistent
  <2>4. \A id \in Stored' : id \in Stored \/ id \in n + 1 .. n + m
    BY <1>3, <1>4
  <2>5. Stored \subseteq Stored'
    BY <1>3, <1>4
  <2> QED
    BY <1>1, <2>1, <2>3, <2>4, <2>5 DEF BookInv
<1>11. ASSUME NEW q \in Requests PROVE Holds(q)'
  <2>1. Stored \subseteq Stored'
    BY <1>3, <1>4
  <2>2. CASE q = r
    BY <1>5, <2>2 DEF Holds, At, Idle, Confirming, Cancelling, Updating
  <2>3. CASE q # r
    <3>1. Holds(q) /\ request'[q] = request[q] /\ ~At(q, "create")
      BY <1>1, <1>5, <2>3 DEF BookInv, TypeOK, At
    <3> QED
      BY <1>4, <2>1, <3>1 DEF Holds, At, Confirming, Cancelling, Updating
  <2> QED
    BY <2>2, <2>3
<1>12. n + m \in 0 .. MaxBookings
  BY <1>3, <1>4
<1> QED
  BY <1>1, <1>4, <1>9, <1>10, <1>11, <1>12 DEF BookInv

\* The empty table.
LEMMA InitInv == Init => BookInv
<1> SUFFICES ASSUME Init PROVE BookInv
  OBVIOUS
<1>1. Stored = {} /\ MaxBookings \in Nat
  BY NumbersAssumption DEF Init, Stored, Exists
<1>2. Stored = 1 .. 0 /\ 0 \in 0 .. MaxBookings
  BY <1>1
<1>3. TypeOK
  <2>1. \A r \in Requests : Local(request[r]) /\ request[r].at # "create" /\ lock # r
    BY NoRequestAssumption DEF Init, Local, Idle
  <2>2. {confirmEvents, webhooks} \subseteq [BookingId -> Nat]
    BY DEF Init
  <2>3. rows \in [BookingId -> Row \cup {NoRow}] /\ DOMAIN request = Requests
    BY DEF Init
  <2> QED
    BY <2>1, <2>2, <2>3 DEF Init, TypeOK
<1>4. \A r \in Requests : Holds(r)
  BY DEF Init, Holds, At, Idle, Confirming, Cancelling, Updating
<1> QED
  BY <1>1, <1>2, <1>3, <1>4 DEF BookInv, Init

\* A step inserts, or leaves or overwrites what is stored.
LEMMA StepKinds ==
    ASSUME BookInv, [Next]_vars
    PROVE  /\ BookInv'
           /\ Overwritten \/ \E r \in Requests : CreateCommit(r)
<1>1. ASSUME NEW r \in Requests, NEW u \in Users, NEW s \in Slots, CreateCheck(r, u, s)
      PROVE  BookInv' /\ Overwritten
  <2>1. <<s>> \in Seq(Slot)
    BY SlotsAssumption
  <2> QED
    BY <1>1, <2>1, CheckInv DEF CreateCheck
<1>2. ASSUME NEW r \in Requests, NEW u \in Users, NEW shape \in SeriesShapes,
             CreateSeriesCheck(r, u, shape)
      PROVE  BookInv' /\ Overwritten
  BY <1>2, SlotsAssumption, CheckInv DEF CreateSeriesCheck
<1> QED
  BY <1>1, <1>2, CommitInv, SaveSelectInv, ConfirmWriteInv, ConfirmNotifyInv, CancelWriteInv, DeleteReadInv,
     DeleteWriteInv, AbortInv, ReadInv, TickInv DEF Next

LEMMA StepInv == BookInv /\ [Next]_vars => BookInv'
  BY StepKinds

\* The table, the requests and the lock keep their types under every interleaving.
THEOREM TypeCorrect == Spec => []TypeOK
<1>1. BookInv => TypeOK
  BY DEF BookInv
<1> QED
  BY InitInv, StepInv, <1>1, PTL DEF Spec

\* No step inserts a booking once the workspace is deleted: who is between the check and the
\* insert holds the lock that the deletion waits for.
THEOREM DeletionStops == Spec => DeletedTakesNone
<1>1. ASSUME BookInv, [Next]_vars, deleted PROVE Stored' = Stored
  <2>1. \A r \in Requests : ~CreateCommit(r)
    <3>1. lock = NoRequest
      BY <1>1 DEF BookInv
    <3>2. \A r \in Requests : ~At(r, "create")
      BY <1>1, <3>1, NoRequestAssumption DEF BookInv, TypeOK, At
    <3> QED
      BY <3>2 DEF CreateCommit
  <2>2. Overwritten
    BY <1>1, <2>1, StepKinds
  <2> QED
    BY <1>1, <2>2, OverwrittenStored DEF BookInv
<1>2. BookInv /\ [Next]_vars => [deleted => Stored' = Stored]_vars
  BY <1>1
<1> QED
  BY InitInv, StepInv, <1>2, PTL DEF Spec, DeletedTakesNone

-----------------------------------------------------------------------------
(* Callbacks follow commits *)

\* The confirmations of a booking that are committed and not announced yet.
Notifying(id) == {r \in Requests : At(r, "notify") /\ request[r].id = id}

\* Each of them has an event of its own.
NotifyInv ==
    \A id \in BookingId :
        /\ IsFiniteSet(Notifying(id))
        /\ webhooks[id] + Cardinality(Notifying(id)) <= confirmEvents[id]

\* A step that announces nothing and confirms nothing can only end such a request.
LEMMA NotifyFewer ==
    ASSUME TypeOK, NotifyInv, UNCHANGED <<confirmEvents, webhooks>>,
           \A id \in BookingId : Notifying(id)' \subseteq Notifying(id)
    PROVE  NotifyInv'
<1>1. ASSUME NEW id \in BookingId
      PROVE  /\ IsFiniteSet(Notifying(id)')
             /\ webhooks'[id] + Cardinality(Notifying(id)') <= confirmEvents'[id]
  <2>1. IsFiniteSet(Notifying(id)) /\ webhooks[id] + Cardinality(Notifying(id)) <= confirmEvents[id]
    BY DEF NotifyInv
  <2>2. Notifying(id)' \in SUBSET Notifying(id)
    OBVIOUS
  <2>3. IsFiniteSet(Notifying(id)') /\ Cardinality(Notifying(id)') <= Cardinality(Notifying(id))
    BY <2>1, <2>2, FS_Subset
  <2>4. Cardinality(Notifying(id)) \in Nat /\ Cardinality(Notifying(id)') \in Nat
    BY <2>1, <2>3, FS_CardinalityType
  <2>5. webhooks[id] \in Nat /\ confirmEvents[id] \in Nat
    BY DEF TypeOK
  <2> QED
    BY <2>1, <2>3, <2>4, <2>5
<1> QED
  BY <1>1 DEF NotifyInv

\* The request that commits a confirmation and the event is one more to announce it.
LEMMA NotifyConfirmed ==
    ASSUME BookInv, NotifyInv, NEW r \in Requests, ConfirmWrite(r)
    PROVE  NotifyInv'
<1>1. PICK x \in DOMAIN request[r].copies :
          /\ confirmEvents' = [confirmEvents EXCEPT ![x] = @ + 1]
          /\ Goto(r, [at |-> "notify", id |-> x])
  BY DEF ConfirmWrite
<1>2. /\ At(r, "confirmUpdate") /\ webhooks' = webhooks /\ TypeOK
  BY DEF ConfirmWrite, BookInv
<1>3. x \in BookingId
  BY <1>1, <1>2, LocalState DEF Confirming
<1>4. /\ request'[r] = [at |-> "notify", id |-> x]
      /\ \A q \in Requests \ {r} : request'[q] = request[q]
  BY <1>1, <1>2 DEF Goto, TypeOK
<1>5. \A id \in BookingId : r \notin Notifying(id)
  BY <1>2 DEF Notifying, At
<1>6. \A id \in BookingId : Notifying(id)' = IF id = x THEN Notifying(id) \cup {r} ELSE Notifying(id)
  BY <1>4, <1>5 DEF Notifying, At
<1>7. ASSUME NEW id \in BookingId
      PROVE  /\ IsFiniteSet(Notifying(id)')
             /\ webhooks'[id] + Cardinality(Notifying(id)') <= confirmEvents'[id]
  <2>1. IsFiniteSet(Notifying(id)) /\ webhooks[id] + Cardinality(Notifying(id)) <= confirmEvents[id]
    BY DEF NotifyInv
  <2>2. Cardinality(Notifying(id)) \in Nat /\ webhooks[id] \in Nat /\ confirmEvents[id] \in Nat
    BY <1>2, <2>1, FS_CardinalityType DEF TypeOK
  <2>3. CASE id = x
    <3>1. /\ IsFiniteSet(Notifying(id) \cup {r})
          /\ Cardinality(Notifying(id) \cup {r}) = Cardinality(Notifying(id)) + 1
      BY <1>5, <2>1, FS_AddElement
    <3>2. confirmEvents'[id] = confirmEvents[id] + 1 /\ webhooks'[id] = webhooks[id]
      BY <1>1, <1>2, <2>3 DEF TypeOK
    <3>3. Notifying(id)' = Notifying(id) \cup {r}
      BY <1>6, <2>3
    <3> QED
      BY <2>1, <2>2, <3>1, <3>2, <3>3
  <2>4. CASE id # x
    BY <1>1, <1>2, <1>6, <2>1, <2>4 DEF TypeOK
  <2> QED
    BY <2>3, <2>4
<1> QED
  BY <1>7 DEF NotifyInv

\* A callback goes out for a request that had committed.
LEMMA NotifyAnnounced ==
    ASSUME BookInv, NotifyInv, NEW r \in Requests, ConfirmNotify(r)
    PROVE  NotifyInv'
<1> DEFINE x == request[r].id
<1>1. /\ At(r, "notify") /\ confirmEvents' = confirmEvents /\ TypeOK
      /\ webhooks' = [webhooks EXCEPT ![x] = @ + 1] /\ Goto(r, Idle)
  BY DEF ConfirmNotify, BookInv, outbox
<1>2. x \in BookingId
  BY <1>1, LocalState
<1>3. request'[r] = Idle /\ \A q \in Requests \ {r} : request'[q] = request[q]
  BY <1>1 DEF Goto, TypeOK
<1>4. r \in Notifying(x)
  BY <1>1 DEF Notifying
<1>5. \A id \in BookingId : Notifying(id)' = IF id = x THEN Notifying(id) \ {r} ELSE Notifying(id)
  BY <1>3 DEF Notifying, At, Idle
<1>6. ASSUME NEW id \in BookingId
      PROVE  /\ IsFiniteSet(Notifying(id)')
             /\ webhooks'[id] + Cardinality(Notifying(id)') <= confirmEvents'[id]
  <2>1. IsFiniteSet(Notifying(id)) /\ webhooks[id] + Cardinality(Notifying(id)) <= confirmEvents[id]
    BY DEF NotifyInv
  <2>2. Cardinality(Notifying(id)) \in Nat /\ webhooks[id] \in Nat /\ confirmEvents[id] \in Nat
    BY <1>1, <2>1, FS_CardinalityType DEF TypeOK
  <2>3. CASE id = x
    <3>1. /\ IsFiniteSet(Notifying(id) \ {r})
          /\ Cardinality(Notifying(id) \ {r}) = Cardinality(Notifying(id)) - 1
      BY <1>4, <2>1, <2>3, FS_RemoveElement
    <3>2. webhooks'[id] = webhooks[id] + 1
      BY <1>1, <1>2, <2>3 DEF TypeOK
    <3>3. Notifying(id)' = Notifying(id) \ {r} /\ confirmEvents'[id] = confirmEvents[id]
      BY <1>1, <1>5, <2>3
    <3> QED
      BY <2>1, <2>2, <3>1, <3>2, <3>3
  <2>4. CASE id # x
    BY <1>1, <1>2, <1>5, <2>1, <2>4 DEF TypeOK
  <2> QED
    BY <2>3, <2>4
<1> QED
  BY <1>6 DEF NotifyInv

LEMMA StepNotify == BookInv /\ NotifyInv /\ [Next]_vars => NotifyInv'
<1> SUFFICES ASSUME BookInv, NotifyInv, [Next]_vars PROVE NotifyInv'
  OBVIOUS
<1>0. TypeOK
  BY DEF BookInv
<1>1. ASSUME NEW r \in Requests, NEW local, Goto(r, local), local.at # "notify",
             UNCHANGED <<confirmEvents, webhooks>>
      PROVE  NotifyInv'
  <2>1. request'[r].at # "notify" /\ \A q \in Requests \ {r} : request'[q] = request[q]
    BY <1>0, <1>1 DEF Goto, TypeOK
  <2>2. \A id \in BookingId : Notifying(id)' \subseteq Notifying(id)
    BY <2>1 DEF Notifying, At
  <2> QED
    BY <1>0, <1>1, <2>2, NotifyFewer
<1>2. CASE Tick \/ UNCHANGED vars
  <2>1. UNCHANGED <<request, confirmEvents, webhooks>>
    BY <1>2 DEF Tick, vars, outbox
  <2> QED
    BY <2>1 DEF NotifyInv, Notifying, At
<1>3. ASSUME NEW r \in Requests,
             \/ CreateCommit(r) \/ CancelWrite(r) \/ DeleteWrite(r) \/ Abort(r)
      PROVE  NotifyInv'
  <2>1. Goto(r, Idle) /\ Idle.at # "notify" /\ UNCHANGED <<confirmEvents, webhooks>>
    BY <1>3 DEF CreateCommit, CancelWrite, DeleteWrite, Abort, Idle, outbox
  <2> QED
    BY <1>1, <2>1
<1>4. ASSUME NEW r \in Requests, DeleteRead(r) PROVE NotifyInv'
  BY <1>1, <1>4 DEF DeleteRead, outbox
<1>5. ASSUME NEW r \in Requests, NEW id \in BookingId, ConfirmRead(r, id) PROVE NotifyInv'
  BY <1>1, <1>5 DEF ConfirmRead, outbox
<1>6. ASSUME NEW r \in Requests, NEW u \in Users, NEW slots, NEW series, Check(r, u, slots, series)
      PROVE  NotifyInv'
  BY <1>1, <1>6 DEF Check, outbox
<1>7. ASSUME NEW r \in Requests, NEW u \in Users, NEW id \in BookingId,
             CancelRead(r, u, id) \/ CancelSeriesRead(r, u, id)
      PROVE  NotifyInv'
  BY <1>1, <1>7 DEF CancelRead, CancelSeriesRead, outbox
<1>8. ASSUME NEW r \in Requests, SaveSelect(r) PROVE NotifyInv'
  <2>1. PICK copies, columns :
            Goto(r, [at |-> IF At(r, "confirm") THEN "confirmUpdate" ELSE "cancelUpdate",
                     copies |-> copies, columns |-> columns])
    BY <1>8 DEF SaveSelect
  <2>2. UNCHANGED <<confirmEvents, webhooks>>
    BY <1>8 DEF SaveSelect, outbox
  <2> QED
    BY <1>1, <2>1, <2>2
<1> QED
  BY <1>2, <1>3, <1>4, <1>5, <1>6, <1>7, <1>8, NotifyConfirmed, NotifyAnnounced
  DEF Next, CreateCheck, CreateSeriesCheck

\* However the selects and the updates of late copies mix, a booking is Confirmed only with the
\* event of a confirmation, carries a refund only if it was cancelled and is never Pending again
\* after either; and every callback belongs to an event that was committed before it, wherever
\* a request fails.
THEOREM SavesHold == Spec => []SavesAgree
<1>1. Init => NotifyInv
  <2> SUFFICES ASSUME Init, NEW id \in BookingId
               PROVE  /\ IsFiniteSet(Notifying(id))
                      /\ webhooks[id] + Cardinality(Notifying(id)) <= confirmEvents[id]
    BY DEF NotifyInv
  <2>1. Notifying(id) = {} /\ webhooks[id] = 0 /\ confirmEvents[id] = 0
    BY DEF Init, Notifying, At, Idle
  <2> QED
    BY <2>1, FS_EmptySet
<1>2. BookInv /\ NotifyInv => SavesAgree
  <2> SUFFICES ASSUME BookInv, NotifyInv PROVE SavesAgree
    OBVIOUS
  <2>1. RowsExplained
    BY DEF BookInv, Consistent, RowsExplained
  <2>2. ASSUME NEW id \in BookingId PROVE webhooks[id] <= confirmEvents[id]
    <3>1. IsFiniteSet(Notifying(id)) /\ webhooks[id] + Cardinality(Notifying(id)) <= confirmEvents[id]
      BY DEF NotifyInv
    <3>2. Cardinality(Notifying(id)) \in Nat /\ webhooks[id] \in Nat /\ confirmEvents[id] \in Nat
      BY <3>1, FS_CardinalityType DEF BookInv, TypeOK
    <3> QED
      BY <3>1, <3>2
  <2> QED
    BY <2>1, <2>2 DEF SavesAgree, AnnouncedAfterCommit
<1> QED
  BY InitInv, StepInv, <1>1, StepNotify, <1>2, PTL DEF Spec

-----------------------------------------------------------------------------
(* The sweep: induction over the events of a request *)

\* A set of natural numbers that has 0 and with a number the next one has them all.
LEMMA NatSetInduction ==
    ASSUME NEW S \in SUBSET Nat, 0 \in S, \A n \in S : n + 1 \in S
    PROVE  \A n \in Nat : n \in S
<1> DEFINE R == {ss \in Nat \X Nat : ss[1] < ss[2]}
           Missing == Nat \ S
<1> SUFFICES ASSUME Missing # {} PROVE FALSE
  OBVIOUS
<1>1. IsWellFoundedOn(R, Nat)
  BY NatLessThanWellFounded DEF OpToRel
<1>2. \E x \in Missing : \A y \in Missing : ~ (<<y, x>> \in R)
  <2>1. Missing \in SUBSET Nat
    OBVIOUS
  <2> HIDE DEF R, Missing
  <2> QED
    BY <1>1, <2>1, WFMin
<1>3. PICK x \in Missing : \A y \in Missing : ~ (<<y, x>> \in R)
  BY <1>2
<1>4. x \in Nat /\ x # 0 /\ x - 1 \in Nat
  OBVIOUS
<1>5. <<x - 1, x>> \in R
  <2>1. <<x - 1, x>> \in Nat \X Nat /\ x - 1 < x
    BY <1>4
  <2> QED
    BY <2>1
<1>6. x - 1 \in S
  <2> HIDE DEF R
  <2> QED
    BY <1>3, <1>4, <1>5
<1>7. x - 1 + 1 = x
  BY <1>4
<1> QED
  BY <1>6, <1>7

\* What the sweep meets: a finite set of starts and ends.
Timed(S) == IsFiniteSet(S) /\ \A e \in S : e.time \in Int /\ e.type \in {"start", "end"}

\* The last event is one of them, and comes before none.
LEMMA LastIsLast ==
    ASSUME NEW S, Timed(S), S # {}
    PROVE  LastOf(S) \in S /\ \A f \in S : ~Before(LastOf(S), f)
<1> DEFINE HasLast(s) == \E e \in s : \A f \in s : ~Before(e, f)
           Good == {n \in Nat : \A s \in SUBSET S : s # {} /\ Cardinality(s) <= n => HasLast(s)}
<1>0. \A s \in SUBSET S : IsFiniteSet(s) /\ Cardinality(s) \in Nat
  BY FS_Subset, FS_CardinalityType DEF Timed
<1>1. 0 \in Good
  <2>1. \A s \in SUBSET S : Cardinality(s) <= 0 => s = {}
    BY <1>0, FS_EmptySet
  <2> QED
    BY <2>1
<1>2. ASSUME NEW n \in Good PROVE n + 1 \in Good
  <2>1. SUFFICES ASSUME NEW s \in SUBSET S, s # {}, Cardinality(s) <= n + 1 PROVE HasLast(s)
    OBVIOUS
  <2>2. PICK x \in s : TRUE
    BY <2>1
  <2>3. x \in S /\ ~Before(x, x)
    BY <2>2 DEF Timed, Before
  <2> DEFINE rest == s \ {x}
  <2>4. Cardinality(rest) = Cardinality(s) - 1
    BY <1>0, <2>2, FS_RemoveElement
  <2>5. rest \in SUBSET S /\ Cardinality(rest) <= n
    BY <1>0, <2>1, <2>4
  <2>6. CASE rest = {}
    <3>1. s = {x}
      BY <2>2, <2>6
    <3> QED
      BY <2>3, <3>1
  <2>7. CASE rest # {}
    <3>1. PICK e \in rest : \A f \in rest : ~Before(e, f)
      BY <2>5, <2>7
    <3>2. \A f \in s : f \in rest \/ f = x
      OBVIOUS
    <3>3. CASE ~Before(e, x)
      BY <3>1, <3>2, <3>3
    <3>4. CASE Before(e, x)
      <4>1. \A f \in rest : Before(x, f) => Before(e, f)
        <5>1. \A f \in S : f.time \in Int
          BY DEF Timed
        <5> QED
          BY <2>3, <3>1, <3>4, <5>1 DEF Before
      <4> QED
        BY <2>2, <2>3, <3>1, <3>2, <4>1
    <3> QED
      BY <3>3, <3>4
  <2> QED
    BY <2>6, <2>7
<1>3. \A n \in Nat : n \in Good
  <2> HIDE DEF Good
  <2>1. Good \in SUBSET Nat
    BY DEF Good
  <2> QED
    BY <1>1, <1>2, <2>1, NatSetInduction
<1>4. HasLast(S)
  <2>1. Cardinality(S) \in Good
    BY <1>0, <1>3
  <2> QED
    BY <1>0, <2>1
<1> QED
  BY <1>4 DEF LastOf

\* One step of the fold, with the rest of the events already swept.
Base == [current |-> 0, max |-> 0]
Walked(f, s) == IF s = {} THEN Base ELSE Count(LastOf(s), f[s \ {LastOf(s)}])
Walk(f, S) == [s \in SUBSET S |-> Walked(f, s)]
Sweeps(f, S) == f = Walk(f, S)
Sweep(S) == MapThenFoldSet(Count, Base, LAMBDA e : e, LastOf, S)

\* The recursive function of the fold is defined on every finite set of events.
LEMMA WalkExists ==
    ASSUME NEW S, Timed(S)
    PROVE  \E f : f = Walk(f, S)
<1> DEFINE Upto(h, n) == \A s \in SUBSET S : Cardinality(s) <= n => h[s] = Walked(h, s)
           Good == {n \in Nat : \E h : Upto(h, n)}
<1>0. \A s \in SUBSET S : IsFiniteSet(s) /\ Cardinality(s) \in Nat
  BY FS_Subset, FS_CardinalityType DEF Timed
<1>1. 0 \in Good
  <2> DEFINE h == [s \in SUBSET S |-> Base]
  <2>1. \A s \in SUBSET S : Cardinality(s) <= 0 => s = {}
    BY <1>0, FS_EmptySet
  <2>2. Upto(h, 0)
    BY <2>1 DEF Walked
  <2> QED
    BY <2>2
<1>2. ASSUME NEW n \in Good PROVE n + 1 \in Good
  <2>1. PICK h : Upto(h, n)
    OBVIOUS
  <2> DEFINE g == Walk(h, S)
  <2>2. ASSUME NEW s \in SUBSET S, Cardinality(s) <= n + 1 PROVE g[s] = Walked(g, s)
    <3>1. g[s] = Walked(h, s)
      BY DEF Walk
    <3>2. CASE s = {}
      BY <3>1, <3>2 DEF Walked
    <3>3. CASE s # {}
      <4> DEFINE r == s \ {LastOf(s)}
      <4>1. Timed(s)
        BY <1>0 DEF Timed
      <4>2. LastOf(s) \in s
        BY <3>3, <4>1, LastIsLast
      <4>3. Cardinality(r) = Cardinality(s) - 1
        BY <1>0, <4>2, FS_RemoveElement
      <4>4. r \in SUBSET S /\ Cardinality(r) <= n
        BY <1>0, <2>2, <4>3
      <4>5. h[r] = Walked(h, r)
        BY <2>1, <4>4
      <4>6. g[r] = Walked(h, r)
        BY <4>4 DEF Walk
      <4> QED
        BY <3>1, <3>3, <4>5, <4>6 DEF Walked
    <3> QED
      BY <3>2, <3>3
  <2>3. Upto(g, n + 1)
    BY <2>2
  <2> QED
    BY <2>3
<1>3. \A n \in Nat : n \in Good
  <2> HIDE DEF Good
  <2>1. Good \in SUBSET Nat
    BY DEF Good
  <2> QED
    BY <1>1, <1>2, <2>1, NatSetInduction
<1>4. PICK h : Upto(h, Cardinality(S))
  <2>1. Cardinality(S) \in Good
    BY <1>0, <1>3
  <2> QED
    BY <2>1
<1> DEFINE g == [s \in SUBSET S |-> h[s]]
<1>5. ASSUME NEW s \in SUBSET S PROVE g[s] = Walked(g, s)
  <2>1. h[s] = Walked(h, s)
    <3>1. Cardinality(s) <= Cardinality(S)
      BY FS_Subset DEF Timed
    <3> QED
      BY <1>4, <3>1
  <2>2. s \ {LastOf(s)} \in SUBSET S
    OBVIOUS
  <2> QED
    BY <2>1, <2>2 DEF Walked
<1>6. g = Walk(g, S)
  BY <1>5 DEF Walk
<1> QED
  BY <1>6

LEMMA SweepIsWalk ==
    ASSUME NEW S, Timed(S)
    PROVE  \E f : Sweeps(f, S) /\ Sweep(S) = f[S]
<1> DEFINE h == CHOOSE f : f = Walk(f, S)
<1>1. h = Walk(h, S)
  <2>1. \E f : f = Walk(f, S)
    BY WalkExists
  <2>2. (CHOOSE f : f = Walk(f, S)) = Walk(CHOOSE f : f = Walk(f, S), S)
    BY <2>1, Zenon
  <2> QED
    BY <2>2
<1>2. Sweep(S) = h[S]
  BY DEF Sweep, MapThenFoldSet, Walk, Walked
<1> HIDE DEF h
<1> QED
  BY <1>1, <1>2 DEF Sweeps

\* What holds of no events, and of a set of events when it holds without the last one, holds
\* of every set of events.
LEMMA EventInduction ==
    ASSUME NEW S, Timed(S), NEW Good \in SUBSET (SUBSET S), {} \in Good,
           \A s \in SUBSET S : s # {} /\ s \ {LastOf(s)} \in Good => s \in Good
    PROVE  \A s \in SUBSET S : s \in Good
<1> DEFINE Sizes == {n \in Nat : \A s \in SUBSET S : Cardinality(s) <= n => s \in Good}
<1>0. \A s \in SUBSET S : IsFiniteSet(s) /\ Cardinality(s) \in Nat
  BY FS_Subset, FS_CardinalityType DEF Timed
<1>1. 0 \in Sizes
  <2>1. \A s \in SUBSET S : Cardinality(s) <= 0 => s = {}
    BY <1>0, FS_EmptySet
  <2> QED
    BY <2>1
<1>2. ASSUME NEW n \in Sizes PROVE n + 1 \in Sizes
  <2>1. ASSUME NEW s \in SUBSET S, Cardinality(s) <= n + 1, s # {} PROVE s \in Good
    <3>1. LastOf(s) \in s
      BY <1>0, <2>1, LastIsLast DEF Timed
    <3>2. Cardinality(s \ {LastOf(s)}) = Cardinality(s) - 1
      BY <1>0, <3>1, FS_RemoveElement
    <3>3. Cardinality(s \ {LastOf(s)}) <= n /\ s \ {LastOf(s)} \in SUBSET S
      BY <1>0, <2>1, <3>2
    <3> QED
      BY <2>1, <3>3
  <2>2. n \in Nat /\ \A s \in SUBSET S : Cardinality(s) <= n + 1 => s \in Good
    BY <2>1
  <2>3. n + 1 \in Nat
    BY <2>2
  <2> QED
    BY <2>2, <2>3
<1>3. \A n \in Nat : n \in Sizes
  <2> HIDE DEF Sizes
  <2>1. Sizes \in SUBSET Nat
    BY DEF Sizes
  <2> QED
    BY <1>1, <1>2, <2>1, NatSetInduction
<1> QED
  BY <1>0, <1>3

-----------------------------------------------------------------------------
(* What the sweep counts *)

Starts(s) == {e \in s : e.type = "start"}
Ends(s) == {e \in s : e.type = "end"}
Excess(s) == Cardinality(Starts(s)) - Cardinality(Ends(s))
Upto(s, t) == {e \in s : e.time <= t}

LEMMA ExcessType ==
    ASSUME NEW S, Timed(S)
    PROVE  /\ IsFiniteSet(Starts(S)) /\ IsFiniteSet(Ends(S)) /\ Excess(S) \in Int
           /\ Cardinality(Starts(S)) \in Nat /\ Cardinality(Ends(S)) \in Nat
<1>1. Starts(S) \in SUBSET S /\ Ends(S) \in SUBSET S
  BY DEF Starts, Ends
<1>2. IsFiniteSet(Starts(S)) /\ IsFiniteSet(Ends(S))
  BY <1>1, FS_Subset DEF Timed
<1> QED
  BY <1>2, FS_CardinalityType DEF Excess

\* One event more.
LEMMA ExcessStep ==
    ASSUME NEW S, Timed(S), NEW l \in S
    PROVE  Excess(S) = Excess(S \ {l}) + IF l.type = "start" THEN 1 ELSE -1
<1>1. /\ IsFiniteSet(Starts(S)) /\ IsFiniteSet(Ends(S)) /\ Excess(S) \in Int
      /\ Cardinality(Starts(S)) \in Nat /\ Cardinality(Ends(S)) \in Nat
  BY ExcessType
<1>2. CASE l.type = "start"
  <2>1. Starts(S \ {l}) = Starts(S) \ {l} /\ Ends(S \ {l}) = Ends(S) /\ l \in Starts(S)
    BY <1>2 DEF Starts, Ends
  <2>2. Cardinality(Starts(S) \ {l}) = Cardinality(Starts(S)) - 1
    BY <1>1, <2>1, FS_RemoveElement
  <2>3. Excess(S \ {l}) = (Cardinality(Starts(S)) - 1) - Cardinality(Ends(S))
    BY <2>1, <2>2, Zenon DEF Excess
  <2> QED
    BY <1>1, <1>2, <2>3 DEF Excess
<1>3. CASE l.type = "end"
  <2>1. Ends(S \ {l}) = Ends(S) \ {l} /\ Starts(S \ {l}) = Starts(S) /\ l \in Ends(S)
    BY <1>3 DEF Starts, Ends
  <2>2. Cardinality(Ends(S) \ {l}) = Cardinality(Ends(S)) - 1
    BY <1>1, <2>1, FS_RemoveElement
  <2>3. Excess(S \ {l}) = Cardinality(Starts(S)) - (Cardinality(Ends(S)) - 1)
    BY <2>1, <2>2, Zenon DEF Excess
  <2>4. l.type # "start"
    BY <1>3
  <2> QED
    BY <1>1, <2>3, <2>4 DEF Excess
<1> QED
  BY <1>2, <1>3 DEF Timed

\* The sweep of some events, from the sweep of all but the last.
LEMMA WalkStep ==
    ASSUME NEW S, Timed(S), NEW f, Sweeps(f, S), NEW s \in SUBSET S, s # {}
    PROVE  /\ Timed(s) /\ LastOf(s) \in s /\ \A e \in s : ~Before(LastOf(s), e)
           /\ s \ {LastOf(s)} \in SUBSET S
           /\ f[s] = Count(LastOf(s), f[s \ {LastOf(s)}])
<1>1. Timed(s)
  BY FS_Subset DEF Timed
<1>2. f[s] = Walked(f, s)
  <2>1. Walk(f, S)[s] = Walked(f, s)
    BY DEF Walk
  <2> QED
    BY <2>1 DEF Sweeps
<1> QED
  BY <1>1, <1>2, LastIsLast DEF Walked

Steps(f, S) ==
    \A s \in SUBSET S : s # {} =>
        /\ Timed(s) /\ LastOf(s) \in s /\ \A e \in s : ~Before(LastOf(s), e)
        /\ f[s] = Count(LastOf(s), f[s \ {LastOf(s)}])

LEMMA WalkSteps ==
    ASSUME NEW S, Timed(S), NEW f, Sweeps(f, S)
    PROVE  Steps(f, S)
<1> SUFFICES ASSUME NEW s \in SUBSET S, s # {}
             PROVE  /\ Timed(s) /\ LastOf(s) \in s /\ \A e \in s : ~Before(LastOf(s), e)
                    /\ f[s] = Count(LastOf(s), f[s \ {LastOf(s)}])
  BY DEF Steps
<1> QED
  BY WalkStep

LEMMA WalkEmpty ==
    ASSUME NEW S, NEW f, Sweeps(f, S)
    PROVE  f[{}] = Base
<1>1. Walk(f, S)[{}] = Walked(f, {})
  BY DEF Walk
<1> QED
  BY <1>1 DEF Walked, Sweeps

\* current is the number of starts less the number of ends, and max is no less.
LEMMA WalkCounts ==
    ASSUME NEW S, Timed(S), NEW f, Sweeps(f, S), NEW s \in SUBSET S
    PROVE  /\ f[s].current = Excess(s)
           /\ f[s].max \in Nat /\ f[s].max >= Excess(s)
<1>0. \A p \in SUBSET S : p # {} =>
          /\ Timed(p) /\ LastOf(p) \in p /\ \A e \in p : ~Before(LastOf(p), e)
          /\ p \ {LastOf(p)} \in SUBSET S
          /\ f[p] = Count(LastOf(p), f[p \ {LastOf(p)}])
  <2> TAKE p \in SUBSET S
  <2> HAVE p # {}
  <2> QED
    BY WalkStep
<1> DEFINE Good == {p \in SUBSET S : /\ f[p].current = Excess(p)
                                     /\ f[p].max \in Nat /\ f[p].max >= Excess(p)}
<1>1. {} \in Good
  <2>1. Starts({}) = {} /\ Ends({}) = {}
    BY DEF Starts, Ends
  <2>2. Excess({}) = 0
    BY <2>1, FS_EmptySet DEF Excess
  <2> QED
    BY <2>2, WalkEmpty DEF Base
<1>2. ASSUME NEW p \in SUBSET S, p # {}, p \ {LastOf(p)} \in Good PROVE p \in Good
  <2> DEFINE l == LastOf(p)
             q == p \ {l}
  <2>1. Timed(p) /\ l \in p /\ f[p] = Count(l, f[q])
    BY <1>0, <1>2
  <2>2. Excess(p) = Excess(q) + (IF l.type = "start" THEN 1 ELSE -1) /\ Excess(p) \in Int
    BY <2>1, ExcessStep, ExcessType
  <2>3. Timed(q)
    BY <2>1, FS_Subset DEF Timed
  <2>4. Excess(q) \in Int
    BY <2>3, ExcessType
  <2>5. f[q].current = Excess(q) /\ f[q].max \in Nat /\ f[q].max >= Excess(q)
    BY <1>2
  <2> HIDE DEF l, q
  <2>6. /\ f[p].current = Excess(p)
        /\ f[p].max \in Nat /\ f[p].max >= Excess(p)
    BY <2>1, <2>2, <2>4, <2>5 DEF Count, Larger
  <2> QED
    BY <2>6
<1>3. Good \in SUBSET (SUBSET S)
  OBVIOUS
<1> HIDE DEF Good
<1>4. s \in Good
  BY <1>1, <1>2, <1>3, EventInduction
<1> QED
  BY <1>4 DEF Good

\* At every instant max is no less than what has started and not ended by then.
LEMMA WalkReaches ==
    ASSUME NEW S, Timed(S), NEW f, Sweeps(f, S), NEW s \in SUBSET S, NEW t \in Int
    PROVE  Excess(Upto(s, t)) <= f[s].max
<1>0. \A p \in SUBSET S : p # {} =>
          /\ Timed(p) /\ LastOf(p) \in p /\ \A e \in p : ~Before(LastOf(p), e)
          /\ p \ {LastOf(p)} \in SUBSET S
          /\ f[p] = Count(LastOf(p), f[p \ {LastOf(p)}])
  <2> TAKE p \in SUBSET S
  <2> HAVE p # {}
  <2> QED
    BY WalkStep
<1> DEFINE Good == {p \in SUBSET S : Excess(Upto(p, t)) <= f[p].max}
<1>1. {} \in Good
  <2>1. Upto({}, t) = {}
    BY DEF Upto
  <2> QED
    BY <2>1, WalkCounts
<1>2. ASSUME NEW p \in SUBSET S, p # {}, p \ {LastOf(p)} \in Good PROVE p \in Good
  <2> DEFINE l == LastOf(p)
             q == p \ {l}
  <2>1. Timed(p) /\ l \in p /\ f[p] = Count(l, f[q]) /\ \A e \in p : ~Before(l, e)
    BY <1>0, <1>2
  <2>2. CASE l.time <= t
    <3>1. Upto(p, t) = p
      <4>1. \A e \in p : e.time \in Int /\ e.time <= l.time
        BY <2>1 DEF Timed, Before
      <4>2. \A e \in p : e.time <= t
        BY <2>1, <2>2, <4>1 DEF Timed
      <4> QED
        BY <4>2 DEF Upto
    <3> QED
      BY <3>1, WalkCounts
  <2>3. CASE ~(l.time <= t)
    <3>1. Upto(p, t) = Upto(q, t)
      BY <2>3 DEF Upto
    <3>2. f[q].max <= f[p].max
      <4>1. f[q].max \in Nat /\ f[q].current = Excess(q)
        BY WalkCounts
      <4>2. Timed(q)
        BY <2>1, FS_Subset DEF Timed
      <4>3. Excess(q) \in Int
        BY <4>2, ExcessType
      <4> HIDE DEF q, l
      <4> QED
        BY <2>1, <4>1, <4>3 DEF Count, Larger
    <3>3. Excess(Upto(q, t)) <= f[q].max
      BY <1>2
    <3>4. Timed(Upto(q, t))
      <4>1. Upto(q, t) \in SUBSET p
        BY DEF Upto
      <4> QED
        BY <2>1, <4>1, FS_Subset DEF Timed
    <3>5. Excess(Upto(q, t)) \in Int /\ f[q].max \in Nat /\ f[p].max \in Nat
      BY <3>4, ExcessType, WalkCounts
    <3> HIDE DEF q, l
    <3>6. Excess(Upto(p, t)) <= f[p].max
      BY <3>1, <3>2, <3>3, <3>5
    <3> QED
      BY <3>6
  <2> QED
    BY <2>2, <2>3
<1>3. Good \in SUBSET (SUBSET S)
  OBVIOUS
<1> HIDE DEF Good
<1>4. s \in Good
  BY <1>1, <1>2, <1>3, EventInduction
<1> QED
  BY <1>4 DEF Good

\* A set of events with every event that comes before one of them.
Closed(s, S) == s \in SUBSET S /\ \A e \in s, f \in S : Before(f, e) => f \in s

\* At the last start of a closed set, no more has started in it than by that time in all,
\* and whatever ends by that time has ended in it.
LEMMA ClosedExcess ==
    ASSUME NEW S, Timed(S), NEW s, Closed(s, S), NEW l \in s, l.type = "start",
           \A e \in s : ~Before(l, e)
    PROVE  Excess(s) <= Excess(Upto(S, l.time))
<1> DEFINE u == Upto(S, l.time)
<1>1. s \in SUBSET S /\ l \in S /\ \A e \in S : e.time \in Int /\ e.type \in {"start", "end"}
  BY DEF Closed, Timed
<1>2. \A e \in s : e.time <= l.time
  BY <1>1 DEF Before
<1>3. Starts(s) \in SUBSET Starts(u)
  BY <1>1, <1>2 DEF Starts, Upto
<1>4. Ends(u) \in SUBSET Ends(s)
  <2>1. \A e \in S : e.type = "end" /\ e.time <= l.time => Before(e, l)
    BY <1>1 DEF Before
  <2> QED
    BY <2>1 DEF Ends, Upto, Closed
<1>5. Timed(s) /\ Timed(u)
  <2>1. u \in SUBSET S
    BY DEF Upto
  <2> QED
    BY <1>1, <2>1, FS_Subset DEF Timed
<1> HIDE DEF u
<1>6. /\ IsFiniteSet(Starts(s)) /\ IsFiniteSet(Ends(s)) /\ IsFiniteSet(Starts(u)) /\ IsFiniteSet(Ends(u))
      /\ Cardinality(Starts(s)) \in Nat /\ Cardinality(Ends(s)) \in Nat
      /\ Cardinality(Starts(u)) \in Nat /\ Cardinality(Ends(u)) \in Nat
  BY <1>5, ExcessType
<1>7. Cardinality(Starts(s)) <= Cardinality(Starts(u)) /\ Cardinality(Ends(u)) <= Cardinality(Ends(s))
  BY <1>3, <1>4, <1>6, FS_Subset
<1>8. Excess(s) <= Excess(u)
  BY <1>6, <1>7 DEF Excess
<1> QED
  BY <1>8 DEF u

\* At no start has more than M started and not ended.
AtMost(S, M) == \A e \in S : e.type = "start" => Excess(Upto(S, e.time)) <= M

\* max is no more than the largest number at the time of some start.
LEMMA WalkBounded ==
    ASSUME NEW S, Timed(S), NEW f, Sweeps(f, S), NEW M \in Nat,
           AtMost(S, M)
    PROVE  f[S].max <= M
<1>0. Steps(f, S)
  BY WalkSteps
<1> DEFINE Good == {p \in SUBSET S : Closed(p, S) => f[p].max <= M}
<1>1. {} \in Good
  BY WalkEmpty DEF Base
<1>2. ASSUME NEW p \in SUBSET S, p # {}, p \ {LastOf(p)} \in Good PROVE p \in Good
  <2> DEFINE l == LastOf(p)
             q == p \ {l}
  <2>1. Timed(p) /\ l \in p /\ f[p] = Count(l, f[q]) /\ \A e \in p : ~Before(l, e)
    BY <1>0, <1>2 DEF Steps
  <2>2. SUFFICES ASSUME Closed(p, S) PROVE f[p].max <= M
    OBVIOUS
  <2>3. Closed(q, S)
    BY <2>1, <2>2 DEF Closed
  <2>4. f[q].max \in Nat /\ f[q].max <= M /\ f[q].current = Excess(q)
    BY <1>2, <2>3, WalkCounts
  <2>5. Timed(q)
    BY <2>1, FS_Subset DEF Timed
  <2>6. Excess(q) \in Int /\ Excess(p) \in Int
        /\ Excess(p) = Excess(q) + (IF l.type = "start" THEN 1 ELSE -1)
    BY <2>1, <2>5, ExcessStep, ExcessType
  <2>7. l.type = "start" => Excess(p) <= M
    <3>1. SUFFICES ASSUME l.type = "start" PROVE Excess(p) <= M
      OBVIOUS
    <3>2. l \in S
      BY <2>1
    <3>3. Excess(p) <= Excess(Upto(S, l.time)) /\ Excess(Upto(S, l.time)) <= M
      BY <2>1, <2>2, <3>1, <3>2, ClosedExcess DEF AtMost
    <3>4. Timed(Upto(S, l.time))
      <4>1. Upto(S, l.time) \in SUBSET S
        BY DEF Upto
      <4> QED
        BY <4>1, FS_Subset DEF Timed
    <3>5. Excess(Upto(S, l.time)) \in Int
      BY <3>4, ExcessType
    <3> HIDE DEF l
    <3> QED
      BY <2>6, <3>3, <3>5
  <2> HIDE DEF l, q
  <2> QED
    BY <2>1, <2>4, <2>6, <2>7 DEF Count, Larger
<1>3. Good \in SUBSET (SUBSET S)
  OBVIOUS
<1>4. Closed(S, S)
  BY DEF Closed
<1> HIDE DEF Good
<1>5. S \in Good
  BY <1>1, <1>2, <1>3, EventInduction
<1> QED
  BY <1>4, <1>5 DEF Good

-----------------------------------------------------------------------------
(* The events of a request *)

\* Bookings are finitely many intervals of time.
Intervals(B) == IsFiniteSet(B) /\ \A b \in B : b.start \in Int /\ b.end \in Int /\ b.start < b.end

\* Records that each stand for another member of a set, and leave none out.
LEMMA CountedByOf ==
    ASSUME NEW B, IsFiniteSet(B), NEW E, \A e \in E : e.of \in B,
           \A e, d \in E : e.of = d.of => e = d, \A b \in B : \E e \in E : e.of = b
    PROVE  IsFiniteSet(E) /\ Cardinality(E) = Cardinality(B)
<1> DEFINE f == [e \in E |-> e.of]
<1>1. f \in [E -> B] /\ \A e, d \in E : f[e] = f[d] => e = d
  OBVIOUS
<1>2. \A b \in B : \E e \in E : f[e] = b
  OBVIOUS
<1> HIDE DEF f
<1>3. f \in Injection(E, B)
  BY <1>1 DEF Injection, IsInjective
<1>4. f \in Surjection(E, B)
  BY <1>1, <1>2 DEF Surjection
<1> QED
  BY <1>3, <1>4, FS_Injection

\* The events of some bookings of one kind and up to some time.
StartOf(b, start) == [time |-> Larger(start, b.start), type |-> "start", of |-> b]
EndOf(b, end) == [time |-> Smaller(end, b.end), type |-> "end", of |-> b]

LEMMA EventsOf ==
    ASSUME NEW B, IsFiniteSet(B), NEW start, NEW end
    PROVE  /\ IsFiniteSet({StartOf(b, start) : b \in B})
           /\ Cardinality({StartOf(b, start) : b \in B}) = Cardinality(B)
           /\ IsFiniteSet({EndOf(b, end) : b \in B})
           /\ Cardinality({EndOf(b, end) : b \in B}) = Cardinality(B)
<1> DEFINE S == {StartOf(b, start) : b \in B}
           E == {EndOf(b, end) : b \in B}
<1>1. /\ \A e \in S : e.of \in B
      /\ \A e, d \in S : e.of = d.of => e = d
      /\ \A b \in B : \E e \in S : e.of = b
  <2>1. \A b \in B : StartOf(b, start).of = b
    BY DEF StartOf
  <2>2. \A e \in S : e.of \in B /\ e = StartOf(e.of, start)
    BY <2>1
  <2>3. \A e, d \in S : e.of = d.of => e = d
    BY <2>2, Zenon
  <2>4. \A b \in B : StartOf(b, start) \in S
    OBVIOUS
  <2> QED
    BY <2>1, <2>2, <2>3, <2>4
<1>2. /\ \A e \in E : e.of \in B
      /\ \A e, d \in E : e.of = d.of => e = d
      /\ \A b \in B : \E e \in E : e.of = b
  <2>1. \A b \in B : EndOf(b, end).of = b
    BY DEF EndOf
  <2>2. \A e \in E : e.of \in B /\ e = EndOf(e.of, end)
    BY <2>1
  <2>3. \A e, d \in E : e.of = d.of => e = d
    BY <2>2, Zenon
  <2>4. \A b \in B : EndOf(b, end) \in E
    OBVIOUS
  <2> QED
    BY <2>1, <2>2, <2>3, <2>4
<1> HIDE DEF S, E
<1>3. IsFiniteSet(S) /\ Cardinality(S) = Cardinality(B)
  BY <1>1, CountedByOf
<1>4. IsFiniteSet(E) /\ Cardinality(E) = Cardinality(B)
  BY <1>2, CountedByOf
<1> QED
  BY <1>3, <1>4 DEF S, E

\* A request and the bookings that overlap it.
All(over, start, end) == over \cup {[start |-> start, end |-> end]}

LEMMA AllIntervals ==
    ASSUME NEW over, Intervals(over), NEW start \in Int, NEW end \in Int, start < end
    PROVE  Intervals(All(over, start, end))
<1> DEFINE req == [start |-> start, end |-> end]
<1>1. IsFiniteSet(over \cup {req})
  BY FS_AddElement DEF Intervals
<1>2. \A b \in over \cup {req} : b.start \in Int /\ b.end \in Int /\ b.start < b.end
  BY DEF Intervals
<1> QED
  BY <1>1, <1>2 DEF Intervals, All

LEMMA EventsTimed ==
    ASSUME NEW over, Intervals(over), NEW start \in Int, NEW end \in Int, start < end
    PROVE  Timed(Events(over, start, end))
<1> DEFINE all == All(over, start, end)
           S == {StartOf(b, start) : b \in all}
           E == {EndOf(b, end) : b \in all}
<1>1. Events(over, start, end) = S \cup E
  BY DEF Events, StartOf, EndOf, All
<1>2. Intervals(all)
  BY AllIntervals
<1> HIDE DEF all
<1>3. IsFiniteSet(S) /\ IsFiniteSet(E)
  BY <1>2, EventsOf DEF Intervals
<1>4. \A b \in all : b.start \in Int /\ b.end \in Int
  BY <1>2 DEF Intervals
<1>5. (\A e \in S : e.time \in Int /\ e.type = "start") /\ \A e \in E : e.time \in Int /\ e.type = "end"
  BY <1>4 DEF StartOf, EndOf, Larger, Smaller
<1> HIDE DEF S, E
<1>6. IsFiniteSet(S \cup E)
  BY <1>3, FS_Union
<1> QED
  BY <1>1, <1>5, <1>6 DEF Timed

\* By an instant of the request, one more has started and not ended than there are bookings
\* at that instant.
LEMMA ExcessIsLoad ==
    ASSUME NEW over, Intervals(over), NEW start \in Int, NEW end \in Int, start < end,
           [start |-> start, end |-> end] \notin over,
           NEW t \in Int, start <= t, t < end
    PROVE  /\ Excess(Upto(Events(over, start, end), t)) = Load(over, t) + 1
           /\ Load(over, t) \in Nat
<1> DEFINE req == [start |-> start, end |-> end]
           all == All(over, start, end)
           Begun == {b \in all : b.start <= t}
           Over == {b \in all : b.end <= t}
           Now == {b \in over : b.start <= t /\ t < b.end}
           u == Upto(Events(over, start, end), t)
<1>1. Intervals(all)
  BY AllIntervals
<1>2. all = over \cup {req}
  BY DEF All
<1>3. Starts(u) = {StartOf(b, start) : b \in Begun}
  <2>1. \A b \in all : StartOf(b, start).time <= t <=> b.start <= t
    BY <1>1 DEF Intervals, StartOf, Larger
  <2>2. \A b \in all : StartOf(b, start).type = "start" /\ EndOf(b, end).type # "start"
    BY DEF StartOf, EndOf
  <2>3. Events(over, start, end) = {StartOf(b, start) : b \in all} \cup {EndOf(b, end) : b \in all}
    BY DEF Events, StartOf, EndOf, All
  <2> HIDE DEF all
  <2> QED
    BY <2>1, <2>2, <2>3 DEF Starts, Upto
<1>4. Ends(u) = {EndOf(b, end) : b \in Over}
  <2>1. \A b \in all : EndOf(b, end).time <= t <=> b.end <= t
    BY <1>1 DEF Intervals, EndOf, Smaller
  <2>2. \A b \in all : StartOf(b, start).type # "end" /\ EndOf(b, end).type = "end"
    BY DEF StartOf, EndOf
  <2>3. Events(over, start, end) = {StartOf(b, start) : b \in all} \cup {EndOf(b, end) : b \in all}
    BY DEF Events, StartOf, EndOf, All
  <2> HIDE DEF all
  <2> QED
    BY <2>1, <2>2, <2>3 DEF Ends, Upto
<1>5. IsFiniteSet(Begun) /\ IsFiniteSet(Over) /\ IsFiniteSet(Now)
  <2>1. Begun \in SUBSET all /\ Over \in SUBSET all /\ Now \in SUBSET over
    OBVIOUS
  <2> HIDE DEF Begun, Over, Now
  <2> QED
    BY <1>1, <2>1, FS_Subset DEF Intervals
<1>6. Cardinality(Starts(u)) = Cardinality(Begun) /\ Cardinality(Ends(u)) = Cardinality(Over)
  <2> HIDE DEF Begun, Over, u
  <2>1. Cardinality({StartOf(b, start) : b \in Begun}) = Cardinality(Begun)
    BY <1>5, EventsOf
  <2>2. Cardinality({EndOf(b, end) : b \in Over}) = Cardinality(Over)
    BY <1>5, EventsOf
  <2> QED
    BY <1>3, <1>4, <2>1, <2>2
<1>7. Over \in SUBSET Begun /\ Begun \ Over = Now \cup {req} /\ req \notin Now
  <2>1. \A b \in all : b.start \in Int /\ b.end \in Int /\ b.start < b.end
    BY <1>1 DEF Intervals
  <2>2. req.start <= t /\ t < req.end
    OBVIOUS
  <2>3. \A b \in all : b.end <= t => b.start <= t
    BY <2>1
  <2>4. \A b \in all : b \in Begun \ Over <=> b.start <= t /\ t < b.end
    BY <2>1
  <2> HIDE DEF req, all
  <2>5. Over \in SUBSET Begun
    BY <2>3
  <2>6. \A b \in all : b \in Begun \ Over <=> b \in Now \cup {req}
    BY <1>2, <2>2, <2>4
  <2>7. Begun \ Over \subseteq all /\ Now \cup {req} \subseteq all
    BY <1>2
  <2>8. req \notin Now
    BY DEF req
  <2>9. Begun \ Over = Now \cup {req}
    <3> HIDE DEF Begun, Over, Now
    <3> QED
      BY <2>6, <2>7
  <2> QED
    BY <2>5, <2>8, <2>9
<1> HIDE DEF Begun, Over, Now, u, req
<1>8. Cardinality(Begun \ Over) = Cardinality(Now) + 1
  BY <1>5, <1>7, FS_AddElement
<1>9. Cardinality(Begun) - Cardinality(Over) = Cardinality(Now) + 1
  <2>1. Cardinality(Begun \ Over) = Cardinality(Begun) - Cardinality(Begun \cap Over)
    BY <1>5, FS_Difference
  <2>2. Begun \cap Over = Over
    BY <1>7
  <2> QED
    BY <1>8, <2>1, <2>2
<1>10. Load(over, t) = Cardinality(Now) /\ Cardinality(Now) \in Nat
  BY <1>5, FS_CardinalityType DEF Load, Now
<1> QED
  BY <1>6, <1>9, <1>10 DEF Excess, u

\* max is one more than the largest number of bookings at an instant of the request.
LEMMA PeakLoad ==
    ASSUME NEW over, Intervals(over), NEW start \in Int, NEW end \in Int, start < end,
           [start |-> start, end |-> end] \notin over, \A b \in over : Overlaps(b, start, end)
    PROVE  /\ MaxConcurrent(over, start, end) \in Nat
           /\ \A t \in start .. end - 1 : /\ Load(over, t) \in Nat
                                          /\ Load(over, t) + 1 <= MaxConcurrent(over, start, end)
           /\ \E t \in start .. end - 1 : Load(over, t) + 1 = MaxConcurrent(over, start, end)
<1> DEFINE S == Events(over, start, end)
           m == MaxConcurrent(over, start, end)
           T == start .. end - 1
<1>1. Timed(S)
  BY EventsTimed
<1>2. \A t \in T : Excess(Upto(S, t)) = Load(over, t) + 1 /\ Load(over, t) \in Nat
  <2> TAKE t \in T
  <2>1. t \in Int /\ start <= t /\ t < end
    OBVIOUS
  <2> QED
    BY <2>1, ExcessIsLoad
<1>3. \A e \in S : e.type = "start" => e.time \in T
  <2> DEFINE all == All(over, start, end)
  <2>1. \A b \in all : b.start \in Int /\ b.start < end
    <3>1. Intervals(all)
      BY AllIntervals
    <3> QED
      BY <3>1 DEF Intervals, All, Overlaps
  <2>2. S = {StartOf(b, start) : b \in all} \cup {EndOf(b, end) : b \in all}
    BY DEF Events, StartOf, EndOf, All
  <2>3. \A b \in all : StartOf(b, start).time \in T /\ EndOf(b, end).type # "start"
    BY <2>1 DEF StartOf, EndOf, Larger
  <2> HIDE DEF S, T, all
  <2> QED
    BY <2>2, <2>3
<1> HIDE DEF S
<1>4. PICK f : Sweeps(f, S) /\ Sweep(S) = f[S]
  BY <1>1, SweepIsWalk
<1>5. m = f[S].max
  <2>1. m = Sweep(S).max
    BY DEF MaxConcurrent, Sweep, Base, S
  <2> QED
    BY <1>4, <2>1
<1>6. m \in Nat
  BY <1>1, <1>4, <1>5, WalkCounts
<1>7. \A t \in T : Load(over, t) + 1 <= m
  <2> TAKE t \in T
  <2>1. t \in Int
    OBVIOUS
  <2>2. Excess(Upto(S, t)) <= f[S].max
    BY <1>1, <1>4, <2>1, WalkReaches
  <2> QED
    BY <1>2, <1>5, <2>2
<1>8. \E t \in T : Load(over, t) + 1 = m
  <2> SUFFICES ASSUME \A t \in T : Load(over, t) + 1 # m PROVE FALSE
    OBVIOUS
  <2>1. start \in T
    OBVIOUS
  <2>2. m - 1 \in Nat
    BY <1>2, <1>6, <1>7, <2>1
  <2> HIDE DEF T, m
  <2>3. \A t \in T : Excess(Upto(S, t)) <= m - 1
    BY <1>2, <1>6, <1>7
  <2>4. AtMost(S, m - 1)
    BY <1>3, <2>3 DEF AtMost
  <2>5. f[S].max <= m - 1
    BY <1>1, <1>4, <2>2, <2>4, WalkBounded
  <2> QED
    BY <1>5, <1>6, <2>5
<1> QED
  BY <1>2, <1>6, <1>7, <1>8

\* Within the request only bookings that overlap it take place.
LEMMA OverlappingLoad ==
    ASSUME NEW booked, Intervals(booked), NEW start \in Int, NEW end \in Int,
           NEW t \in start .. end - 1
    PROVE  Load(Overlapping(booked, start, end), t) = Load(booked, t)
<1>1. \A b \in booked : b.start <= t /\ t < b.end => Overlaps(b, start, end)
  BY DEF Intervals, Overlaps
<1>2. {b \in Overlapping(booked, start, end) : b.start <= t /\ t < b.end}
      = {b \in booked : b.start <= t /\ t < b.end}
  BY <1>1 DEF Overlapping
<1> QED
  BY <1>2 DEF Load

\* The request has a place at each of its instants; its fullest instants.
Fits(booked, capacity, start, end) == \A t \in start .. end - 1 : Load(booked, t) < capacity
Fullest(booked, start, end) ==
    {t \in start .. end - 1 : \A u \in start .. end - 1 : Load(booked, u) <= Load(booked, t)}

\* The sweep over clipped and sorted events says what counting the bookings of every instant
\* says, for every calendar, capacity and request: with a place left at each instant there is
\* no conflict, and otherwise the answer names what is left at the fullest.
THEOREM SweepCounts ==
    ASSUME NEW booked, Intervals(booked), NEW blocked, NEW capacity \in Nat \ {0},
           NEW start \in Int, NEW end \in Int, start < end,
           [start |-> start, end |-> end] \notin booked
    PROVE  /\ HasConflict(booked, blocked, capacity, start, end) = NoConflict <=>
                 Overlapping(blocked, start, end) = {} /\ Fits(booked, capacity, start, end)
           /\ HasConflict(booked, blocked, capacity, start, end).reason = "capacity_exceeded" =>
                 \E t \in Fullest(booked, start, end) :
                     HasConflict(booked, blocked, capacity, start, end).available
                     = Larger(0, capacity - Load(booked, t))
<1> DEFINE over == Overlapping(booked, start, end)
           max == MaxConcurrent(over, start, end)
           T == start .. end - 1
           answer == HasConflict(booked, blocked, capacity, start, end)
           free == Overlapping(blocked, start, end) = {}
<1>1. over \in SUBSET booked /\ \A b \in over : Overlaps(b, start, end)
  BY DEF Overlapping
<1>2. Intervals(over)
  BY <1>1, FS_Subset DEF Intervals
<1>3. /\ max \in Nat
      /\ \A t \in T : Load(over, t) \in Nat /\ Load(over, t) + 1 <= max
      /\ \E t \in T : Load(over, t) + 1 = max
  <2>1. [start |-> start, end |-> end] \notin over
    BY <1>1
  <2> HIDE DEF over
  <2> QED
    BY <1>1, <1>2, <2>1, PeakLoad
<1>4. \A t \in T : Load(over, t) = Load(booked, t)
  BY OverlappingLoad
<1>5. /\ \A t \in T : Load(booked, t) \in Nat /\ Load(booked, t) + 1 <= max
      /\ \E t \in T : Load(booked, t) + 1 = max
  BY <1>3, <1>4
<1>6. over = {} => \A t \in T : Load(booked, t) = 0
  <2>1. SUFFICES ASSUME over = {}, NEW t \in T PROVE Load(booked, t) = 0
    OBVIOUS
  <2>2. Load({}, t) = 0
    <3>1. {b \in {} : b.start <= t /\ t < b.end} = {}
      OBVIOUS
    <3> QED
      BY <3>1, FS_EmptySet DEF Load
  <2> QED
    BY <1>4, <2>1, <2>2
<1>7. answer = IF ~free THEN [reason |-> "maintenance", available |-> 0]
               ELSE IF over # {} /\ max > capacity
               THEN [reason |-> "capacity_exceeded", available |-> Larger(0, capacity - (max - 1))]
               ELSE NoConflict
  BY DEF HasConflict
<1> HIDE DEF over, max, T, answer, free
<1>8. answer = NoConflict <=> free /\ ~(over # {} /\ max > capacity)
  BY <1>7 DEF NoConflict
<1>9. ~(over # {} /\ max > capacity) <=> \A t \in T : Load(booked, t) < capacity
  BY <1>3, <1>5, <1>6
<1>10. answer.reason = "capacity_exceeded" =>
          \E t \in T : /\ \A u \in T : Load(booked, u) <= Load(booked, t)
                       /\ answer.available = Larger(0, capacity - Load(booked, t))
  <2>1. SUFFICES ASSUME answer.reason = "capacity_exceeded"
                 PROVE  \E t \in T : /\ \A u \in T : Load(booked, u) <= Load(booked, t)
                                     /\ answer.available = Larger(0, capacity - Load(booked, t))
    OBVIOUS
  <2>2. answer.available = Larger(0, capacity - (max - 1))
    BY <1>7, <2>1 DEF NoConflict
  <2>3. PICK t \in T : Load(booked, t) + 1 = max
    BY <1>5
  <2>4. max - 1 = Load(booked, t) /\ \A u \in T : Load(booked, u) <= Load(booked, t)
    BY <1>3, <1>5, <2>3
  <2> QED
    BY <2>2, <2>4
<1> QED
  BY <1>8, <1>9, <1>10 DEF answer, free, T, Fits, Fullest

-----------------------------------------------------------------------------
(* Admission *)

\* How many admitted requests have a booking at an instant.
Admittances(t) == Cardinality(Admissions(Admitted, t))

\* A request that is about to insert has room at every instant of its instances.
Reserved(r) ==
    At(r, "create") =>
        LET slots == request[r].slots
        IN  /\ Lasting(slots)
            /\ ~request[r].series => DOMAIN slots = {1}
            /\ \A k \in DOMAIN slots, t \in Int :
                  slots[k].start <= t /\ t < slots[k].end => Admittances(t) < Capacity

\* The room is there at every instant, and stays there for who holds the lock.
FitInv ==
    /\ \A id \in Stored : rows[id].start < rows[id].end
    /\ \A t \in Int : Admittances(t) <= Capacity
    /\ \A r \in Requests : Reserved(r)

\* The bookings of the table, one for an id.
LEMMA BookedType ==
    ASSUME BookInv
    PROVE  /\ IsFiniteSet(Booked) /\ Admitted \in SUBSET Booked
           /\ \A b \in Booked : /\ b.id \in Stored /\ rows[b.id].status \in Live
                                /\ b = [id |-> b.id, start |-> rows[b.id].start, end |-> rows[b.id].end]
                                /\ b.start \in Nat /\ b.end \in Nat
<1>1. \A b \in Booked : /\ b.id \in Stored /\ rows[b.id].status \in Live
                        /\ b = [id |-> b.id, start |-> rows[b.id].start, end |-> rows[b.id].end]
  BY DEF Booked
<1>2. \A b \in Booked : b.start \in Nat /\ b.end \in Nat
  <2> TAKE b \in Booked
  <2>1. b.id \in Stored /\ b.start = rows[b.id].start /\ b.end = rows[b.id].end
    BY <1>1
  <2>2. rows[b.id] \in Row
    BY <2>1, StoredRow DEF BookInv
  <2> QED
    BY <2>1, <2>2, RowIsStored
<1>3. IsFiniteSet(Booked)
  <2> DEFINE f == [b \in Booked |-> b.id]
  <2>1. f \in [Booked -> Stored] /\ \A b, c \in Booked : f[b] = f[c] => b = c
    BY <1>1
  <2> HIDE DEF f
  <2>2. f \in Injection(Booked, Stored)
    BY <2>1 DEF Injection, IsInjective
  <2>3. IsFiniteSet(Stored)
    <3>1. PICK n \in 0 .. MaxBookings : Stored = 1 .. n
      BY DEF BookInv
    <3>2. n \in Nat
      BY <3>1, NumbersAssumption
    <3> QED
      BY <3>1, <3>2, FS_Interval
  <2> QED
    BY <2>2, <2>3, FS_Injection
<1> QED
  BY <1>1, <1>2, <1>3 DEF Admitted

\* Fewer bookings, no larger load.
LEMMA LoadMonotone ==
    ASSUME NEW B, IsFiniteSet(B), NEW A \in SUBSET B, NEW t
    PROVE  Load(A, t) \in Nat /\ Load(B, t) \in Nat /\ Load(A, t) <= Load(B, t)
<1> DEFINE At1 == {b \in A : b.start <= t /\ t < b.end}
           At2 == {b \in B : b.start <= t /\ t < b.end}
<1>1. At1 \in SUBSET At2 /\ At2 \in SUBSET B
  OBVIOUS
<1>2. Load(A, t) = Cardinality(At1) /\ Load(B, t) = Cardinality(At2)
  BY DEF Load
<1> HIDE DEF At1, At2
<1>3. IsFiniteSet(At1) /\ IsFiniteSet(At2) /\ Cardinality(At1) <= Cardinality(At2)
  BY <1>1, FS_Subset
<1> QED
  BY <1>2, <1>3, FS_CardinalityType

\* A request counts once, however many of its bookings take place.
LEMMA AdmissionsLoad ==
    ASSUME BookInv, NEW t
    PROVE  /\ IsFiniteSet(Admissions(Admitted, t)) /\ Admittances(t) \in Nat
           /\ Load(Booked, t) \in Nat /\ Admittances(t) <= Load(Booked, t)
<1> DEFINE these == {b \in Admitted : b.start <= t /\ t < b.end}
           f == [b \in these |-> Admission(b.id)]
<1>1. IsFiniteSet(Admitted) /\ IsFiniteSet(Booked) /\ Admitted \in SUBSET Booked
  BY BookedType, FS_Subset
<1>2. these \in SUBSET Admitted
  OBVIOUS
<1>3. Admissions(Admitted, t) = {Admission(b.id) : b \in these} /\ Load(Admitted, t) = Cardinality(these)
  BY DEF Admissions, Load
<1>4. f \in [these -> Admissions(Admitted, t)] /\ \A a \in Admissions(Admitted, t) : \E b \in these : f[b] = a
  BY <1>3
<1> HIDE DEF these, f
<1>5. IsFiniteSet(these)
  BY <1>1, <1>2, FS_Subset
<1>6. f \in Surjection(these, Admissions(Admitted, t))
  BY <1>4 DEF Surjection, Range
<1>7. IsFiniteSet(Admissions(Admitted, t)) /\ Cardinality(Admissions(Admitted, t)) <= Cardinality(these)
  BY <1>5, <1>6, FS_Surjection
<1>8. Load(Admitted, t) \in Nat /\ Load(Booked, t) \in Nat /\ Load(Admitted, t) <= Load(Booked, t)
  BY <1>1, LoadMonotone
<1>9. Admittances(t) \in Nat /\ Admittances(t) <= Load(Admitted, t)
  BY <1>3, <1>7, FS_CardinalityType DEF Admittances
<1> QED
  BY <1>7, <1>8, <1>9

\* A booking that was never cancelled was admitted before a step that inserts nothing, too.
LEMMA OverwrittenAdmitted ==
    ASSUME BookInv, Overwritten
    PROVE  Admitted' \subseteq Admitted
<1> SUFFICES ASSUME NEW b \in Admitted' PROVE b \in Admitted
  OBVIOUS
<1>1. Stored' = Stored
  BY OverwrittenStored DEF BookInv
<1>2. PICK id \in Stored : /\ rows'[id].status \in Live /\ id \notin everCancelled'
                           /\ b = [id |-> id, start |-> rows'[id].start, end |-> rows'[id].end]
  BY <1>1 DEF Admitted, Booked
<1>3. id \notin everCancelled /\ rows'[id].start = rows[id].start /\ rows'[id].end = rows[id].end
  BY <1>2 DEF Overwritten, SameBooking
<1>4. rows[id].status \in Live
  <2>1. rows[id].status \in Status
    BY StoredRow, RowIsStored DEF BookInv
  <2>2. rows[id].status # "Cancelled"
    BY <1>3 DEF BookInv, Consistent
  <2> QED
    BY <2>1, <2>2 DEF Status, Live
<1> QED
  BY <1>2, <1>3, <1>4 DEF Admitted, Booked

\* What the sweep admits has a place left at each instant.
LEMMA NotRefused ==
    ASSUME BookInv, FitInv, NEW s \in Slot, s.start < s.end, ~Refused(s),
           NEW t \in Int, s.start <= t, t < s.end
    PROVE  Load(Booked, t) < Capacity
<1>1. Intervals(Booked)
  <2>1. \A b \in Booked : b.start < b.end
    BY BookedType DEF FitInv
  <2> QED
    BY <2>1, BookedType DEF Intervals
<1>2. s.start \in Int /\ s.end \in Int /\ t \in s.start .. s.end - 1
  BY DEF Slot
<1>3. [start |-> s.start, end |-> s.end] \notin Booked
  <2>1. \A b \in Booked : "id" \in DOMAIN b
    BY DEF Booked
  <2> QED
    BY <2>1
<1>4. Capacity \in Nat \ {0}
  BY NumbersAssumption
<1>5. HasConflict(Booked, Maintenance, Capacity, s.start, s.end) = NoConflict
  BY DEF Refused
<1>6. Fits(Booked, Capacity, s.start, s.end)
  <2> HIDE DEF Booked
  <2> QED
    BY <1>1, <1>2, <1>3, <1>4, <1>5, SweepCounts
<1> QED
  BY <1>2, <1>6 DEF Fits

\* A step that inserts nothing: the check reserves, the others keep what is reserved.
LEMMA FitOverwritten ==
    ASSUME BookInv, BookInv', FitInv, Overwritten,
           \A r \in Requests : At(r, "create")' =>
               \/ request'[r] = request[r]
               \/ \E slots \in Seq(Slot) :
                     /\ Lasting(slots)
                     /\ ~request'[r].series => DOMAIN slots = {1}
                     /\ \A k \in DOMAIN slots : ~Refused(slots[k])
                     /\ request'[r].slots = slots
    PROVE  FitInv'
<1>1. Stored' = Stored /\ \A id \in Stored : SameBooking(rows'[id], rows[id])
  BY OverwrittenStored DEF Overwritten, BookInv
<1>2. ASSUME NEW t \in Int
      PROVE  /\ Admittances(t)' \in Nat /\ Admittances(t) \in Nat /\ Load(Booked, t) \in Nat
             /\ Admittances(t)' <= Admittances(t) /\ Admittances(t) <= Load(Booked, t)
  <2>1. IsFiniteSet(Admissions(Admitted, t)) /\ Admittances(t) \in Nat
        /\ Load(Booked, t) \in Nat /\ Admittances(t) <= Load(Booked, t)
    BY AdmissionsLoad
  <2>2. \A b \in Admitted' : b \in Admitted /\ b.id \in Stored
    BY OverwrittenAdmitted, BookedType
  <2>3. \A b \in Admitted' : Admission(b.id)' = Admission(b.id)
    BY <1>1, <2>2 DEF Admission, SameBooking
  <2>4. Admissions(Admitted, t)' \subseteq Admissions(Admitted, t)
    BY <2>2, <2>3 DEF Admissions
  <2>5. IsFiniteSet(Admissions(Admitted, t)')
        /\ Cardinality(Admissions(Admitted, t)') <= Cardinality(Admissions(Admitted, t))
    BY <2>1, <2>4, FS_Subset
  <2>6. Admittances(t)' = Cardinality(Admissions(Admitted, t)')
    BY DEF Admittances
  <2> QED
    BY <2>1, <2>5, <2>6, FS_CardinalityType DEF Admittances
<1>3. \A id \in Stored' : rows'[id].start < rows'[id].end
  BY <1>1 DEF FitInv, SameBooking
<1>4. ASSUME NEW t \in Int PROVE Admittances(t)' <= Capacity
  BY <1>2, NumbersAssumption DEF FitInv
<1>5. ASSUME NEW r \in Requests PROVE Reserved(r)'
  <2>1. SUFFICES ASSUME At(r, "create")'
                 PROVE  /\ Lasting(request'[r].slots)
                        /\ ~request'[r].series => DOMAIN request'[r].slots = {1}
                        /\ \A k \in DOMAIN request'[r].slots, t \in Int :
                              request'[r].slots[k].start <= t /\ t < request'[r].slots[k].end
                              => Admittances(t)' < Capacity
    BY DEF Reserved
  <2>2. CASE request'[r] = request[r]
    <3>1. At(r, "create") /\ Reserved(r)
      BY <2>1, <2>2 DEF At, FitInv
    <3>2. PICK slots : slots = request[r].slots
      OBVIOUS
    <3>3. /\ request'[r].slots = slots /\ Lasting(slots)
          /\ ~request'[r].series => DOMAIN slots = {1}
          /\ \A k \in DOMAIN slots, t \in Int :
                slots[k].start <= t /\ t < slots[k].end => Admittances(t) < Capacity
      BY <2>2, <3>1, <3>2 DEF Reserved
    <3>4. ASSUME NEW t \in Int, Admittances(t) < Capacity PROVE Admittances(t)' < Capacity
      BY <1>2, <3>4, NumbersAssumption
    <3>5. ASSUME NEW k \in DOMAIN slots, NEW t \in Int, slots[k].start <= t, t < slots[k].end
          PROVE  Admittances(t)' < Capacity
      BY <3>3, <3>4, <3>5
    <3> QED
      BY <3>3, <3>5
  <2>3. CASE \E slots \in Seq(Slot) : /\ Lasting(slots)
                                      /\ ~request'[r].series => DOMAIN slots = {1}
                                      /\ \A k \in DOMAIN slots : ~Refused(slots[k])
                                      /\ request'[r].slots = slots
    <3>1. PICK slots \in Seq(Slot) : /\ Lasting(slots)
                                     /\ ~request'[r].series => DOMAIN slots = {1}
                                     /\ \A k \in DOMAIN slots : ~Refused(slots[k])
                                     /\ request'[r].slots = slots
      BY <2>3
    <3>2. ASSUME NEW k \in DOMAIN slots, NEW t \in Int, slots[k].start <= t, t < slots[k].end
          PROVE  Admittances(t)' < Capacity
      <4>1. slots[k] \in Slot /\ slots[k].start < slots[k].end /\ ~Refused(slots[k])
        BY <3>1 DEF Lasting
      <4>2. Load(Booked, t) < Capacity
        BY <3>2, <4>1, NotRefused
      <4> QED
        BY <1>2, <4>2, NumbersAssumption
    <3> QED
      BY <3>1, <3>2
  <2> QED
    BY <2>1, <2>2, <2>3
<1> QED
  BY <1>3, <1>4, <1>5 DEF FitInv

\* A creation of a single booking has one instance.
OneUnlessSeries(r) == ~request[r].series => DOMAIN request[r].slots = {1}

\* What is admitted after an insert was admitted before, or is one of the instances, which count
\* as one request.
LEMMA InsertedAdmitted ==
    ASSUME BookInv, NEW r \in Requests, CreateCommit(r), NEW slots, slots = request[r].slots,
           OneUnlessSeries(r)
    PROVE  /\ slots \in Seq(Slot)
           /\ \A b \in Admitted' :
                 \/ b \in Admitted /\ Admission(b.id)' = Admission(b.id)
                 \/ Admission(b.id)' = Cardinality(Stored) + 1 /\ \E k \in DOMAIN slots :
                       b = [id |-> Cardinality(Stored) + k, start |-> slots[k].start, end |-> slots[k].end]
           /\ \A id \in Stored' :
                 \/ id \in Stored /\ rows'[id] = rows[id]
                 \/ \E k \in DOMAIN slots : rows'[id].start = slots[k].start /\ rows'[id].end = slots[k].end
<1> DEFINE n == Cardinality(Stored)
           m == Len(slots)
<1>1. slots \in Seq(Slot)
  BY LocalState DEF CreateCommit, BookInv
<1>2. /\ m \in Nat /\ DOMAIN slots = 1 .. m
      /\ n \in Nat /\ Stored = 1 .. n
  BY <1>1, StoredDense, NumbersAssumption
<1>3. /\ Stored' = 1 .. n + m
      /\ \A id \in Stored : rows'[id] = rows[id]
      /\ \A id \in n + 1 .. n + m : /\ rows'[id].start = slots[id - n].start
                                    /\ rows'[id].end = slots[id - n].end
                                    /\ rows'[id].series = IF request[r].series THEN n + 1 ELSE 0
  BY CommitInserts DEF Inserted
<1>4. everCancelled' = everCancelled
  BY DEF CreateCommit
<1> HIDE DEF n, m
<1>5. \A id \in Stored' :
          id \in Stored \/ (id - n \in DOMAIN slots /\ id \in n + 1 .. n + m /\ id = n + (id - n))
  <2>1. \A id \in 1 .. n + m :
            id \in 1 .. n \/ (id - n \in 1 .. m /\ id \in n + 1 .. n + m /\ id = n + (id - n))
    BY <1>2
  <2> QED
    BY <1>2, <1>3, <2>1
<1>6. \A id \in Stored' :
          \/ id \in Stored /\ rows'[id] = rows[id]
          \/ \E k \in DOMAIN slots : /\ id = n + k /\ Admission(id)' = n + 1
                                     /\ rows'[id].start = slots[k].start /\ rows'[id].end = slots[k].end
  <2> TAKE id \in Stored'
  <2>1. CASE id \in Stored
    BY <1>3, <2>1
  <2>2. CASE id \notin Stored
    <3>1. id - n \in DOMAIN slots /\ id \in n + 1 .. n + m /\ id = n + (id - n)
      BY <1>5, <2>2
    <3>2. rows'[id].start = slots[id - n].start /\ rows'[id].end = slots[id - n].end
      BY <1>3, <3>1
    <3>3. Admission(id)' = n + 1
      <4>1. CASE request[r].series
        <5>1. rows'[id].series = n + 1 /\ n + 1 # 0
          BY <1>2, <1>3, <3>1, <4>1
        <5> QED
          BY <5>1 DEF Admission
      <4>2. CASE ~request[r].series
        <5>1. rows'[id].series = 0
          BY <1>3, <3>1, <4>2
        <5>2. id = n + 1
          BY <1>2, <3>1, <4>2 DEF OneUnlessSeries
        <5> QED
          BY <5>1, <5>2 DEF Admission
      <4> QED
        BY <4>1, <4>2
    <3> QED
      BY <3>1, <3>2, <3>3
  <2> QED
    BY <2>1, <2>2
<1>7. ASSUME NEW b \in Admitted'
      PROVE  \/ b \in Admitted /\ Admission(b.id)' = Admission(b.id)
             \/ Admission(b.id)' = n + 1 /\ \E k \in DOMAIN slots :
                   b = [id |-> n + k, start |-> slots[k].start, end |-> slots[k].end]
  <2>1. PICK id \in Stored' : /\ rows'[id].status \in Live /\ id \notin everCancelled
                              /\ b = [id |-> id, start |-> rows'[id].start, end |-> rows'[id].end]
    BY <1>4 DEF Admitted, Booked
  <2>2. CASE id \in Stored /\ rows'[id] = rows[id]
    BY <2>1, <2>2 DEF Admitted, Booked, Admission
  <2>3. CASE \E k \in DOMAIN slots : /\ id = n + k /\ Admission(id)' = n + 1
                                     /\ rows'[id].start = slots[k].start /\ rows'[id].end = slots[k].end
    BY <2>1, <2>3
  <2> QED
    BY <1>6, <2>2, <2>3
<1> QED
  BY <1>1, <1>6, <1>7 DEF n

\* The insert fills at most the one place that was left at each instant of an instance.
LEMMA FitCommit ==
    ASSUME BookInv, BookInv', FitInv, NEW r \in Requests, CreateCommit(r)
    PROVE  FitInv'
<1>1. PICK slots : slots = request[r].slots
  OBVIOUS
<1>2. At(r, "create")
  BY DEF CreateCommit
<1>3. /\ Lasting(slots)
      /\ ~request[r].series => DOMAIN slots = {1}
      /\ \A k \in DOMAIN slots, t \in Int :
            slots[k].start <= t /\ t < slots[k].end => Admittances(t) < Capacity
  BY <1>1, <1>2 DEF FitInv, Reserved
<1>4. PICK next : next = Cardinality(Stored) + 1
  OBVIOUS
<1>5. /\ \A b \in Admitted' :
            \/ b \in Admitted /\ Admission(b.id)' = Admission(b.id)
            \/ Admission(b.id)' = next /\ \E k \in DOMAIN slots :
                  b.start = slots[k].start /\ b.end = slots[k].end
      /\ \A id \in Stored' :
            \/ id \in Stored /\ rows'[id] = rows[id]
            \/ \E k \in DOMAIN slots : rows'[id].start = slots[k].start /\ rows'[id].end = slots[k].end
  <2>1. /\ \A b \in Admitted' :
              \/ b \in Admitted /\ Admission(b.id)' = Admission(b.id)
              \/ Admission(b.id)' = Cardinality(Stored) + 1 /\ \E k \in DOMAIN slots :
                    b = [id |-> Cardinality(Stored) + k, start |-> slots[k].start, end |-> slots[k].end]
        /\ \A id \in Stored' :
              \/ id \in Stored /\ rows'[id] = rows[id]
              \/ \E k \in DOMAIN slots : rows'[id].start = slots[k].start /\ rows'[id].end = slots[k].end
    <3>1. OneUnlessSeries(r)
      BY <1>1, <1>3 DEF OneUnlessSeries
    <3> QED
      BY <1>1, <3>1, InsertedAdmitted
  <2>2. \A b, k : b = [id |-> Cardinality(Stored) + k, start |-> slots[k].start, end |-> slots[k].end]
                  => b.start = slots[k].start /\ b.end = slots[k].end
    OBVIOUS
  <2> QED
    BY <1>4, <2>1, <2>2, Zenon
<1>6. ASSUME NEW t \in Int PROVE Admittances(t)' <= Capacity
  <2> DEFINE old == Admissions(Admitted, t)
             new == Admissions(Admitted, t)'
  <2>1. /\ IsFiniteSet(old) /\ Cardinality(old) = Admittances(t) /\ Cardinality(old) \in Nat
        /\ Cardinality(new) = Admittances(t)'
    BY AdmissionsLoad DEF Admittances
  <2>2. Cardinality(old) <= Capacity /\ Capacity \in Nat
    BY <2>1, NumbersAssumption DEF FitInv
  <2>3. new \subseteq old \cup {next}
    <3> SUFFICES ASSUME NEW b \in Admitted', b.start <= t, t < b.end
                 PROVE  Admission(b.id)' \in Admissions(Admitted, t) \cup {next}
      BY DEF Admissions
    <3>1. CASE b \in Admitted /\ Admission(b.id)' = Admission(b.id)
      BY <3>1 DEF Admissions
    <3>2. CASE Admission(b.id)' = next
      BY <3>2
    <3> QED
      BY <1>5, <3>1, <3>2
  <2>4. CASE \E k \in DOMAIN slots : slots[k].start <= t /\ t < slots[k].end
    <3>1. Cardinality(old) < Capacity
      BY <1>3, <2>1, <2>4
    <3> HIDE DEF old, new
    <3>2. IsFiniteSet(old \cup {next}) /\ Cardinality(old \cup {next}) <= Cardinality(old) + 1
          /\ Cardinality(old \cup {next}) \in Nat
      <4>1. CASE next \in old
        <5>1. old \cup {next} = old
          BY <4>1
        <5>2. IsFiniteSet(old \cup {next}) /\ Cardinality(old \cup {next}) = Cardinality(old)
          BY <2>1, <5>1
        <5> QED
          BY <2>1, <5>2
      <4>2. CASE next \notin old
        BY <2>1, <4>2, FS_AddElement
      <4> QED
        BY <4>1, <4>2
    <3>3. IsFiniteSet(new) /\ Cardinality(new) <= Cardinality(old \cup {next})
      BY <2>3, <3>2, FS_Subset
    <3>4. Cardinality(new) \in Nat
      BY <3>3, FS_CardinalityType
    <3> QED
      BY <2>1, <2>2, <3>1, <3>2, <3>3, <3>4
  <2>5. CASE ~\E k \in DOMAIN slots : slots[k].start <= t /\ t < slots[k].end
    <3>1. new \subseteq old
      <4> SUFFICES ASSUME NEW b \in Admitted', b.start <= t, t < b.end
                   PROVE  Admission(b.id)' \in Admissions(Admitted, t)
        BY DEF Admissions
      <4>1. b \in Admitted /\ Admission(b.id)' = Admission(b.id)
        BY <1>5, <2>5
      <4> QED
        BY <4>1 DEF Admissions
    <3> HIDE DEF old, new
    <3>2. IsFiniteSet(new) /\ Cardinality(new) <= Cardinality(old)
      BY <2>1, <3>1, FS_Subset
    <3>3. Cardinality(new) \in Nat
      BY <3>2, FS_CardinalityType
    <3> QED
      BY <2>1, <2>2, <3>2, <3>3
  <2> QED
    BY <2>4, <2>5
<1>7. \A id \in Stored' : rows'[id].start < rows'[id].end
  BY <1>3, <1>5 DEF FitInv, Lasting
<1>8. \A q \in Requests : ~At(q, "create")'
  BY NoRequestAssumption DEF CreateCommit, BookInv, TypeOK, At
<1> QED
  BY <1>6, <1>7, <1>8 DEF FitInv, Reserved

\* A request that does not check a creation leaves the reservations as they are.
LEMMA FitElsewhere ==
    ASSUME BookInv, BookInv', FitInv, Overwritten, NEW r \in Requests, NEW local,
           Goto(r, local), local.at # "create"
    PROVE  FitInv'
<1>1. /\ request'[r] = local
      /\ \A q \in Requests \ {r} : request'[q] = request[q]
  BY DEF Goto, BookInv, TypeOK
<1>2. \A q \in Requests : At(q, "create")' => request'[q] = request[q]
  BY <1>1 DEF At
<1> QED
  BY <1>2, FitOverwritten

\* The check of a creation reserves a place in each instance.
LEMMA FitCheck ==
    ASSUME BookInv, FitInv, NEW r \in Requests, NEW u \in Users, NEW slots \in Seq(Slot),
           NEW series \in BOOLEAN, Check(r, u, slots, series), Lasting(slots),
           ~series => DOMAIN slots = {1}
    PROVE  FitInv'
<1>1. BookInv' /\ Overwritten
  BY CheckInv
<1>2. /\ request'[r].slots = slots /\ request'[r].series = series
      /\ \A q \in Requests \ {r} : request'[q] = request[q]
      /\ \A k \in DOMAIN slots : ~Refused(slots[k])
  BY DEF Check, Goto, BookInv, TypeOK
<1> QED
  BY <1>1, <1>2, FitOverwritten

LEMMA StepFit == BookInv /\ FitInv /\ [Next]_vars => FitInv'
<1> SUFFICES ASSUME BookInv, FitInv, [Next]_vars PROVE FitInv'
  OBVIOUS
<1>0. BookInv'
  BY StepInv
<1>1. CASE Tick \/ UNCHANGED vars
  <2>1. UNCHANGED <<rows, request, everCancelled>>
    BY <1>1 DEF Tick, vars
  <2>2. UNCHANGED <<Stored, Admitted>>
    BY <2>1 DEF Stored, Exists, Admitted, Booked
  <2>3. \A q \in Requests : At(q, "create")' => request'[q] = request[q]
    BY <2>1
  <2> QED
    BY <1>0, <1>1, <2>3, TickInv, FitOverwritten
<1>2. ASSUME NEW r \in Requests, CreateCommit(r) PROVE FitInv'
  BY <1>0, <1>2, FitCommit
<1>3. ASSUME NEW r \in Requests, NEW u \in Users, NEW s \in Slots, CreateCheck(r, u, s) PROVE FitInv'
  <2>1. <<s>> \in Seq(Slot) /\ Lasting(<<s>>) /\ DOMAIN <<s>> = {1}
    <3>1. s \in Slot /\ s.start < s.end
      BY <1>3, SlotsAssumption DEF CreateCheck, Slot
    <3> QED
      BY <3>1 DEF Lasting
  <2> QED
    BY <1>3, <2>1, FitCheck DEF CreateCheck
<1>4. ASSUME NEW r \in Requests, NEW u \in Users, NEW shape \in SeriesShapes, CreateSeriesCheck(r, u, shape)
      PROVE  FitInv'
  BY <1>4, SlotsAssumption, FitCheck DEF CreateSeriesCheck
<1>5. ASSUME NEW r \in Requests,
             \/ SaveSelect(r) \/ ConfirmWrite(r) \/ ConfirmNotify(r) \/ CancelWrite(r)
             \/ DeleteRead(r) \/ DeleteWrite(r) \/ Abort(r)
      PROVE  FitInv'
  <2>1. Overwritten
    BY <1>5, SaveSelectInv, ConfirmWriteInv, ConfirmNotifyInv, CancelWriteInv, DeleteReadInv,
       DeleteWriteInv, AbortInv
  <2>2. \E local : Goto(r, local) /\ local.at # "create"
    <3>1. CASE ConfirmWrite(r)
      <4>1. PICK id : Goto(r, [at |-> "notify", id |-> id])
        BY <3>1 DEF ConfirmWrite
      <4> QED
        BY <4>1
    <3>2. CASE DeleteRead(r)
      BY <3>2 DEF DeleteRead
    <3>3. CASE ConfirmNotify(r) \/ CancelWrite(r) \/ DeleteWrite(r) \/ Abort(r)
      <4>1. Goto(r, Idle) /\ Idle.at # "create"
        BY <3>3 DEF ConfirmNotify, CancelWrite, DeleteWrite, Abort, Idle
      <4> QED
        BY <4>1
    <3>4. CASE SaveSelect(r)
      <4>1. PICK copies, columns :
                Goto(r, [at |-> IF At(r, "confirm") THEN "confirmUpdate" ELSE "cancelUpdate",
                         copies |-> copies, columns |-> columns])
        BY <3>4 DEF SaveSelect
      <4> QED
        BY <4>1
    <3> QED
      BY <1>5, <3>1, <3>2, <3>3, <3>4
  <2> QED
    BY <1>0, <2>1, <2>2, FitElsewhere
<1>6. ASSUME NEW r \in Requests,
             \/ \E id \in BookingId : ConfirmRead(r, id)
             \/ \E u \in Users, id \in BookingId : CancelRead(r, u, id) \/ CancelSeriesRead(r, u, id)
      PROVE  FitInv'
  <2>1. Overwritten
    BY <1>6, ReadInv
  <2>2. \E local : Goto(r, local) /\ local.at # "create"
    <3>1. ASSUME NEW id \in BookingId, ConfirmRead(r, id) PROVE \E local : Goto(r, local) /\ local.at # "create"
      <4>1. PICK copies : Goto(r, [at |-> "confirm", copies |-> copies])
        BY <3>1 DEF ConfirmRead
      <4> QED
        BY <4>1
    <3>2. ASSUME NEW u \in Users, NEW id \in BookingId, CancelRead(r, u, id) \/ CancelSeriesRead(r, u, id)
          PROVE  \E local : Goto(r, local) /\ local.at # "create"
      <4>1. PICK copies : Goto(r, [at |-> "cancel", copies |-> copies])
        BY <3>2 DEF CancelRead, CancelSeriesRead
      <4> QED
        BY <4>1
    <3> QED
      BY <1>6, <3>1, <3>2
  <2> QED
    BY <1>0, <2>1, <2>2, FitElsewhere
<1> QED
  BY <1>1, <1>2, <1>3, <1>4, <1>5, <1>6 DEF Next

\* No instant is given to more requests than there are places, as far as their bookings were
\* never cancelled, however creations, confirmations, cancellations and the deletion of the
\* workspace interleave: a check and its insert are under the lock, and no other step adds to
\* the load.
THEOREM AdmissionHolds == Spec => []AdmissionFits
<1>1. Init => FitInv
  <2> SUFFICES ASSUME Init PROVE FitInv
    OBVIOUS
  <2>1. Stored = {} /\ Admitted = {}
    BY DEF Init, Stored, Exists, Admitted, Booked
  <2>2. \A t \in Int : Admissions({}, t) = {}
    BY DEF Admissions
  <2>3. \A t \in Int : Admittances(t) = 0
    BY <2>1, <2>2, FS_EmptySet DEF Admittances
  <2>4. \A r \in Requests : ~At(r, "create")
    BY DEF Init, At, Idle
  <2> QED
    BY <2>1, <2>3, <2>4, NumbersAssumption DEF FitInv, Reserved
<1>2. BookInv /\ FitInv => AdmissionFits
  BY BookedType DEF FitInv, AdmissionFits, Admittances
<1> QED
  BY InitInv, StepInv, <1>1, StepFit, <1>2, PTL DEF Spec

\* Some instant of an interval has the largest load.
LEMMA FullestInstant ==
    ASSUME NEW booked, Intervals(booked), NEW start \in Int, NEW end \in Int, start < end,
           [start |-> start, end |-> end] \notin booked
    PROVE  /\ \A t \in start .. end - 1 : Load(booked, t) \in Nat
           /\ Fullest(booked, start, end) # {}
<1> DEFINE over == Overlapping(booked, start, end)
           max == MaxConcurrent(over, start, end)
           T == start .. end - 1
<1>1. over \in SUBSET booked /\ \A b \in over : Overlaps(b, start, end)
  BY DEF Overlapping
<1>2. Intervals(over) /\ [start |-> start, end |-> end] \notin over
  BY <1>1, FS_Subset DEF Intervals
<1>3. \A t \in T : Load(over, t) = Load(booked, t)
  BY OverlappingLoad
<1> HIDE DEF over
<1>4. /\ max \in Nat
      /\ \A t \in T : Load(over, t) \in Nat /\ Load(over, t) + 1 <= max
      /\ \E t \in T : Load(over, t) + 1 = max
  BY <1>1, <1>2, PeakLoad
<1>5. PICK t \in T : Load(over, t) + 1 = max
  BY <1>4
<1> HIDE DEF max, T
<1>6. \A u \in T : Load(over, u) \in Nat /\ Load(over, u) <= Load(over, t)
  BY <1>4, <1>5
<1> QED
  BY <1>3, <1>5, <1>6 DEF T, Fullest

\* The sweep says what the fullest instant says.
Agrees(booked, blocked, capacity, start, end) ==
    LET answer == HasConflict(booked, blocked, capacity, start, end)
        loads == {Load(booked, t) : t \in start .. end - 1}
        peak == CHOOSE n \in loads : \A m \in loads : m <= n
    IN  /\ answer = NoConflict <=> Overlapping(blocked, start, end) = {} /\ peak < capacity
        /\ answer.reason = "capacity_exceeded" => answer.available = Larger(0, capacity - peak)

LEMMA SweepAgrees ==
    ASSUME NEW booked, Intervals(booked), NEW blocked, NEW capacity \in Nat \ {0},
           NEW start \in Int, NEW end \in Int, start < end,
           [start |-> start, end |-> end] \notin booked
    PROVE  Agrees(booked, blocked, capacity, start, end)
<1> DEFINE answer == HasConflict(booked, blocked, capacity, start, end)
           T == start .. end - 1
           loads == {Load(booked, t) : t \in T}
           peak == CHOOSE n \in loads : \A m \in loads : m <= n
           free == Overlapping(blocked, start, end) = {}
<1>1. /\ answer = NoConflict <=> free /\ Fits(booked, capacity, start, end)
      /\ answer.reason = "capacity_exceeded" =>
            \E t \in Fullest(booked, start, end) : answer.available = Larger(0, capacity - Load(booked, t))
  BY SweepCounts
<1>2. (\A t \in T : Load(booked, t) \in Nat) /\ Fullest(booked, start, end) # {}
  BY FullestInstant
<1>3. \A t \in Fullest(booked, start, end) : t \in T /\ peak = Load(booked, t)
  <2> TAKE t \in Fullest(booked, start, end)
  <2>1. t \in T /\ Load(booked, t) \in loads /\ \A m \in loads : m \in Nat /\ m <= Load(booked, t)
    BY <1>2 DEF Fullest
  <2> HIDE DEF loads
  <2>2. peak \in loads /\ \A m \in loads : m <= peak
    BY <2>1
  <2> QED
    BY <2>1, <2>2
<1> HIDE DEF answer, T, loads, peak, free
<1>4. peak < capacity <=> Fits(booked, capacity, start, end)
  <2>1. PICK t \in Fullest(booked, start, end) : peak = Load(booked, t)
    BY <1>2, <1>3
  <2>2. \A u \in T : Load(booked, u) <= Load(booked, t)
    BY <2>1 DEF Fullest, T
  <2> QED
    BY <1>2, <1>3, <2>1, <2>2 DEF Fits, T
<1>5. answer.reason = "capacity_exceeded" => answer.available = Larger(0, capacity - peak)
  BY <1>1, <1>3
<1> QED
  BY <1>1, <1>4, <1>5 DEF answer, T, loads, peak, free, Agrees

\* On every sample calendar the sweep answers what counting answers, an hour shown as free can
\* be booked, and every variable keeps its type.
THEOREM CalendarHolds == Spec => []CalendarExact
<1>1. ASSUME NEW booked \in Calendars, NEW s \in Wanted
      PROVE  /\ Intervals(booked) /\ s.start \in Int /\ s.end \in Int /\ s.start < s.end
             /\ [start |-> s.start, end |-> s.end] \notin booked
  <2>1. booked \in Samples
    BY DEF Calendars
  <2>2. /\ IsFiniteSet(booked) /\ booked \subseteq [id : Nat, start : Nat, end : Nat]
        /\ \A b \in booked : b.start < b.end
    BY <2>1, SamplesAssumption
  <2>3. Intervals(booked)
    BY <2>2 DEF Intervals
  <2>4. s \in Slot /\ s.start < s.end
    BY SlotsAssumption DEF Wanted
  <2>5. \A b \in booked : "id" \in DOMAIN b
    BY <2>2
  <2> QED
    BY <2>3, <2>4, <2>5 DEF Slot
<1>2. \A capacity \in 1 .. MaxBookings + 1 : capacity \in Nat \ {0}
  BY NumbersAssumption
<1>3. SweepExact
  <2> SUFFICES ASSUME NEW booked \in Calendars, NEW capacity \in 1 .. MaxBookings + 1, NEW s \in Wanted
               PROVE  LET answer == HasConflict(booked, Maintenance, capacity, s.start, s.end)
                          loads == {Load(booked, t) : t \in s.start .. s.end - 1}
                          peak == CHOOSE n \in loads : \A m \in loads : m <= n
                      IN  /\ answer = NoConflict <=>
                                Overlapping(Maintenance, s.start, s.end) = {} /\ peak < capacity
                          /\ answer.reason = "capacity_exceeded" =>
                                answer.available = Larger(0, capacity - peak)
    BY DEF SweepExact
  <2>1. /\ Intervals(booked) /\ s.start \in Int /\ s.end \in Int /\ s.start < s.end
        /\ [start |-> s.start, end |-> s.end] \notin booked
    BY <1>1
  <2>2. capacity \in Nat \ {0}
    BY <1>2
  <2> QED
    <3>1. Agrees(booked, Maintenance, capacity, s.start, s.end)
      BY <2>1, <2>2, SweepAgrees
    <3> QED
      BY <3>1 DEF Agrees
<1>4. ShownHoursBookable
  <2> SUFFICES ASSUME NEW booked \in Calendars, NEW capacity \in 1 .. MaxBookings + 1, NEW s \in Wanted,
                      Available(booked, capacity, s.start, s.end) > 0
               PROVE  HasConflict(booked, {}, capacity, s.start, s.end) = NoConflict
    BY DEF ShownHoursBookable
  <2>1. /\ Intervals(booked) /\ s.start \in Int /\ s.end \in Int /\ s.start < s.end
        /\ [start |-> s.start, end |-> s.end] \notin booked
    BY <1>1
  <2>2. capacity \in Nat \ {0}
    BY <1>2
  <2> DEFINE over == Overlapping(booked, s.start, s.end)
  <2>3. over \in SUBSET booked /\ Overlapping({}, s.start, s.end) = {}
    BY DEF Overlapping
  <2>4. IsFiniteSet(over) /\ Cardinality(over) \in Nat
    BY <2>1, <2>3, FS_Subset, FS_CardinalityType DEF Intervals
  <2>5. Cardinality(over) < capacity
    BY <2>2, <2>4 DEF Available, Larger
  <2>6. ASSUME NEW t \in s.start .. s.end - 1 PROVE Load(booked, t) < capacity
    <3>1. Load(over, t) = Load(booked, t)
      BY <2>1, OverlappingLoad
    <3>2. {b \in over : b.start <= t /\ t < b.end} \in SUBSET over
      OBVIOUS
    <3> HIDE DEF over
    <3>3. Load(over, t) <= Cardinality(over) /\ Load(over, t) \in Nat
      BY <2>4, <3>2, FS_Subset, FS_CardinalityType DEF Load
    <3> QED
      BY <2>2, <2>4, <2>5, <3>1, <3>3
  <2>7. Fits(booked, capacity, s.start, s.end)
    BY <2>6 DEF Fits
  <2> QED
    BY <2>1, <2>2, <2>3, <2>7, SweepCounts
<1> QED
  BY TypeCorrect, <1>3, <1>4, PTL DEF CalendarExact
=============================================================================
