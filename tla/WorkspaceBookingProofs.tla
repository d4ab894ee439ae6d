----------------------- MODULE WorkspaceBookingProofs -----------------------
(***************************************************************************)
(* Theorems about WorkspaceBooking for every set of members, times and     *)
(* prices and every bound, whatever the admin confirms and however often   *)
(* initialize is called.                                                   *)
(***************************************************************************)
EXTENDS WorkspaceBooking, TLAPS

\* Ids are dense: there is a booking, and a workspace, for exactly the ids up to
\* the two counters.
IdsDense == /\ \A id \in BookingId : Exists(id) <=> id <= bookingCount
            /\ \A w \in WorkspaceId : Known(w) <=> w <= workspaceCount

TypeInv == TypeOK /\ IdsDense

-----------------------------------------------------------------------------
(* What the actions do to bookings *)

\* A stored booking is a full record.
LEMMA ExistingBooking ==
    ASSUME TypeOK, NEW id \in BookingId, Exists(id)
    PROVE  /\ booking[id] \in Booking
           /\ booking[id].status \in BookingStatus
           /\ booking[id].workspace_id \in WorkspaceId
           /\ booking[id].member \in Addr
<1>1. booking[id] \in Booking \cup {NoBooking} /\ booking[id] # NoBooking
  BY DEF TypeOK, Exists, NoBooking
<1> QED
  BY <1>1 DEF Booking

\* book stores a new, pending, well-formed booking under the next id.
LEMMA BookFacts ==
    ASSUME TypeInv, NEW m \in Members, NEW w \in WorkspaceId,
           NEW s \in Times, NEW e \in Times, NEW n \in Amounts, Book(m, w, s, e, n)
    PROVE  /\ bookingCount + 1 \in BookingId
           /\ ~Exists(bookingCount + 1)
           /\ NewBooking(m, w, s, e, n) \in Booking
           /\ booking' = [booking EXCEPT ![bookingCount + 1] = NewBooking(m, w, s, e, n)]
           /\ bookingCount' = bookingCount + 1
           /\ m \in Addr
           /\ workspaceBookings' =
                 [workspaceBookings EXCEPT ![w] = Append(workspaceBookings[w], bookingCount + 1)]
           /\ memberBookings' =
                 [memberBookings EXCEPT ![m] = Append(memberBookings[m], bookingCount + 1)]
<1>1. bookingCount + 1 \in BookingId
  BY NumbersAssumption DEF Book, BookingId, TypeInv, TypeOK
<1>2. ~Exists(bookingCount + 1)
  BY <1>1 DEF TypeInv, TypeOK, IdsDense
<1>3. m \in Addr /\ s \in Nat /\ e \in Nat /\ n \in Int
  BY NamesAssumption, NumbersAssumption
<1>4. NewBooking(m, w, s, e, n) \in Booking
  BY <1>3 DEF NewBooking, Booking, BookingStatus
<1> QED
  BY <1>1, <1>2, <1>3, <1>4 DEF Book

\* A step that changes the status, or the escrow, of existing bookings.
Rewritten(b, old) ==
    /\ b \in Booking
    /\ b.member = old.member /\ b.workspace_id = old.workspace_id
    /\ b.start_time = old.start_time /\ b.end_time = old.end_time

\* Rewriting one existing booking keeps all of them well-formed.
LEMMA RewriteOne ==
    ASSUME TypeOK, NEW id \in BookingId, Exists(id), NEW b, Rewritten(b, booking[id]),
           booking' = [booking EXCEPT ![id] = b]
    PROVE  /\ booking' \in [BookingId -> Booking \cup {NoBooking}]
           /\ \A i \in BookingId :
                 /\ Exists(i)' <=> Exists(i)
                 /\ Exists(i) => Rewritten(booking'[i], booking[i])
<1>1. booking \in [BookingId -> Booking \cup {NoBooking}]
  BY DEF TypeOK
<1>2. b \in Booking /\ b.status # "None"
  BY DEF Rewritten, Booking, BookingStatus
<1>3. \A i \in BookingId : Exists(i) => booking[i] \in Booking
  BY ExistingBooking
<1> QED
  BY <1>1, <1>2, <1>3 DEF Exists, Rewritten

\* What confirm_booking, batch_confirm, cancel and set_booking_escrow have in common.
LEMMA ChangeFacts ==
    ASSUME TypeInv, ChangeBooking
    PROVE  /\ booking' \in [BookingId -> Booking \cup {NoBooking}]
           /\ UNCHANGED <<registry, places, now, bookingCount, workspaceBookings, memberBookings>>
           /\ revivedAt' \in [BookingId -> 0..MaxBookings]
           /\ \A i \in BookingId : revivedAt'[i] \in {revivedAt[i], bookingCount}
           /\ \A i \in BookingId :
                 /\ Exists(i)' <=> Exists(i)
                 /\ Exists(i) => Rewritten(booking'[i], booking[i])
                 /\ Exists(i) /\ booking[i].status = "Cancelled" =>
                        revivedAt'[i] = bookingCount \/ booking'[i].status = "Cancelled"
<1>0. /\ TypeOK
      /\ booking \in [BookingId -> Booking \cup {NoBooking}]
      /\ \A i \in BookingId : Exists(i) => booking[i] \in Booking
      /\ revivedAt \in [BookingId -> 0..MaxBookings] /\ bookingCount \in 0..MaxBookings
  BY ExistingBooking DEF TypeInv, TypeOK
<1>r. ASSUME NEW ids, Revive(ids)
      PROVE  /\ revivedAt' \in [BookingId -> 0..MaxBookings]
             /\ \A i \in BookingId : revivedAt'[i] \in {revivedAt[i], bookingCount}
             /\ \A i \in ids : i \in BookingId /\ booking[i].status = "Cancelled"
                                  => revivedAt'[i] = bookingCount
  BY <1>0, <1>r DEF Revive
<1> DEFINE Goal ==
        /\ booking' \in [BookingId -> Booking \cup {NoBooking}]
        /\ UNCHANGED <<registry, places, now, bookingCount, workspaceBookings, memberBookings>>
        /\ revivedAt' \in [BookingId -> 0..MaxBookings]
        /\ \A i \in BookingId : revivedAt'[i] \in {revivedAt[i], bookingCount}
        /\ \A i \in BookingId :
              /\ Exists(i)' <=> Exists(i)
              /\ Exists(i) => Rewritten(booking'[i], booking[i])
              /\ Exists(i) /\ booking[i].status = "Cancelled" =>
                     revivedAt'[i] = bookingCount \/ booking'[i].status = "Cancelled"
<1>1. ASSUME NEW a \in Addr, NEW id \in BookingId, ConfirmBooking(a, id)
      PROVE  Goal
  <2> DEFINE b == [booking[id] EXCEPT !.status = "Confirmed"]
  <2>1. Exists(id) /\ booking[id] \in Booking
    BY <1>0, <1>1 DEF ConfirmBooking
  <2>2. Rewritten(b, booking[id])
    BY <2>1 DEF Rewritten, Booking, BookingStatus
  <2>3. booking' = [booking EXCEPT ![id] = b]
    BY <1>1 DEF ConfirmBooking
  <2> HIDE DEF b
  <2>4. \A i \in BookingId : i # id => booking'[i] = booking[i]
    BY <1>0, <2>3
  <2>5. /\ revivedAt' \in [BookingId -> 0..MaxBookings]
        /\ \A i \in BookingId : revivedAt'[i] \in {revivedAt[i], bookingCount}
        /\ booking[id].status = "Cancelled" => revivedAt'[id] = bookingCount
    BY <1>1, <1>r DEF ConfirmBooking
  <2> QED
    BY <1>0, <1>1, <2>1, <2>2, <2>3, <2>4, <2>5, RewriteOne DEF ConfirmBooking
<1>2. ASSUME NEW a \in Addr, NEW id \in BookingId, Cancel(a, id)
      PROVE  Goal
  <2> DEFINE b == [booking[id] EXCEPT !.status = "Cancelled"]
  <2>1. Exists(id) /\ booking[id] \in Booking
    BY <1>0, <1>2 DEF Cancel
  <2>2. Rewritten(b, booking[id]) /\ b.status = "Cancelled"
    BY <2>1 DEF Rewritten, Booking, BookingStatus
  <2>3. booking' = [booking EXCEPT ![id] = b]
    BY <1>2 DEF Cancel
  <2> HIDE DEF b
  <2>4. \A i \in BookingId : booking'[i] = IF i = id THEN b ELSE booking[i]
    BY <1>0, <2>3
  <2> QED
    BY <1>0, <1>2, <2>1, <2>2, <2>3, <2>4, RewriteOne DEF Cancel
<1>3. ASSUME NEW a \in Addr, NEW id \in BookingId, NEW e \in Escrows, SetBookingEscrow(a, id, e)
      PROVE  Goal
  <2> DEFINE b == [booking[id] EXCEPT !.escrow_id = e]
  <2>1. Exists(id) /\ booking[id] \in Booking /\ e \in Nat
    BY <1>0, <1>3, NumbersAssumption DEF SetBookingEscrow
  <2>2. Rewritten(b, booking[id]) /\ b.status = booking[id].status
    BY <2>1 DEF Rewritten, Booking, BookingStatus
  <2>3. booking' = [booking EXCEPT ![id] = b]
    BY <1>3 DEF SetBookingEscrow
  <2> HIDE DEF b
  <2>4. \A i \in BookingId : booking'[i] = IF i = id THEN b ELSE booking[i]
    BY <1>0, <2>3
  <2> QED
    BY <1>0, <1>3, <2>1, <2>2, <2>3, <2>4, RewriteOne DEF SetBookingEscrow
<1>4. ASSUME NEW a \in Addr, NEW ids \in Batches, BatchConfirm(a, ids)
      PROVE  Goal
  <2> DEFINE named(i) == \E k \in DOMAIN ids : ids[k] = i
  <2>1. \A i \in BookingId :
           booking'[i] = IF named(i) THEN [booking[i] EXCEPT !.status = "Confirmed"]
                         ELSE booking[i]
    BY <1>4 DEF BatchConfirm
  <2>2. \A i \in BookingId : named(i) => Exists(i)
    BY <1>4 DEF BatchConfirm
  <2>8. /\ revivedAt' \in [BookingId -> 0..MaxBookings]
        /\ \A i \in BookingId : revivedAt'[i] \in {revivedAt[i], bookingCount}
        /\ \A i \in BookingId : named(i) /\ booking[i].status = "Cancelled"
                                   => revivedAt'[i] = bookingCount
    BY <1>4, <1>r DEF BatchConfirm
  <2> HIDE DEF named
  <2>3. \A i \in BookingId : Exists(i) => Rewritten(booking'[i], booking[i])
    BY <1>0, <2>1 DEF Rewritten, Booking, BookingStatus
  <2>4. \A i \in BookingId : ~Exists(i) => booking'[i] = booking[i]
    BY <2>1, <2>2
  <2>5. \A i \in BookingId : Exists(i)' <=> Exists(i)
    BY <2>3, <2>4 DEF Exists, Rewritten, Booking, BookingStatus
  <2>6. booking' \in [BookingId -> Booking \cup {NoBooking}]
    <3>1. booking' = [i \in BookingId |-> booking'[i]]
      BY <1>4 DEF BatchConfirm
    <3>2. \A i \in BookingId : booking'[i] \in Booking \cup {NoBooking}
      BY <1>0, <2>3, <2>4 DEF Rewritten
    <3> QED
      BY <3>1, <3>2
  <2>7. UNCHANGED <<registry, places, now, bookingCount, workspaceBookings, memberBookings>>
    BY <1>4 DEF BatchConfirm
  <2> QED
    BY <2>1, <2>2, <2>3, <2>5, <2>6, <2>7, <2>8
<1> HIDE DEF Goal
<1>5. Goal
  BY <1>1, <1>2, <1>3, <1>4 DEF ChangeBooking
<1> QED
  BY <1>5 DEF Goal
-----------------------------------------------------------------------------
(* Types *)

\* The empty contract is well typed.
LEMMA InitType == Init => TypeInv
<1> SUFFICES ASSUME Init PROVE TypeInv
  OBVIOUS
<1> USE NumbersAssumption
<1>1. /\ workspaceBookings \in [WorkspaceId -> Seq(BookingId)]
      /\ memberBookings \in [Addr -> Seq(BookingId)]
  BY DEF Init
<1>2. TypeOK
  BY <1>1 DEF Init, TypeOK
<1>3. IdsDense
  BY DEF Init, IdsDense, Exists, NoBooking, Known, BookingId, WorkspaceId
<1> QED
  BY <1>2, <1>3 DEF TypeInv

\* Workspaces and types change without touching a booking.
LEMMA AdministerType == TypeInv /\ Administer => TypeInv' /\ UNCHANGED bookings
<1> SUFFICES ASSUME TypeInv, Administer PROVE TypeInv' /\ UNCHANGED bookings
  OBVIOUS
<1>0. /\ workspace \in [WorkspaceId -> Workspace \cup {NoWorkspace}]
      /\ \A w \in WorkspaceId : Known(w) => workspace[w] \in Workspace
  BY DEF TypeInv, TypeOK, Known
<1>1. ASSUME NEW a \in Admins, Initialize(a)
      PROVE  TypeInv' /\ UNCHANGED bookings
  BY <1>1, NamesAssumption, NumbersAssumption
     DEF Initialize, TypeInv, TypeOK, IdsDense, Exists, Known, places, bookings
<1>2. ASSUME NEW a \in Addr, NEW t \in TypeIds, RegisterWorkspaceType(a, t)
      PROVE  TypeInv' /\ UNCHANGED bookings
  BY <1>2 DEF RegisterWorkspaceType, TypeInv, TypeOK, IdsDense, Exists, Known, places, bookings
<1>3. ASSUME NEW a \in Addr, NEW t \in TypeIds, NEW p \in Prices, RegisterWorkspace(a, t, p)
      PROVE  TypeInv' /\ UNCHANGED bookings
  <2> DEFINE new == [type_id |-> t, price_per_hour |-> p, available |-> TRUE,
                     state |-> Plain("Available")]
  <2>1. workspaceCount + 1 \in WorkspaceId /\ workspaceCount' = workspaceCount + 1
    BY <1>3, NumbersAssumption DEF RegisterWorkspace, WorkspaceId, TypeInv, TypeOK
  <2>2. new \in Workspace /\ new # NoWorkspace
    BY NumbersAssumption DEF Workspace, WorkspaceState, Plain, NoWorkspace
  <2>3. workspace' = [workspace EXCEPT ![workspaceCount + 1] = new]
    BY <1>3 DEF RegisterWorkspace
  <2> HIDE DEF new
  <2>4. workspaceCount' \in 0..MaxWorkspaces
    BY <2>1 DEF WorkspaceId
  <2>5. \A w \in WorkspaceId : Known(w)' <=> Known(w) \/ w = workspaceCount + 1
    BY <1>0, <2>1, <2>2, <2>3 DEF Known
  <2>6. \A w \in WorkspaceId : w <= workspaceCount + 1 <=> w <= workspaceCount \/ w = workspaceCount + 1
    BY <2>1 DEF WorkspaceId, TypeInv, TypeOK
  <2>7. UNCHANGED <<registry, bookings, now>>
    BY <1>3 DEF RegisterWorkspace
  <2>8. registeredIn' \in [WorkspaceId -> 0..MaxInits]
    BY <1>3 DEF RegisterWorkspace, TypeInv, TypeOK
  <2> QED
    BY <1>0, <2>1, <2>2, <2>3, <2>4, <2>5, <2>6, <2>7, <2>8
       DEF TypeInv, TypeOK, IdsDense, Exists, registry, bookings
<1>4. ASSUME NEW a \in Addr, NEW w \in WorkspaceId, NEW v \in BOOLEAN,
             UpdateWorkspaceAvailability(a, w, v)
      PROVE  TypeInv' /\ UNCHANGED bookings
  <2> DEFINE new == [workspace[w] EXCEPT !.available = v]
  <2>1. Known(w) /\ workspace[w] \in Workspace
    BY <1>0, <1>4 DEF UpdateWorkspaceAvailability
  <2>2. new \in Workspace /\ new # NoWorkspace
    BY <2>1 DEF Workspace, NoWorkspace
  <2>3. workspace' = [workspace EXCEPT ![w] = new]
    BY <1>0, <1>4 DEF UpdateWorkspaceAvailability
  <2> HIDE DEF new
  <2>4. \A x \in WorkspaceId : Known(x)' <=> Known(x)
    BY <1>0, <2>1, <2>2, <2>3 DEF Known
  <2> QED
    BY <1>0, <1>4, <2>2, <2>3, <2>4
       DEF UpdateWorkspaceAvailability, TypeInv, TypeOK, IdsDense, Exists, registry, bookings
<1>5. ASSUME NEW a \in Addr, NEW w \in WorkspaceId, NEW st \in States,
             TransitionWorkspaceState(a, w, st)
      PROVE  TypeInv' /\ UNCHANGED bookings
  <2> DEFINE new == [workspace[w] EXCEPT !.state = st]
  <2>1. Known(w) /\ workspace[w] \in Workspace
    BY <1>0, <1>5 DEF TransitionWorkspaceState
  <2>2. st \in WorkspaceState /\ st.until \in Nat
    <3>1. CASE st \in {Plain("Available"), Plain("Unavailable")}
      BY <3>1 DEF WorkspaceState, Plain
    <3>2. CASE st \in [kind : {"Maintenance"}, until : Returns]
      <4>1. Returns \subseteq Nat
        BY NumbersAssumption
      <4> QED
        BY <3>2, <4>1 DEF WorkspaceState
    <3> QED
      BY <3>1, <3>2 DEF States
  <2>3. new \in Workspace /\ new # NoWorkspace
    BY <2>1, <2>2 DEF Workspace, NoWorkspace
  <2>4. workspace' = [workspace EXCEPT ![w] = new]
    BY <1>0, <1>5 DEF TransitionWorkspaceState
  <2> HIDE DEF new
  <2>5. \A x \in WorkspaceId : Known(x)' <=> Known(x)
    BY <1>0, <2>1, <2>3, <2>4 DEF Known
  <2>6. UNCHANGED <<registry, workspaceCount, registeredIn, bookings, now>>
    BY <1>5 DEF TransitionWorkspaceState
  <2> QED
    BY <1>0, <2>3, <2>4, <2>5, <2>6
       DEF TypeInv, TypeOK, IdsDense, Exists, registry, bookings
<1> QED
  BY <1>1, <1>2, <1>3, <1>4, <1>5 DEF Administer

\* book keeps the types, and the ids dense.
LEMMA BookType ==
    ASSUME TypeInv, NEW m \in Members, NEW w \in WorkspaceId,
           NEW s \in Times, NEW e \in Times, NEW n \in Amounts, Book(m, w, s, e, n)
    PROVE  TypeInv'
<1> DEFINE new == NewBooking(m, w, s, e, n)
           id == bookingCount + 1
<1>1. /\ id \in BookingId /\ ~Exists(id) /\ new \in Booking
      /\ booking' = [booking EXCEPT ![id] = new]
      /\ bookingCount' = id
      /\ m \in Addr
      /\ workspaceBookings' = [workspaceBookings EXCEPT ![w] = Append(workspaceBookings[w], id)]
      /\ memberBookings' = [memberBookings EXCEPT ![m] = Append(memberBookings[m], id)]
  BY BookFacts
<1>2. UNCHANGED <<registry, places, now, revivedAt>>
  BY DEF Book
<1>3. new.status # "None"
  BY DEF NewBooking
<1>4. bookingCount \in Nat /\ id = bookingCount + 1
  BY DEF TypeInv, TypeOK
<1> HIDE DEF new, id
<1>5. TypeOK'
  <2>1. bookingCount' \in 0..MaxBookings
    BY <1>1, NumbersAssumption DEF BookingId
  <2>2. booking' \in [BookingId -> Booking \cup {NoBooking}]
    BY <1>1 DEF TypeInv, TypeOK
  <2>3. workspaceBookings' \in [WorkspaceId -> Seq(BookingId)]
    BY <1>1 DEF TypeInv, TypeOK
  <2>4. memberBookings' \in [Addr -> Seq(BookingId)]
    BY <1>1 DEF TypeInv, TypeOK
  <2> QED
    BY <1>2, <2>1, <2>2, <2>3, <2>4 DEF TypeInv, TypeOK, registry, places
<1>6. IdsDense'
  <2>1. \A i \in BookingId : Exists(i)' <=> Exists(i) \/ i = id
    BY <1>1, <1>3 DEF Exists, TypeInv, TypeOK
  <2>2. \A i \in BookingId : i <= id <=> i <= bookingCount \/ i = id
    BY <1>4 DEF BookingId
  <2> QED
    BY <1>1, <1>2, <2>1, <2>2 DEF TypeInv, IdsDense, Known, places
<1> QED
  BY <1>5, <1>6 DEF TypeInv

\* Every step keeps the types.
LEMMA StepType == TypeInv /\ [Next]_vars => TypeInv'
<1> SUFFICES ASSUME TypeInv, [Next]_vars PROVE TypeInv'
  OBVIOUS
<1>1. CASE ChangeBooking
  BY <1>1, ChangeFacts DEF TypeInv, TypeOK, IdsDense, Known, registry, places
<1>2. CASE Tick
  BY <1>2 DEF Tick, TypeInv, TypeOK, IdsDense, Exists, Known, registry, places, bookings
<1>3. CASE UNCHANGED vars
  BY <1>3 DEF vars, TypeInv, TypeOK, IdsDense, Exists, Known, registry, places, bookings
<1> QED
  BY <1>1, <1>2, <1>3, AdministerType, BookType DEF Next, MakeBooking

\* The contract's storage keeps its types, and its counters never skip or reuse
\* an id.
THEOREM TypeCorrect == Spec => []TypeOK
<1>1. TypeInv => TypeOK
  BY DEF TypeInv
<1> QED
  BY InitType, StepType, <1>1, PTL DEF Spec
-----------------------------------------------------------------------------
(* No double booking *)

Listed(list, id) == \E k \in DOMAIN list : list[k] = id

\* Appending an id lists it and nothing else that was not listed.
LEMMA AppendListed ==
    ASSUME NEW S, NEW list \in Seq(S), NEW x \in S, NEW y
    PROVE  Listed(Append(list, x), y) <=> Listed(list, y) \/ y = x
<1>1. /\ DOMAIN list = 1..Len(list) /\ Len(list) \in Nat
      /\ DOMAIN Append(list, x) = 1..(Len(list) + 1)
      /\ \A k \in 1..Len(list) : Append(list, x)[k] = list[k]
      /\ Append(list, x)[Len(list) + 1] = x
  OBVIOUS
<1>2. \A k \in 1..(Len(list) + 1) : k \in 1..Len(list) \/ k = Len(list) + 1
  BY <1>1
<1>3. \A k \in 1..Len(list) : k \in 1..(Len(list) + 1)
  BY <1>1
<1>4. Len(list) + 1 \in 1..(Len(list) + 1)
  BY <1>1
<1> QED
  BY <1>1, <1>2, <1>3, <1>4 DEF Listed

Index ==
    \A id \in BookingId :
        /\ \A w \in WorkspaceId :
              Listed(workspaceBookings[w], id) <=> Exists(id) /\ booking[id].workspace_id = w
        /\ \A m \in Addr :
              Listed(memberBookings[m], id) <=> Exists(id) /\ booking[id].member = m

\* The invariant in terms of Listed is the property the runs check.
LEMMA IndexIsComplete == Index <=> IndexComplete
  BY DEF Index, IndexComplete, Listed

\* i and j are bookings of one workspace and overlap.
Clash(i, j) == /\ Exists(i) /\ Exists(j)
               /\ booking[i].workspace_id = booking[j].workspace_id
               /\ Overlaps(booking[i].start_time, booking[i].end_time, booking[j])

\* The strengthening: also when the younger booking is cancelled, the older one is
\* alive only if it came back after the younger one was made.
ClashesRevived ==
    \A i, j \in BookingId :
        i < j /\ Clash(i, j) /\ booking[i].status # "Cancelled" => revivedAt[i] >= j

\* What the overlap scan reads is complete.
BookingInv == TypeInv /\ Index /\ ClashesRevived

\* There are no bookings at first.
LEMMA InitBooking == Init => BookingInv
<1>1. Init => Index
  BY DEF Init, Index, Listed, Exists, NoBooking
<1>2. Init => ClashesRevived
  BY DEF Init, ClashesRevived, Clash, Exists, NoBooking
<1> QED
  BY <1>1, <1>2, InitType DEF BookingInv

\* book lists the new booking for its workspace and its member, and nowhere else.
LEMMA BookIndex ==
    ASSUME TypeInv, Index, NEW m \in Members, NEW w \in WorkspaceId,
           NEW s \in Times, NEW e \in Times, NEW n \in Amounts, Book(m, w, s, e, n)
    PROVE  Index'
<1> DEFINE new == NewBooking(m, w, s, e, n)
           id == bookingCount + 1
<1>1. /\ id \in BookingId /\ ~Exists(id)
      /\ booking' = [booking EXCEPT ![id] = new]
      /\ m \in Addr
      /\ workspaceBookings' = [workspaceBookings EXCEPT ![w] = Append(workspaceBookings[w], id)]
      /\ memberBookings' = [memberBookings EXCEPT ![m] = Append(memberBookings[m], id)]
  BY BookFacts
<1>2. new.status # "None" /\ new.workspace_id = w /\ new.member = m
  BY DEF NewBooking
<1>3. /\ booking \in [BookingId -> Booking \cup {NoBooking}]
      /\ workspaceBookings \in [WorkspaceId -> Seq(BookingId)]
      /\ memberBookings \in [Addr -> Seq(BookingId)]
  BY DEF TypeInv, TypeOK
<1> HIDE DEF new, id
<1>4. \A i \in BookingId : booking'[i] = IF i = id THEN new ELSE booking[i]
  BY <1>1, <1>3
<1>5. ASSUME NEW i \in BookingId, NEW x \in WorkspaceId
      PROVE  Listed(workspaceBookings'[x], i) <=> Exists(i)' /\ booking'[i].workspace_id = x
  <2>1. Listed(Append(workspaceBookings[w], id), i) <=> Listed(workspaceBookings[w], i) \/ i = id
    BY <1>1, <1>3, AppendListed
  <2>2. workspaceBookings'[x] = IF x = w THEN Append(workspaceBookings[w], id)
                                ELSE workspaceBookings[x]
    BY <1>1, <1>3
  <2>3. Listed(workspaceBookings[x], i) <=> Exists(i) /\ booking[i].workspace_id = x
    BY DEF Index
  <2> QED
    BY <1>1, <1>2, <1>4, <2>1, <2>2, <2>3 DEF Exists
<1>6. ASSUME NEW i \in BookingId, NEW a \in Addr
      PROVE  Listed(memberBookings'[a], i) <=> Exists(i)' /\ booking'[i].member = a
  <2>1. Listed(Append(memberBookings[m], id), i) <=> Listed(memberBookings[m], i) \/ i = id
    BY <1>1, <1>3, AppendListed
  <2>2. memberBookings'[a] = IF a = m THEN Append(memberBookings[m], id) ELSE memberBookings[a]
    BY <1>1, <1>3
  <2>3. Listed(memberBookings[a], i) <=> Exists(i) /\ booking[i].member = a
    BY DEF Index
  <2> QED
    BY <1>1, <1>2, <1>4, <2>1, <2>2, <2>3 DEF Exists
<1> QED
  BY <1>5, <1>6 DEF Index

\* A new booking clears every live booking of its workspace, because the list that
\* is scanned is complete.
LEMMA BookClear ==
    ASSUME BookingInv, NEW m \in Members, NEW w \in WorkspaceId,
           NEW s \in Times, NEW e \in Times, NEW n \in Amounts, Book(m, w, s, e, n)
    PROVE  ClashesRevived'
<1> DEFINE new == NewBooking(m, w, s, e, n)
           id == bookingCount + 1
<1>1. /\ id \in BookingId /\ ~Exists(id) /\ revivedAt' = revivedAt
      /\ booking' = [booking EXCEPT ![id] = new]
  BY BookFacts DEF BookingInv, Book
<1>2. /\ new.start_time = s /\ new.end_time = e /\ new.workspace_id = w
      /\ new.status # "None"
  BY DEF NewBooking
<1>3. Clear(w, s, e) /\ s < e
  BY DEF Book
<1>4. booking \in [BookingId -> Booking \cup {NoBooking}]
  BY DEF BookingInv, TypeInv, TypeOK
<1>7. \A j \in BookingId : Exists(j) => j < id
  BY DEF BookingInv, TypeInv, TypeOK, IdsDense, BookingId
<1> HIDE DEF new, id
<1>5. \A i \in BookingId : booking'[i] = IF i = id THEN new ELSE booking[i]
  BY <1>1, <1>4
<1>6. ASSUME NEW i \in BookingId, Exists(i), booking[i].workspace_id = w,
             booking[i].status # "Cancelled"
      PROVE  ~Overlaps(s, e, booking[i])
  <2>1. PICK k \in DOMAIN workspaceBookings[w] : workspaceBookings[w][k] = i
    BY <1>6 DEF BookingInv, Index, Listed
  <2> QED
    BY <1>3, <1>6, <2>1 DEF Clear
<1>8. ASSUME NEW i \in BookingId, NEW j \in BookingId, i < j, Clash(i, j)',
             booking'[i].status # "Cancelled"
      PROVE  revivedAt'[i] >= j
  <2>1. i # id
    <3>1. CASE j = id
      BY <1>8, <3>1 DEF BookingId
    <3>2. CASE j # id
      <4>1. Exists(j)
        BY <1>5, <1>8, <3>2 DEF Clash, Exists
      <4> QED
        BY <1>1, <1>7, <1>8, <4>1 DEF BookingId
    <3> QED
      BY <3>1, <3>2
  <2>2. CASE j = id
    <3>1. ~Overlaps(s, e, booking[i])
      BY <1>2, <1>5, <1>6, <1>8, <2>1, <2>2 DEF Clash, Exists
    <3> QED
      BY <1>2, <1>5, <1>8, <2>1, <2>2, <3>1 DEF Clash, Overlaps
  <2>3. CASE j # id
    BY <1>1, <1>5, <1>8, <2>1, <2>3 DEF BookingInv, ClashesRevived, Clash, Exists
  <2> QED
    BY <2>2, <2>3
<1> QED
  BY <1>8 DEF ClashesRevived

\* Only a confirmation brings a cancelled booking back, and then every other booking
\* is already there.
LEMMA ChangeBookingInv ==
    ASSUME BookingInv, ChangeBooking
    PROVE  Index' /\ ClashesRevived'
<1>1. /\ UNCHANGED <<workspaceBookings, memberBookings>>
      /\ \A i \in BookingId :
            /\ revivedAt'[i] \in {revivedAt[i], bookingCount}
            /\ Exists(i)' <=> Exists(i)
            /\ Exists(i) => Rewritten(booking'[i], booking[i])
            /\ Exists(i) /\ booking[i].status = "Cancelled" =>
                   revivedAt'[i] = bookingCount \/ booking'[i].status = "Cancelled"
  BY ChangeFacts DEF BookingInv
<1>2. Index'
  BY <1>1 DEF BookingInv, Index, Rewritten
<1>3. \A j \in BookingId : Exists(j) => bookingCount >= j
  BY DEF BookingInv, TypeInv, TypeOK, IdsDense, BookingId
<1>4. ASSUME NEW i \in BookingId, NEW j \in BookingId, i < j, Clash(i, j)',
             booking'[i].status # "Cancelled"
      PROVE  revivedAt'[i] >= j
  <2>1. Clash(i, j)
    BY <1>1, <1>4 DEF Clash, Rewritten, Overlaps
  <2>2. bookingCount >= j
    BY <1>3, <2>1 DEF Clash
  <2>3. CASE booking[i].status = "Cancelled"
    BY <1>1, <1>4, <2>1, <2>2, <2>3 DEF Clash
  <2>4. CASE booking[i].status # "Cancelled"
    <3>1. revivedAt[i] >= j
      BY <1>4, <2>1, <2>4 DEF BookingInv, ClashesRevived
    <3> QED
      BY <1>1, <2>2, <3>1
  <2> QED
    BY <2>3, <2>4
<1> QED
  BY <1>2, <1>4 DEF ClashesRevived

\* Every step keeps the booking invariant.
LEMMA StepBooking == BookingInv /\ [Next]_vars => BookingInv'
<1> SUFFICES ASSUME BookingInv, [Next]_vars PROVE BookingInv'
  OBVIOUS
<1>1. TypeInv'
  BY StepType DEF BookingInv
<1>2. CASE ChangeBooking
  BY <1>1, <1>2, ChangeBookingInv DEF BookingInv
<1>3. CASE MakeBooking
  BY <1>1, <1>3, BookIndex, BookClear DEF BookingInv, MakeBooking
<1>4. CASE Administer \/ Tick \/ UNCHANGED vars
  <2>1. UNCHANGED bookings
    BY <1>4, AdministerType DEF BookingInv, Tick, vars
  <2> QED
    BY <1>1, <2>1 DEF BookingInv, Index, ClashesRevived, Clash, Exists, bookings
<1> QED
  BY <1>2, <1>3, <1>4 DEF Next

\* Two live bookings of a workspace overlap only when the older one was cancelled and
\* confirmed again after the younger one was made (confirm_booking and batch_confirm
\* accept that).
THEOREM BookingsDisjoint == Spec => []DoubleOnlyRevived
<1>1. BookingInv => DoubleOnlyRevived
  BY DEF BookingInv, ClashesRevived, Clash, DoubleOnlyRevived, DoubleBooked
<1> QED
  BY InitBooking, StepBooking, <1>1, PTL DEF Spec

\* The lists of ids that book scans and the members read are exact.
THEOREM ListsComplete == Spec => []IndexComplete
<1>1. BookingInv => IndexComplete
  BY IndexIsComplete DEF BookingInv
<1> QED
  BY InitBooking, StepBooking, <1>1, PTL DEF Spec
-----------------------------------------------------------------------------
(* Registered types *)

\* Before initialize nobody is admin, so there is no workspace either.
TypesInv == /\ inits = 0 => admin = NoAddr /\ \A w \in WorkspaceId : ~Known(w)
            /\ \A w \in WorkspaceId : Known(w) => registeredIn[w] <= inits
            /\ TypesRegistered

\* The empty contract has no workspace.
LEMMA InitTypes == Init => TypesInv
  BY DEF Init, TypesInv, TypesRegistered, Known

\* A workspace is registered with a type the registry knows at that moment; until the
\* next initialize the registry only grows, and initialize keeps the canonical types.
LEMMA StepTypes == TypeInv /\ TypesInv /\ [Next]_vars => TypesInv'
<1> SUFFICES ASSUME TypeInv, TypesInv, [Next]_vars PROVE TypesInv'
  OBVIOUS
<1>0. /\ inits \in Nat /\ registeredIn \in [WorkspaceId -> 0..MaxInits]
      /\ \A w \in WorkspaceId : Known(w) => registeredIn[w] <= inits
      /\ workspace \in [WorkspaceId -> Workspace \cup {NoWorkspace}]
      /\ \A w \in WorkspaceId : Known(w) => workspace[w] \in Workspace
  BY DEF TypeInv, TypeOK, TypesInv, Known
<1>1. ASSUME NEW a \in Admins, Initialize(a)
      PROVE  TypesInv'
  BY <1>0, <1>1 DEF Initialize, TypesInv, TypesRegistered, Known, places
<1>2. ASSUME NEW a \in Addr, NEW t \in TypeIds, RegisterWorkspaceType(a, t)
      PROVE  TypesInv'
  BY <1>2 DEF RegisterWorkspaceType, TypesInv, TypesRegistered, Known, places
<1>3. ASSUME NEW a \in Addr, NEW t \in TypeIds, NEW p \in Prices, RegisterWorkspace(a, t, p)
      PROVE  TypesInv'
  <2> DEFINE n == workspaceCount + 1
  <2>1. inits # 0 /\ t \in types /\ UNCHANGED registry
    BY <1>3, NamesAssumption DEF RegisterWorkspace, TypesInv
  <2>2. \A w \in WorkspaceId :
           \/ workspace'[w] = workspace[w] /\ registeredIn'[w] = registeredIn[w]
           \/ workspace'[w].type_id = t /\ registeredIn'[w] = inits
    BY <1>0, <1>3 DEF RegisterWorkspace
  <2>3. ASSUME NEW w \in WorkspaceId, Known(w)'
        PROVE  registeredIn'[w] <= inits /\ \/ workspace'[w].type_id \in types
                                            \/ /\ workspace'[w].type_id \notin CanonicalTypes
                                               /\ registeredIn'[w] < inits
    <3>1. CASE workspace'[w] = workspace[w] /\ registeredIn'[w] = registeredIn[w]
      BY <1>0, <2>3, <3>1 DEF TypesInv, TypesRegistered, Known
    <3>2. CASE workspace'[w].type_id = t /\ registeredIn'[w] = inits
      BY <1>0, <2>1, <3>2
    <3> QED
      BY <2>2, <3>1, <3>2
  <2> QED
    BY <2>1, <2>3 DEF TypesInv, TypesRegistered, registry
<1>4. ASSUME NEW a \in Addr, NEW w \in WorkspaceId,
             \/ \E v \in BOOLEAN : UpdateWorkspaceAvailability(a, w, v)
             \/ \E new \in States : TransitionWorkspaceState(a, w, new)
      PROVE  TypesInv'
  <2>1. inits # 0 /\ Known(w) /\ UNCHANGED <<registry, registeredIn>>
    BY <1>4, NamesAssumption
       DEF UpdateWorkspaceAvailability, TransitionWorkspaceState, TypesInv
  <2>2. \A x \in WorkspaceId : x # w => workspace'[x] = workspace[x]
    BY <1>0, <1>4 DEF UpdateWorkspaceAvailability, TransitionWorkspaceState
  <2>3. workspace'[w].type_id = workspace[w].type_id
    BY <1>0, <1>4, <2>1 DEF UpdateWorkspaceAvailability, TransitionWorkspaceState, Workspace
  <2>4. ASSUME NEW x \in WorkspaceId, Known(x)'
        PROVE  Known(x) /\ workspace'[x].type_id = workspace[x].type_id
    BY <2>1, <2>2, <2>3, <2>4 DEF Known
  <2>5. /\ inits' = inits /\ types' = types /\ registeredIn' = registeredIn
    BY <2>1 DEF registry
  <2>6. TypesRegistered'
    BY <2>4, <2>5 DEF TypesInv, TypesRegistered
  <2>7. \A x \in WorkspaceId : Known(x)' => registeredIn'[x] <= inits'
    BY <1>0, <2>4, <2>5
  <2> QED
    BY <2>1, <2>5, <2>6, <2>7 DEF TypesInv
<1>5. CASE MakeBooking \/ Tick \/ UNCHANGED vars
  <2>1. UNCHANGED <<registry, places>>
    BY <1>5 DEF MakeBooking, Book, Tick, vars
  <2> QED
    BY <2>1 DEF TypesInv, TypesRegistered, Known, registry, places
<1>6. CASE ChangeBooking
  BY <1>6, ChangeFacts DEF TypesInv, TypesRegistered, Known, registry, places
<1> QED
  BY <1>1, <1>2, <1>3, <1>4, <1>5, <1>6 DEF Next, Administer

\* What book and the members read is exact, and every workspace has a registered type
\* unless initialize was called again after its registration.
THEOREM RegistersAreComplete == Spec => []RegistersComplete
<1>1. TypeInv /\ TypesInv /\ BookingInv => RegistersComplete
  BY IndexIsComplete DEF BookingInv, TypeInv, TypesInv, RegistersComplete
<1> QED
  BY InitType, StepType, InitTypes, StepTypes, InitBooking, StepBooking, <1>1,
     PTL DEF Spec
=============================================================================
