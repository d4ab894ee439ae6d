-------------------------- MODULE WorkspaceBooking --------------------------
(***************************************************************************)
(* The workspace_booking Soroban contract:                                 *)
(* contracts/workspace_booking/src/lib.rs.  A call is one atomic step and  *)
(* a failing call is a disabled action.  Nothing in the contract ever      *)
(* stores Paused, adds to a waitlist or reads the tier discounts, so       *)
(* require_not_paused always succeeds and leave_waitlist always fails.     *)
(***************************************************************************)
EXTENDS Integers, Sequences, FiniteSets

CONSTANTS
    Addr, Admins, Members,
    NoAddr,           \* the admin entry before initialize
    CanonicalTypes,   \* type ids that initialize seeds the registry with
    TypeIds,          \* type ids an admin may register or use
    Prices,           \* prices per hour
    Amounts,          \* amounts a member may offer
    Times,            \* start and end times, in seconds
    Hour,             \* seconds per hour
    Returns,          \* scheduled returns from maintenance
    Escrows,          \* escrow ids an admin may link
    MaxInits,         \* bound: calls of initialize
    MaxWorkspaces,    \* bound: workspaces ever registered
    MaxBookings,      \* bound: bookings ever made
    MaxBatch,         \* MAX_BATCH_SIZE
    MaxTime           \* bound: ledger time

ASSUME NamesAssumption == /\ Members \subseteq Addr /\ Admins \subseteq Addr
                          /\ NoAddr \notin Addr
ASSUME NumbersAssumption ==
    /\ Times \subseteq Nat /\ Returns \subseteq Nat /\ Escrows \subseteq Nat
    /\ Prices \subseteq Int /\ Amounts \subseteq Int
    /\ Hour \in Nat \ {0}
    /\ {MaxInits, MaxWorkspaces, MaxBookings, MaxBatch, MaxTime} \subseteq Nat

VARIABLES
    admin,
    types,              \* WorkspaceTypeRegistry, the set of registered ids
    workspaceCount, workspace,
    bookingCount, booking,
    workspaceBookings, memberBookings,   \* the two id lists
    now,                \* external: env.ledger().timestamp()
    inits,              \* bound: calls of initialize so far
    registeredIn,       \* history: the value of inits when a workspace was registered
    revivedAt           \* history: bookings made when a cancelled one was last confirmed

registry == <<admin, types, inits>>
places == <<workspaceCount, workspace, registeredIn>>
bookings == <<bookingCount, booking, workspaceBookings, memberBookings, revivedAt>>
vars == <<registry, places, bookings, now>>

-----------------------------------------------------------------------------
WorkspaceId == 1..MaxWorkspaces
BookingId == 1..MaxBookings
\* Completed and Waitlisted exist as values and are never stored.
BookingStatus == {"Pending", "Confirmed", "Cancelled"}

WorkspaceState == [kind : {"Available", "Unavailable", "Maintenance"}, until : Nat]
Plain(kind) == [kind |-> kind, until |-> 0]

Workspace == [type_id : TypeIds, price_per_hour : Int, available : BOOLEAN,
              state : WorkspaceState]
NoWorkspace == [type_id |-> 0]
Known(w) == workspace[w] # NoWorkspace

Booking == [member : Addr, workspace_id : WorkspaceId, start_time : Nat, end_time : Nat,
            amount : Int, status : BookingStatus, escrow_id : Nat]
NoBooking == [status |-> "None"]
Exists(id) == booking[id].status # "None"

TypeOK ==
    /\ admin \in Addr \cup {NoAddr}
    /\ types \subseteq CanonicalTypes \cup TypeIds
    /\ workspaceCount \in 0..MaxWorkspaces
    /\ workspace \in [WorkspaceId -> Workspace \cup {NoWorkspace}]
    /\ bookingCount \in 0..MaxBookings
    /\ booking \in [BookingId -> Booking \cup {NoBooking}]
    /\ workspaceBookings \in [WorkspaceId -> Seq(BookingId)]
    /\ memberBookings \in [Addr -> Seq(BookingId)]
    /\ now \in Nat
    /\ inits \in 0..MaxInits
    /\ registeredIn \in [WorkspaceId -> 0..MaxInits]
    /\ revivedAt \in [BookingId -> 0..MaxBookings]

Init ==
    /\ admin = NoAddr
    /\ types = {}
    /\ workspaceCount = 0
    /\ workspace = [w \in WorkspaceId |-> NoWorkspace]
    /\ bookingCount = 0
    /\ booking = [id \in BookingId |-> NoBooking]
    /\ workspaceBookings = [w \in WorkspaceId |-> <<>>]
    /\ memberBookings = [a \in Addr |-> <<>>]
    /\ now = 0
    /\ inits = 0
    /\ registeredIn = [w \in WorkspaceId |-> 0]
    /\ revivedAt = [id \in BookingId |-> 0]

-----------------------------------------------------------------------------
(* Administration *)

\* The registry is written anew: types registered before are gone.
Initialize(a) ==
    /\ inits < MaxInits
    /\ inits' = inits + 1
    /\ admin' = a
    /\ types' = CanonicalTypes
    /\ UNCHANGED <<places, bookings, now>>

RegisterWorkspaceType(caller, t) ==
    /\ t # 0
    /\ caller = admin
    /\ t \notin types
    /\ types' = types \cup {t}
    /\ UNCHANGED <<admin, inits, places, bookings, now>>

\* Mutant of RegisterWorkspace: the type is not looked up.
RegisterWorkspaceUntyped(caller, t, price) ==
    /\ caller = admin
    /\ workspaceCount < MaxWorkspaces
    /\ workspaceCount' = workspaceCount + 1
    /\ workspace' = [workspace EXCEPT ![workspaceCount + 1] =
                       [type_id |-> t, price_per_hour |-> price, available |-> TRUE,
                        state |-> Plain("Available")]]
    /\ registeredIn' = [registeredIn EXCEPT ![workspaceCount + 1] = inits]
    /\ UNCHANGED <<registry, bookings, now>>

RegisterWorkspace(caller, t, price) ==
    /\ caller = admin
    /\ t \in types
    /\ workspaceCount < MaxWorkspaces
    /\ workspaceCount' = workspaceCount + 1
    /\ workspace' = [workspace EXCEPT ![workspaceCount + 1] =
                       [type_id |-> t, price_per_hour |-> price, available |-> TRUE,
                        state |-> Plain("Available")]]
    /\ registeredIn' = [registeredIn EXCEPT ![workspaceCount + 1] = inits]
    /\ UNCHANGED <<registry, bookings, now>>

UpdateWorkspaceAvailability(caller, w, value) ==
    /\ caller = admin
    /\ Known(w)
    /\ workspace' = [workspace EXCEPT ![w].available = value]
    /\ UNCHANGED <<registry, workspaceCount, registeredIn, bookings, now>>

\* Availability and state are two separate fields; this changes the second.
\* A transition to the same state is a no-op, every other one panics.
TransitionWorkspaceState(caller, w, new) ==
    /\ caller = admin
    /\ Known(w)
    /\ LET old == workspace[w].state
       IN  \/ old.kind = "Available" /\ new.kind \in {"Unavailable", "Maintenance"}
           \/ old.kind = "Unavailable" /\ new.kind = "Available"
           \/ old.kind = "Maintenance" /\ new.kind = "Available" /\ now >= old.until
           \/ old.kind = "Maintenance" /\ new.kind = "Unavailable"
    /\ workspace' = [workspace EXCEPT ![w].state = new]
    /\ UNCHANGED <<registry, workspaceCount, registeredIn, bookings, now>>

-----------------------------------------------------------------------------
(* Bookings *)

Hours(start, end) == (end - start + Hour - 1) \div Hour

Overlaps(start, end, b) == ~(end <= b.start_time \/ start >= b.end_time)

\* Mutant of Clear: only confirmed bookings are in the way.
ClearOfConfirmed(w, start, end) ==
    \A k \in DOMAIN workspaceBookings[w] :
        LET b == booking[workspaceBookings[w][k]]
        IN  b.status = "Confirmed" => ~Overlaps(start, end, b)

\* The scan of the bookings listed for the workspace.
Clear(w, start, end) ==
    \A k \in DOMAIN workspaceBookings[w] :
        LET b == booking[workspaceBookings[w][k]]
        IN  b.status # "Cancelled" => ~Overlaps(start, end, b)

\* Mutant of NewBooking: a booking nobody confirmed waits in a list.
WaitlistedBooking(member, w, start, end, amount) ==
    [member |-> member, workspace_id |-> w, start_time |-> start, end_time |-> end,
     amount |-> amount, status |-> "Waitlisted", escrow_id |-> 0]

NewBooking(member, w, start, end, amount) ==
    [member |-> member, workspace_id |-> w, start_time |-> start, end_time |-> end,
     amount |-> amount, status |-> "Pending", escrow_id |-> 0]

\* Mutant of Book: the workspace's list is not extended.
BookUnlisted(member, w, start, end, amount) ==
    /\ start < end
    /\ Known(w)
    /\ workspace[w].state.kind = "Available"
    /\ workspace[w].available
    /\ amount >= workspace[w].price_per_hour * Hours(start, end)
    /\ Clear(w, start, end)
    /\ bookingCount < MaxBookings
    /\ bookingCount' = bookingCount + 1
    /\ booking' = [booking EXCEPT ![bookingCount + 1] =
                     NewBooking(member, w, start, end, amount)]
    /\ memberBookings' = [memberBookings EXCEPT ![member] = Append(@, bookingCount + 1)]
    /\ UNCHANGED <<registry, places, now, revivedAt, workspaceBookings>>

Book(member, w, start, end, amount) ==
    /\ start < end
    /\ Known(w)
    /\ workspace[w].state.kind = "Available"
    /\ workspace[w].available
    /\ amount >= workspace[w].price_per_hour * Hours(start, end)
    /\ Clear(w, start, end)
    /\ bookingCount < MaxBookings
    /\ bookingCount' = bookingCount + 1
    /\ booking' = [booking EXCEPT ![bookingCount + 1] =
                     NewBooking(member, w, start, end, amount)]
    /\ workspaceBookings' = [workspaceBookings EXCEPT ![w] = Append(@, bookingCount + 1)]
    /\ memberBookings' = [memberBookings EXCEPT ![member] = Append(@, bookingCount + 1)]
    /\ UNCHANGED <<registry, places, now, revivedAt>>

\* The history of a confirmation of these bookings.
Revive(ids) ==
    revivedAt' = [id \in BookingId |-> IF id \in ids /\ booking[id].status = "Cancelled"
                                      THEN bookingCount ELSE revivedAt[id]]

\* Any status but Confirmed goes, also Cancelled; overlaps are not looked at.
ConfirmBooking(caller, id) ==
    /\ caller = admin
    /\ Exists(id)
    /\ booking[id].status # "Confirmed"
    /\ booking' = [booking EXCEPT ![id].status = "Confirmed"]
    /\ Revive({id})
    /\ UNCHANGED <<registry, places, now, bookingCount, workspaceBookings, memberBookings>>

\* All ids are validated, by availability and not by state, before any is written.
BatchConfirm(caller, ids) ==
    /\ caller = admin
    /\ Len(ids) <= MaxBatch
    /\ \A k \in DOMAIN ids :
          /\ Exists(ids[k])
          /\ booking[ids[k]].status # "Confirmed"
          /\ workspace[booking[ids[k]].workspace_id].available
    /\ booking' = [id \in BookingId |->
                     IF \E k \in DOMAIN ids : ids[k] = id
                     THEN [booking[id] EXCEPT !.status = "Confirmed"]
                     ELSE booking[id]]
    /\ Revive({ids[k] : k \in DOMAIN ids})
    /\ UNCHANGED <<registry, places, now, bookingCount, workspaceBookings, memberBookings>>

Cancel(caller, id) ==
    /\ Exists(id)
    /\ booking[id].status # "Cancelled"
    /\ caller \in {booking[id].member, admin}
    /\ booking' = [booking EXCEPT ![id].status = "Cancelled"]
    /\ UNCHANGED <<registry, places, now, bookingCount, workspaceBookings, memberBookings, revivedAt>>

\* No pause check; whether the escrow exists or is linked already is not asked.
SetBookingEscrow(caller, id, escrow) ==
    /\ Exists(id)
    /\ caller = admin
    /\ booking' = [booking EXCEPT ![id].escrow_id = escrow]
    /\ UNCHANGED <<registry, places, now, bookingCount, workspaceBookings, memberBookings, revivedAt>>

-----------------------------------------------------------------------------
Tick == /\ now < MaxTime
        /\ now' = now + 1
        /\ UNCHANGED <<registry, places, bookings>>

States == {Plain("Available"), Plain("Unavailable")}
            \cup [kind : {"Maintenance"}, until : Returns]

Administer ==
    \/ \E a \in Admins : Initialize(a)
    \/ \E a \in Addr, t \in TypeIds : RegisterWorkspaceType(a, t)
    \/ \E a \in Addr, t \in TypeIds, p \in Prices : RegisterWorkspace(a, t, p)
    \/ \E a \in Addr, w \in WorkspaceId, v \in BOOLEAN : UpdateWorkspaceAvailability(a, w, v)
    \/ \E a \in Addr, w \in WorkspaceId, s \in States : TransitionWorkspaceState(a, w, s)

MakeBooking ==
    \E m \in Members, w \in WorkspaceId, s, e \in Times, n \in Amounts : Book(m, w, s, e, n)

\* Batches of up to two ids are enough for repeated and for mixed ids.
Batches == {<<i>> : i \in BookingId} \cup (BookingId \X BookingId)

ChangeBooking ==
    \/ \E a \in Addr, id \in BookingId : ConfirmBooking(a, id)
    \/ \E a \in Addr, ids \in Batches : BatchConfirm(a, ids)
    \/ \E a \in Addr, id \in BookingId : Cancel(a, id)
    \/ \E a \in Addr, id \in BookingId, e \in Escrows : SetBookingEscrow(a, id, e)

Next == Administer \/ MakeBooking \/ ChangeBooking \/ Tick

Spec == Init /\ [][Next]_vars

-----------------------------------------------------------------------------
(* Properties *)

\* i and j are alive, in the same workspace, and overlap.
DoubleBooked(i, j) ==
    /\ Exists(i) /\ Exists(j)
    /\ booking[i].workspace_id = booking[j].workspace_id
    /\ booking[i].status # "Cancelled" /\ booking[j].status # "Cancelled"
    /\ Overlaps(booking[i].start_time, booking[i].end_time, booking[j])

\* contracts/README.md:163: book "Validates time range, availability, payment, and
\* overlaps", so two live bookings of a workspace never overlap.
NoDoubleBooking == \A i, j \in BookingId : i # j => ~DoubleBooked(i, j)

\* book keeps a slot from being sold twice whatever is cancelled, booked again and
\* confirmed: two live bookings of a workspace overlap only when the older one was
\* cancelled and an admin confirmed it again after the younger one was made.
DoubleOnlyRevived ==
    \A i, j \in BookingId : i < j /\ DoubleBooked(i, j) => revivedAt[i] >= j

\* The overlap check reads a list of ids, so the list has to hold every booking of
\* the workspace; each member's list holds exactly his bookings.
IndexComplete ==
    \A id \in BookingId :
        /\ \A w \in WorkspaceId :
              (\E k \in DOMAIN workspaceBookings[w] : workspaceBookings[w][k] = id)
                  <=> Exists(id) /\ booking[id].workspace_id = w
        /\ \A m \in Addr :
              (\E k \in DOMAIN memberBookings[m] : memberBookings[m][k] = id)
                  <=> Exists(id) /\ booking[id].member = m

\* types.rs:49: the type of a workspace "References a type_id in the
\* WorkspaceTypeRegistry", whatever was called since it was registered.
TypesAlwaysRegistered == \A w \in WorkspaceId : Known(w) => workspace[w].type_id \in types

\* What initialize leaves of it: it writes the registry anew (lib.rs:88), so a type an
\* admin added is missing for the workspaces that were registered before that call, and
\* only for them.
TypesRegistered ==
    \A w \in WorkspaceId : Known(w) =>
        \/ workspace[w].type_id \in types
        \/ workspace[w].type_id \notin CanonicalTypes /\ registeredIn[w] < inits

\* The lists that book scans are exact, every workspace has a type the registry knows
\* unless initialize was called again, and storage keeps its types.
RegistersComplete == TypeOK /\ IndexComplete /\ TypesRegistered
=============================================================================
