------------------------------- MODULE Paging -------------------------------
(***************************************************************************)
(* The lists a client reads page by page: a member's attendance and the    *)
(* activity feed (a cursor of time and id), the user search (a cursor of   *)
(* the id alone), the admin lists (page numbers).  Rows keep arriving      *)
(* while a client walks.                                                   *)
(*                                                                         *)
(* The database keeps microseconds, a Date of the program milliseconds:    *)
(* Fine database ticks make one tick of a Date.                            *)
(***************************************************************************)
EXTENDS Naturals, FiniteSets, Sequences, SequencesExt

CONSTANTS
  Id,          \* uuids of rows; 0 stands for no row
  Reader,      \* clients that walk a list
  PageLimit,   \* the limit a client asks for
  Fine,        \* ticks of the database in one tick of a Date
  MaxClock     \* bound: ticks of the database

PagingAssumption ==
  /\ Id \subseteq Nat \ {0}
  /\ {PageLimit, Fine, MaxClock} \subseteq Nat \ {0}

VARIABLES
  rows,    \* the table: records of id and createdAt
  clock,   \* time in ticks of the database
  walk     \* per reader: the list, what was shown, and where it stands

vars == <<rows, clock, walk>>

Lists == {"attendance", "activity", "search", "offset"}
NoCursor == [id |-> 0, at |-> 0]
Idle == [list |-> "none", state |-> "idle", shown |-> <<>>, known |-> {}, cursor |-> NoCursor, page |-> 0]

Init ==
  /\ rows = {}
  /\ clock = 0
  /\ walk = [c \in Reader |-> Idle]

(* A row is written with the time of the database and a random uuid *)
AddRow(id) ==
  /\ \A row \in rows : row.id /= id
  /\ rows' = rows \union {[id |-> id, at |-> clock]}
  /\ UNCHANGED <<clock, walk>>

Tick ==
  /\ clock < MaxClock
  /\ clock' = clock + 1
  /\ UNCHANGED <<rows, walk>>

(* What a Date keeps of a time of the database *)
Milli(at) == (at \div Fine) * Fine

(* timestamp DESC, id DESC *)
Newer(a, b) == a.at > b.at \/ (a.at = b.at /\ a.id > b.id)

(* createdAt DESC, id ASC *)
SearchBefore(a, b) == a.at > b.at \/ (a.at = b.at /\ a.id < b.id)

(* The cursor of the last row shown: its time as a Date, and its id *)
EncodeCursor(row) == [id |-> row.id, at |-> Milli(row.at)]

(* The rows after a cursor *)
AfterCursor(row, cursor) == \/ row.at < cursor.at
                            \/ row.at = cursor.at /\ row.id < cursor.id

(* One row more than the limit is fetched, to know whether more follow *)
FetchShort(limit) == limit
Fetch(limit) == limit + 1

Shown(found, limit) == SubSeq(found, 1, IF Len(found) > limit THEN limit ELSE Len(found))
HasMore(found, limit) == Len(found) > limit

(* The client of c gets the page made of the rows of from in the order    *)
(* before; the next page starts after the cursor of the last row.         *)
Give(c, from, before(_, _), cursorOf(_)) ==
  LET found == SetToSortSeq(from, before)
      taken == Shown(found, Fetch(PageLimit))
      page == Shown(taken, PageLimit)
      more == HasMore(taken, PageLimit)
  IN walk' = [walk EXCEPT ![c] = [@ EXCEPT
        !.shown = @ \o page,
        !.page = @ + 1,
        !.state = IF more THEN "open" ELSE "end",
        !.cursor = IF more THEN cursorOf(Last(page)) ELSE NoCursor]]

(* A client starts at the first page of a list *)
StartWalk(c, list) ==
  /\ walk[c] = Idle
  /\ rows /= {}
  /\ walk' = [walk EXCEPT ![c] = [Idle EXCEPT !.list = list, !.state = "open", !.known = rows]]
  /\ UNCHANGED <<rows, clock>>

(* GET /attendance/my: with no cursor the newest rows, with one what follows *)
GetMyAttendance(c) ==
  /\ walk[c].list = "attendance" /\ walk[c].state = "open"
  /\ LET from == IF walk[c].cursor = NoCursor THEN rows
                 ELSE {row \in rows : AfterCursor(row, walk[c].cursor)}
     IN Give(c, from, Newer, EncodeCursor)
  /\ UNCHANGED <<rows, clock>>

(* GET /dashboard/activity: the cursor is time ':' id, split at every      *)
(* colon.  The time has colons of its own: what comes back is cut after    *)
(* the hour, no valid Date, and the query fails.                           *)
GetActivity(c) ==
  /\ walk[c].list = "activity" /\ walk[c].state = "open"
  /\ IF walk[c].cursor = NoCursor
     THEN Give(c, rows, Newer, EncodeCursor)
     ELSE walk' = [walk EXCEPT ![c].state = "failed"]
  /\ UNCHANGED <<rows, clock>>

(* GET /users/search: ordered by creation, continued by id *)
IdCursor(row) == [id |-> row.id, at |-> 0]
Search(c) ==
  /\ walk[c].list = "search" /\ walk[c].state = "open"
  /\ LET from == IF walk[c].cursor = NoCursor THEN rows
                 ELSE {row \in rows : row.id > walk[c].cursor.id}
     IN Give(c, from, SearchBefore, IdCursor)
  /\ UNCHANGED <<rows, clock>>

(* The lists by page number: skip what the earlier pages held; rows of one *)
(* time come in any order.                                                 *)
Pages(total) == (total + PageLimit - 1) \div PageLimit
Orders == {order \in SetToSeqs(rows) : \A i, j \in 1..Len(order) : i < j => order[i].at >= order[j].at}
GetPage(c) ==
  /\ walk[c].list = "offset" /\ walk[c].state = "open"
  /\ LET skip == walk[c].page * PageLimit IN
     \E order \in Orders :
       walk' = [walk EXCEPT ![c] = [@ EXCEPT
          !.shown = @ \o Shown(SubSeq(order, skip + 1, Len(order)), PageLimit),
          !.page = @ + 1,
          !.state = IF walk[c].page + 1 >= Pages(Cardinality(rows)) THEN "end" ELSE "open"]]
  /\ UNCHANGED <<rows, clock>>

Next ==
  \/ \E id \in Id : AddRow(id)
  \/ Tick
  \/ \E c \in Reader :
       \/ \E list \in Lists : StartWalk(c, list)
       \/ GetMyAttendance(c)
       \/ GetActivity(c)
       \/ Search(c)
       \/ GetPage(c)

Spec == Init /\ [][Next]_vars

-----------------------------------------------------------------------------
Row == [id : Id \union {0}, at : 0..MaxClock]

(* Type correctness of the table and the walks *)
TypeOK ==
  /\ rows \subseteq Row
  /\ clock \in 0..MaxClock
  /\ \A c \in Reader :
       /\ walk[c].state \in {"idle", "open", "end", "failed"}
       /\ walk[c].cursor \in Row
       /\ \A i \in 1..Len(walk[c].shown) : walk[c].shown[i] \in Row

SeenBy(c) == ToSet(walk[c].shown)

(* A member who walks to the end of the own attendance sees no row twice,  *)
(* in the order of the table, and of the rows that were there at the start *)
(* misses none but those of the same millisecond as a row that ended a     *)
(* page: arrivals in between never make the walk skip or repeat.           *)
WalkExact ==
  \A c \in Reader : walk[c].list = "attendance" =>
    LET shown == walk[c].shown IN
    /\ \A i, j \in 1..Len(shown) : i < j => Newer(shown[i], shown[j])
    /\ walk[c].state = "end" =>
         \A row \in walk[c].known : row \in SeenBy(c) \/ \E seen \in SeenBy(c) :
            seen /= row /\ Milli(seen.at) = Milli(row.at)

(* What the test of the cursor says: sub-millisecond precision preserved,  *)
(* a walk to the end sees every row that was there at the start.           *)
WalkComplete ==
  \A c \in Reader :
    walk[c].list = "attendance" /\ walk[c].state = "end" => walk[c].known \subseteq SeenBy(c)

(* The search is cursor-based: a walk to the end finds every user *)
SearchComplete ==
  \A c \in Reader :
    walk[c].list = "search" /\ walk[c].state = "end" => walk[c].known \subseteq SeenBy(c)

(* A walk of the activity feed gets to its end *)
ActivityReadable == \A c \in Reader : walk[c].state /= "failed"
=============================================================================
