------------------------------ MODULE Widgets ------------------------------
(***************************************************************************)
(* The widgets of the dashboard that poll: each has its own instance of    *)
(* the polling hook, a query, and an error boundary around it.  A query    *)
(* that has failed makes the widget throw while it renders; the boundary   *)
(* takes it away, and with it the polling, until "Try Again" renders it    *)
(* anew.  The chart reports success to the hook while it renders.  The     *)
(* error count of a hook stays 0: a widget that failed is gone before the  *)
(* effect that would count it, and nobody reports to the hook of the page. *)
(***************************************************************************)
EXTENDS Integers, FiniteSets

CONSTANTS
  Plain,       \* widgets that report to the hook in an effect, or not at all
  Shared,      \* those of Plain whose query the header observes as well
  Chart        \* widgets that report while they render

WidgetsAssumption == Plain \cap Chart = {} /\ Shared \subseteq Plain

VARIABLES
  hidden,      \* document.visibilityState
  paused,      \* per widget, isVisibilityPaused of its hook
  caught,      \* per widget, hasError of its boundary
  query        \* per widget: status, whether the cache holds data, whether it fetches

vars == <<hidden, paused, caught, query>>

Widget == Plain \cup Chart
New == [status |-> "pending", data |-> FALSE, fetching |-> FALSE]

\* A widget cannot render a failed query; the chart cannot render an answer either:
\* the state it sets while it renders makes React render it again, without end.
Throws(w, q) == q.status = "error" \/ (w \in Chart /\ q.data)

Init ==
  /\ hidden \in BOOLEAN
  /\ paused = [w \in Widget |-> hidden] /\ caught = [w \in Widget |-> FALSE]
  /\ query = [w \in Widget |-> [New EXCEPT !.fetching = TRUE]]

\* Mutant of PausedNow: the handler only ever pauses.
PausedOnce(w, isHidden) == paused[w] \/ isHidden

\* What the handler sets, once the document's visibility is isHidden.
PausedNow(w, isHidden) == isHidden

\* The listeners of the mounted hooks run, and the query library fetches what is
\* observed when the page comes back.
VisibilityChange ==
  /\ hidden' = ~hidden
  /\ paused' = [w \in Widget |-> IF caught[w] THEN paused[w] ELSE PausedNow(w, ~hidden)]
  /\ query' = [w \in Widget |-> IF hidden /\ (~caught[w] \/ w \in Shared)
                                THEN [query[w] EXCEPT !.fetching = TRUE] ELSE query[w]]
  /\ UNCHANGED caught

\* refetchInterval has passed; without the focus the library does not poll either.
Poll(w) ==
  /\ ~caught[w] /\ ~paused[w] /\ ~hidden
  /\ query[w].status # "pending" /\ ~query[w].fetching
  /\ query' = [query EXCEPT ![w].fetching = TRUE]
  /\ UNCHANGED <<hidden, paused, caught>>

\* The answer, or the failure after the library's retries, and the render it sets off.
\* A fetch goes on when the widget is gone, and is then only cached.
Answer(w) ==
  /\ query[w].fetching
  /\ \E status \in {"success", "error"} :
       LET q == [status |-> status, data |-> query[w].data \/ status = "success", fetching |-> FALSE] IN
       /\ query' = [query EXCEPT ![w] = q]
       /\ caught' = [caught EXCEPT ![w] = @ \/ Throws(w, q)]
  /\ UNCHANGED <<hidden, paused>>

\* resetError of the boundary: the widget mounts with what the cache holds, and only
\* when it renders does its observer start a fetch.
TryAgain(w) ==
  /\ caught[w] /\ ~hidden
  /\ LET q == IF query[w].data THEN query[w] ELSE [New EXCEPT !.fetching = TRUE] IN
     IF Throws(w, q) THEN UNCHANGED <<paused, caught, query>>
     ELSE /\ caught' = [caught EXCEPT ![w] = FALSE]
          /\ paused' = [paused EXCEPT ![w] = hidden]
          /\ query' = [query EXCEPT ![w] = [q EXCEPT !.fetching = TRUE]]
  /\ UNCHANGED hidden

\* The cache forgets a query that nobody has observed for a while.
Collect(w) ==
  /\ caught[w] /\ w \notin Shared /\ ~query[w].fetching /\ query[w] # New
  /\ query' = [query EXCEPT ![w] = New]
  /\ UNCHANGED <<hidden, paused, caught>>

Next ==
  \/ VisibilityChange
  \/ \E w \in Widget : Poll(w) \/ Answer(w) \/ TryAgain(w) \/ Collect(w)

\* Requests are answered or time out, and the timers of a page that is seen run.
Fairness == \A w \in Widget : WF_vars(Poll(w)) /\ WF_vars(Answer(w))

Spec == Init /\ [][Next]_vars /\ Fairness

TypeOK ==
  /\ hidden \in BOOLEAN
  /\ {paused, caught} \subseteq [Widget -> BOOLEAN]
  /\ query \in [Widget -> [status : {"pending", "success", "error"}, data : BOOLEAN, fetching : BOOLEAN]]

\* A widget that is on the page and seen keeps asking for news: a pause ends with what
\* caused it, however often the page was hidden.
KeepsAsking ==
  \A w \in Widget : []<>(query[w].fetching \/ caught[w] \/ hidden)

\* The chart is shown once its data has come.
ChartShown == \A w \in Chart : query[w].status = "success" => ~caught[w]
=============================================================================
