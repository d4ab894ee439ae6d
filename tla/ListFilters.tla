---------------------------- MODULE ListFilters ----------------------------
(***************************************************************************)
(* The list of workspaces in the web client.  The filters live in the URL: *)
(* a handler builds the next ones from those of the last render and asks   *)
(* the router to replace the URL, which happens later.  The search term    *)
(* goes through a debounce; what comes out of it, with the other filters,  *)
(* is the key of a query, and rows of an earlier key stay on the page      *)
(* until those of the new one have come.                                   *)
(***************************************************************************)
EXTENDS Integers, Sequences, FiniteSets

CONSTANTS
  Kind,       \* the workspace types one can choose
  Term,       \* search terms, as sequences of characters
  None,       \* a filter that is not set, no rows, no navigation
  MaxVisit    \* bound: how often the page is opened

VARIABLES
  url,        \* the filters the page was last rendered with
  nav,        \* where the router is going
  debounced,  \* the search term after the debounce
  cached,     \* per key, the request whose rows the cache holds
  fetching,   \* per key, the request of the fetch under way
  failed,     \* the keys whose last fetch failed
  shown,      \* the request whose rows are on the page
  visits

vars == <<url, nav, debounced, cached, fetching, failed, shown, visits>>

NoTerm == <<>>
Default == [kind |-> None, search |-> NoTerm]
Filters == [kind : Kind \cup {None}, search : Term \cup {NoTerm}]

ListFiltersAssumption == None \notin Kind \cup Term \cup Filters

\* The parameters of a URL, whose kind may be anything: what is not allowed is dropped.
Parse(raw) == [raw EXCEPT !.kind = IF @ \in Kind THEN @ ELSE None]

-----------------------------------------------------------------------------
(* The query *)

EffectiveSearch(term) == IF Len(term) >= 2 THEN term ELSE NoTerm

\* What is asked of the server for the filters f, once the term has settled on term.
Request(f, term) == [kind |-> f.kind, search |-> EffectiveSearch(term)]

\* Mutant of QueryKey: the key leaves the search out.
QueryKeyNoSearch(request) == [request EXCEPT !.search = NoTerm]

QueryKey(request) == request

Asked == QueryKey(Request(url, debounced))

\* A fetch joins the one under way; without rows in the cache it begins afresh.
Fetch(request) ==
  LET key == QueryKey(request) IN
  /\ fetching' = [fetching EXCEPT ![key] = IF @ = None THEN request ELSE @]
  /\ failed' = IF cached[key] = None THEN failed \ {key} ELSE failed

\* The page is rendered with the filters f and the term: the observer turns to their
\* key, shows what the cache holds, and fetches.
Observe(f, term) ==
  LET request == Request(f, term)
      rows == cached[QueryKey(request)]
  IN
  /\ url' = f /\ debounced' = term
  /\ IF QueryKey(request) = Asked THEN UNCHANGED <<fetching, failed, shown>>
     ELSE Fetch(request) /\ shown' = IF rows = None THEN shown ELSE rows

Init ==
  /\ \E raw \in [kind : Kind \cup {None, "bogus"}, search : {NoTerm} \cup Term] :
       url = Parse(raw) /\ debounced = raw.search
  /\ nav = None /\ visits = 1
  /\ cached = [key \in Filters |-> None] /\ failed = {} /\ shown = None
  /\ fetching = [[key \in Filters |-> None] EXCEPT ![Asked] = Request(url, debounced)]

\* Until there are rows the page is a skeleton, and when the fetch failed a message.
Ready == shown # None /\ Asked \notin failed

Answer(key) ==
  /\ fetching[key] # None
  /\ fetching' = [fetching EXCEPT ![key] = None] /\ failed' = failed \ {key}
  /\ cached' = [cached EXCEPT ![key] = fetching[key]]
  /\ shown' = IF key = Asked THEN fetching[key] ELSE shown
  /\ UNCHANGED <<url, nav, debounced, visits>>

\* The retries are used up.
FetchFails(key) ==
  /\ fetching[key] # None
  /\ fetching' = [fetching EXCEPT ![key] = None] /\ failed' = failed \cup {key}
  /\ UNCHANGED <<url, nav, debounced, cached, shown, visits>>

\* Coming back to the window fetches again.
Focus ==
  /\ fetching[Asked] = None
  /\ Fetch(Request(url, debounced))
  /\ UNCHANGED <<url, nav, debounced, cached, shown, visits>>

-----------------------------------------------------------------------------
(* The filters *)

Replace(next) ==
  /\ nav' = next
  /\ UNCHANGED <<url, debounced, cached, fetching, failed, shown, visits>>

\* The list of kinds: the search term comes from the URL.
HandleFiltersChange(kind) == Ready /\ Replace([url EXCEPT !.kind = kind])

HandleSearchChange(term) == Ready /\ Replace([url EXCEPT !.search = term])

\* "Clear Filters" calls the two handlers, and both begin from the same render.
HandleClearAll == Ready /\ Replace([url EXCEPT !.search = NoTerm])

Navigate ==
  /\ nav # None
  /\ nav' = None
  /\ Observe(nav, debounced)
  /\ UNCHANGED <<cached, visits>>

DebounceFires ==
  /\ debounced # url.search
  /\ Observe(url, url.search)
  /\ UNCHANGED <<nav, cached, visits>>

\* The page is left and opened from the start; the cache and its fetches remain.
Revisit ==
  /\ visits < MaxVisit /\ visits' = visits + 1
  /\ nav' = None /\ url' = Default /\ debounced' = NoTerm
  /\ Fetch(Request(Default, NoTerm))
  /\ shown' = cached[QueryKey(Request(Default, NoTerm))]
  /\ UNCHANGED cached

Next ==
  \/ \E key \in Filters : Answer(key) \/ FetchFails(key)
  \/ \E kind \in Kind \cup {None} : HandleFiltersChange(kind)
  \/ \E term \in Term \cup {NoTerm} : HandleSearchChange(term)
  \/ HandleClearAll \/ Navigate \/ DebounceFires \/ Focus \/ Revisit

Spec == Init /\ [][Next]_vars

TypeOK ==
  /\ url \in Filters /\ debounced \in Term \cup {NoTerm}
  /\ nav \in Filters \cup {None}
  /\ {cached, fetching} \subseteq [Filters -> Filters \cup {None}]
  /\ failed \subseteq Filters
  /\ shown \in Filters \cup {None}

\* Whatever order the answers come in: once the URL, the debounce and the fetch have
\* settled, the rows on the page are those of the filters in the URL.
ShownIsAsked ==
  nav = None /\ debounced = url.search /\ fetching[Asked] = None /\ Ready =>
    shown = Request(url, url.search)

\* "Clear Filters" clears the filters (the label of the button, WorkspaceFilters.tsx:145).
ClearClears == [][HandleClearAll => nav' = Default]_vars

\* "single-character inputs keep the previous data visible without making a network
\* request" (useWorkspaces.ts:26).
OneCharacterIsQuiet ==
  [][Len(debounced') = 1 /\ debounced' # debounced => fetching' = fetching /\ shown' = shown]_vars
=============================================================================
