---------------------------- MODULE Preferences ----------------------------
(***************************************************************************)
(* The newsletter preferences page: a form over what a query has cached,   *)
(* saved and unsubscribed by two mutations.  Whatever the query or a       *)
(* mutation reports makes the page render again, and every rendering hands *)
(* the form a new object of preferences, to which the form is reset.       *)
(***************************************************************************)
EXTENDS Naturals, FiniteSets

CONSTANTS
  Topic,
  None,        \* nothing cached
  MaxElse      \* bound: changes made through another copy of the link

Prefs == [Topic -> BOOLEAN]
PreferencesAssumption == None \notin Prefs /\ MaxElse \in Nat

VARIABLES
  server,      \* what the service holds
  data,        \* what the query has cached, or None
  isError,     \* the query's last attempt failed
  fetch,       \* the read under way: how far it is, and the answer
  save,        \* the save under way: how far it is, what it changes, what the form held
  unsubscribe, \* "idle", "sent", "done": isUnsubscribed
  form,        \* the values of the boxes and those of the last reset
  due,         \* the page is to render
  shown,       \* the view it rendered last
  told,        \* what the service last told this page, by an answer to a read or to a save
  elsewhere    \* changes made elsewhere

vars == <<server, data, isError, fetch, save, unsubscribe, form, due, shown, told, elsewhere>>

NoRead == [at |-> "idle", answer |-> None]
ReadSent == [at |-> "sent", answer |-> None]
NoSave == [at |-> "idle"]

Reset(values) == [values |-> values, defaults |-> values]
AllTrue == [t \in Topic |-> TRUE]

Init ==
  /\ server \in Prefs
  /\ data = None /\ isError = FALSE /\ fetch = ReadSent
  /\ save = NoSave /\ unsubscribe = "idle"
  /\ form = Reset(AllTrue)
  /\ due = FALSE /\ shown = "loading" /\ told = None /\ elsewhere = 0

dirtyFields == {t \in Topic : form.values[t] # form.defaults[t]}
isSaving == save.at # "idle"

-----------------------------------------------------------------------------
(* Rendering *)

View ==
  IF isError THEN "invalid"
  ELSE IF unsubscribe = "done" THEN "unsubscribed"
  ELSE IF data = None THEN "loading" ELSE "form"

Render ==
  /\ due
  /\ due' = FALSE /\ shown' = View
  /\ form' = IF View = "form" THEN Reset(data) ELSE form
  /\ UNCHANGED <<server, data, isError, fetch, save, unsubscribe, told, elsewhere>>

-----------------------------------------------------------------------------
(* The query *)

\* The window is focused: what is cached is stale at once.  Without anything cached the
\* failure of the last attempt is forgotten.
Refetch ==
  /\ fetch = NoRead
  /\ fetch' = ReadSent
  /\ isError' = (isError /\ data # None)
  /\ due' = (due \/ isError # isError')
  /\ UNCHANGED <<server, data, save, unsubscribe, form, shown, told, elsewhere>>

\* The service answers, or no longer knows the link of someone who unsubscribed.
ServerReads ==
  /\ fetch.at = "sent"
  /\ \/ fetch' = [at |-> "answered", answer |-> server]
     \/ unsubscribe = "done" /\ fetch' = [at |-> "refused", answer |-> None]
  /\ UNCHANGED <<server, data, isError, save, unsubscribe, form, due, shown, told, elsewhere>>

Fetched ==
  /\ fetch.at = "answered"
  /\ data' = fetch.answer /\ told' = fetch.answer
  /\ isError' = FALSE /\ fetch' = NoRead
  /\ due' = (due \/ data # data' \/ isError)
  /\ UNCHANGED <<server, save, unsubscribe, form, shown, elsewhere>>

\* retry: false
FetchFails ==
  /\ fetch # NoRead
  /\ fetch' = NoRead /\ isError' = TRUE
  /\ due' = (due \/ ~isError)
  /\ UNCHANGED <<server, data, save, unsubscribe, form, shown, told, elsewhere>>

-----------------------------------------------------------------------------
(* The form *)

Toggle(t) ==
  /\ shown = "form" /\ ~due
  /\ form' = [form EXCEPT !.values[t] = ~@]
  /\ UNCHANGED <<server, data, isError, fetch, save, unsubscribe, due, shown, told, elsewhere>>

\* Mutant of Changed: every box is sent.
ChangedAll == Topic

Changed == dirtyFields

\* onSubmit, up to its await.  The mutation renders the page.
Submit ==
  /\ shown = "form" /\ ~due /\ dirtyFields # {} /\ ~isSaving
  /\ save' = [at |-> "sent", changed |-> [t \in Changed |-> form.values[t]],
              values |-> form.values, loaded |-> form.defaults]
  /\ due' = TRUE
  /\ UNCHANGED <<server, data, isError, fetch, unsubscribe, form, shown, told, elsewhere>>

Merge(prefs, changed) == [t \in Topic |-> IF t \in DOMAIN changed THEN changed[t] ELSE prefs[t]]

ServerSaves ==
  /\ save.at = "sent"
  /\ server' = Merge(server, save.changed)
  /\ save' = [save EXCEPT !.at = "applied"]
  /\ UNCHANGED <<data, isError, fetch, unsubscribe, form, due, shown, told, elsewhere>>

\* Mutant of Invalidated: the query is left alone.
InvalidatedNot == fetch

\* invalidateQueries: what is under way is given up and asked for again.
Invalidated == ReadSent

\* The query is invalidated, the form reset to what was submitted, then the page renders.
Saved ==
  /\ save.at = "applied"
  /\ save' = NoSave /\ fetch' = Invalidated
  /\ form' = Reset(save.values)
  /\ told' = Merge(told, save.changed)
  /\ isError' = (isError /\ data # None)
  /\ due' = TRUE
  /\ UNCHANGED <<server, data, unsubscribe, shown, elsewhere>>

\* onSubmit ends with the error; nothing is reset but by the rendering.
SaveFails ==
  /\ isSaving
  /\ save' = NoSave /\ due' = TRUE
  /\ UNCHANGED <<server, data, isError, fetch, unsubscribe, form, shown, told, elsewhere>>

-----------------------------------------------------------------------------
Unsubscribe ==
  /\ shown = "form" /\ ~due /\ unsubscribe = "idle" /\ ~isSaving
  /\ unsubscribe' = "sent" /\ due' = TRUE
  /\ UNCHANGED <<server, data, isError, fetch, save, form, shown, told, elsewhere>>

\* The cached preferences are removed: the rendering that follows asks for them again.
Unsubscribed ==
  /\ unsubscribe = "sent"
  /\ unsubscribe' = "done"
  /\ data' = None /\ isError' = FALSE /\ fetch' = ReadSent /\ due' = TRUE
  /\ UNCHANGED <<server, save, form, shown, told, elsewhere>>

UnsubscribeFails ==
  /\ unsubscribe = "sent"
  /\ unsubscribe' = "idle" /\ due' = TRUE
  /\ UNCHANGED <<server, data, isError, fetch, save, form, shown, told, elsewhere>>

\* The same link is open on another device.
ChangedElsewhere(t) ==
  /\ elsewhere < MaxElse
  /\ elsewhere' = elsewhere + 1
  /\ server' = [server EXCEPT ![t] = ~@]
  /\ UNCHANGED <<data, isError, fetch, save, unsubscribe, form, due, shown, told>>

Next ==
  \/ Render \/ Refetch \/ ServerReads \/ Fetched \/ FetchFails
  \/ \E t \in Topic : Toggle(t) \/ ChangedElsewhere(t)
  \/ Submit \/ ServerSaves \/ Saved \/ SaveFails
  \/ Unsubscribe \/ Unsubscribed \/ UnsubscribeFails

Spec == Init /\ [][Next]_vars

TypeOK ==
  /\ server \in Prefs /\ data \in Prefs \cup {None} /\ isError \in BOOLEAN
  /\ due \in BOOLEAN /\ shown \in {"loading", "form", "invalid", "unsubscribed"}
  /\ unsubscribe \in {"idle", "sent", "done"} /\ elsewhere \in 0 .. MaxElse
  /\ form \in [values : Prefs, defaults : Prefs]

-----------------------------------------------------------------------------
Quiet == fetch = NoRead /\ ~isSaving /\ unsubscribe = "idle" /\ ~due

\* NewsletterPreferences.tsx:83-112: once nothing is under way, a form without unsaved
\* changes shows what the service told last, be it an answer to the query or to a save
\* that rendered the page with what was cached before it.
SettledShowsSaved == (Quiet /\ shown = "form" /\ dirtyFields = {}) => form.values = told

\* NewsletterPreferences.tsx:99 "Only send changed fields": a save undoes nothing that was
\* changed elsewhere on a box left as it was loaded.
OthersKept ==
  [][(save.at = "sent" /\ save'.at = "applied") =>
       \A t \in Topic : save.values[t] = save.loaded[t] => server'[t] = server[t]]_vars

\* NewsletterPreferences.tsx:83 "Reset form when initialPreferences change": what the user
\* ticked stays while the cached preferences do not change.
TicksStay ==
  [][(due /\ ~due' /\ shown = "form" /\ shown' = "form" /\ data = form.defaults) =>
       form'.values = form.values]_vars

\* preferences/page.tsx:41 "Unsubscribed confirmation screen".
ConfirmationStays == [][shown = "unsubscribed" => shown' = "unsubscribed"]_vars
=============================================================================
