------------------------------- MODULE Inbox --------------------------------
(***************************************************************************)
(* What strangers and members send in and get sent: the newsletter, whose  *)
(* requests read a row, think, and save it; the contact form with its spam *)
(* score; the notification gateway with a room per user.                   *)
(***************************************************************************)
EXTENDS Naturals, FiniteSets, Sequences, FiniteSetsExt

CONSTANTS
  Email,       \* addresses that subscribe
  Request,     \* requests of the newsletter under way at once
  MaxRow,      \* bound: subscriptions ever made
  Address,     \* IP addresses that write to us
  Submission,  \* contact submissions
  User,        \* users with a room
  Socket,      \* connections of the gateway
  Keyword      \* spam keywords an admin may enter

InboxAssumption == MaxRow \in Nat

VARIABLES
  subscribers,  \* newsletter_subscribers: id -> its row; the two tokens go with the id
  nextRow,      \* the next id
  request,      \* per request: what it does and the copy it works on
  messages,     \* contact_messages: submission -> its row
  score,        \* per submission under way: the score it was given
  keywords,     \* spam_keywords: keyword -> [active, weight]
  room,         \* per socket: the room it joined
  inbox         \* per socket: events emitted to it

newsletterVars == <<subscribers, nextRow, request>>
contactVars == <<messages, score, keywords>>
gatewayVars == <<room, inbox>>
vars == <<newsletterVars, contactVars, gatewayVars>>

Idle == [op |-> "none", id |-> 0, email |-> "none"]
Gone == [email |-> "none", isConfirmed |-> FALSE]
Absent == [status |-> "absent", address |-> "none", recent |-> FALSE]
Offline == "offline"

Init ==
  /\ subscribers = [id \in 1..MaxRow |-> Gone]
  /\ nextRow = 1
  /\ request = [r \in Request |-> Idle]
  /\ messages = [s \in Submission |-> Absent]
  /\ score = [s \in Submission |-> 0]
  /\ keywords = [k \in Keyword |-> [isActive |-> FALSE, weight |-> 0]]
  /\ room = [s \in Socket |-> Offline]
  /\ inbox = [s \in Socket |-> {}]

-----------------------------------------------------------------------------
(* The newsletter *)

Rows == {id \in 1..MaxRow : subscribers[id] /= Gone}
RowsOf(email) == {id \in Rows : subscribers[id].email = email}

(* The column email is unique *)
AddressFreeAlways(id, email) == TRUE
AddressFree(id, email) == RowsOf(email) \subseteq {id}

(* subscribe(): nobody has the address *)
StartSubscribe(r, email) ==
  /\ request[r] = Idle
  /\ request' = [request EXCEPT ![r] =
       IF RowsOf(email) = {} THEN [op |-> "subscribe", id |-> 0, email |-> email] ELSE Idle]
  /\ UNCHANGED <<subscribers, nextRow, contactVars, gatewayVars>>

(* The row is inserted; the unique column refuses an address taken since *)
InsertSubscriber(r) ==
  /\ request[r].op = "subscribe" /\ nextRow <= MaxRow
  /\ IF AddressFree(nextRow, request[r].email)
     THEN /\ subscribers' = [subscribers EXCEPT ![nextRow] = [email |-> request[r].email, isConfirmed |-> FALSE]]
          /\ nextRow' = nextRow + 1
     ELSE UNCHANGED <<subscribers, nextRow>>
  /\ request' = [request EXCEPT ![r] = Idle]
  /\ UNCHANGED <<contactVars, gatewayVars>>

(* confirm(): the row of the token, unless it is confirmed already *)
StartConfirm(r, id) ==
  /\ request[r] = Idle /\ id \in Rows
  /\ ~subscribers[id].isConfirmed
  /\ request' = [request EXCEPT ![r] = [op |-> "confirm", id |-> id, email |-> subscribers[id].email]]
  /\ UNCHANGED <<subscribers, nextRow, contactVars, gatewayVars>>

(* The copy is saved: a row deleted since is inserted again, unless its    *)
(* address has another row by now.                                         *)
SaveConfirmed(r) ==
  /\ request[r].op = "confirm"
  /\ LET copy == request[r] IN
     subscribers' = IF AddressFree(copy.id, copy.email)
                    THEN [subscribers EXCEPT ![copy.id] = [email |-> copy.email, isConfirmed |-> TRUE]]
                    ELSE subscribers
  /\ request' = [request EXCEPT ![r] = Idle]
  /\ UNCHANGED <<nextRow, contactVars, gatewayVars>>

(* unsubscribe(): the row of the token is looked up and deleted by its id *)
Unsubscribe(id) ==
  /\ id \in Rows
  /\ subscribers' = [subscribers EXCEPT ![id] = Gone]
  /\ UNCHANGED <<nextRow, request, contactVars, gatewayVars>>

(* listSubscribers() shows the confirmed ones *)
ListSubscribers == {subscribers[id].email : id \in {i \in Rows : subscribers[i].isConfirmed}}

-----------------------------------------------------------------------------
(* The contact form; scores in hundredths *)

Threshold == 70
IsSpam(points) == points > Threshold

Least(a, b) == IF a < b THEN a ELSE b

UrlPoints(urls) ==
  IF urls >= 5 THEN Least(40, urls * 8) ELSE IF urls >= 2 THEN urls * 5 ELSE 0

LengthPoints(length) ==
  CASE length = "short" -> 15 [] length = "long" -> 10 [] OTHER -> 0

RepeatPoints(runs) == Least(20, runs * 5)

VelocityPoints(count) == IF count >= 3 THEN 30 ELSE count * 5

ActiveKeywords == {k \in Keyword : keywords[k].isActive}

RecentFrom(address) == Cardinality({s \in Submission : messages[s].address = address /\ messages[s].recent})

(* analyse(): the five parts of the score, clamped at one *)
Analyse(text, address) ==
  Least(100, UrlPoints(text.urls)
             + MapThenSumSet(LAMBDA k : keywords[k].weight, text.keywords \intersect ActiveKeywords)
             + LengthPoints(text.length)
             + RepeatPoints(text.runs)
             + VelocityPoints(RecentFrom(address)))

Texts == [urls : {0, 5}, keywords : SUBSET Keyword, length : {"short", "normal"}, runs : {0}]

(* submitContact(): scored, and saved later *)
AnalyseContact(s, text, address) ==
  /\ messages[s] = Absent
  /\ messages' = [messages EXCEPT ![s] = [status |-> "scored", address |-> address, recent |-> FALSE]]
  /\ score' = [score EXCEPT ![s] = Analyse(text, address)]
  /\ UNCHANGED <<keywords, newsletterVars, gatewayVars>>

SaveContact(s) ==
  /\ messages[s].status = "scored"
  /\ messages' = [messages EXCEPT ![s].status = IF IsSpam(score[s]) THEN "flagged" ELSE "pending", ![s].recent = TRUE]
  /\ UNCHANGED <<score, keywords, newsletterVars, gatewayVars>>

(* Ten minutes pass: earlier messages no longer count *)
WindowPasses ==
  /\ \E s \in Submission : messages[s].recent
  /\ messages' = [s \in Submission |-> [messages[s] EXCEPT !.recent = FALSE]]
  /\ UNCHANGED <<score, keywords, newsletterVars, gatewayVars>>

(* getMessages(): the status asked for, the pending ones by default *)
GetMessages(status) ==
  {s \in Submission : messages[s].status = IF status = "any" THEN "pending" ELSE status}

AddKeyword(k, weight) ==
  /\ keywords' = [keywords EXCEPT ![k] = [isActive |-> TRUE, weight |-> weight]]
  /\ UNCHANGED <<messages, score, newsletterVars, gatewayVars>>

RemoveKeyword(k) ==
  /\ keywords' = [keywords EXCEPT ![k] = [isActive |-> FALSE, weight |-> 0]]
  /\ UNCHANGED <<messages, score, newsletterVars, gatewayVars>>

-----------------------------------------------------------------------------
(* The notification gateway *)

(* A connection with a good token joins the room of its user, any other is cut *)
HandleConnection(s, u) ==
  /\ room[s] = Offline
  /\ room' = [room EXCEPT ![s] = u]
  /\ UNCHANGED <<inbox, newsletterVars, contactVars>>

HandleDisconnect(s) ==
  /\ room[s] /= Offline
  /\ room' = [room EXCEPT ![s] = Offline]
  /\ inbox' = [inbox EXCEPT ![s] = {}]
  /\ UNCHANGED <<newsletterVars, contactVars>>

SendToUser(u) ==
  /\ inbox' = [s \in Socket |-> IF room[s] = u THEN inbox[s] \union {u} ELSE inbox[s]]
  /\ UNCHANGED <<room, newsletterVars, contactVars>>

SendToAll ==
  /\ inbox' = [s \in Socket |-> IF room[s] /= Offline THEN inbox[s] \union {"all"} ELSE inbox[s]]
  /\ UNCHANGED <<room, newsletterVars, contactVars>>

Next ==
  \/ \E r \in Request :
       \/ \E email \in Email : StartSubscribe(r, email)
       \/ InsertSubscriber(r)
       \/ \E id \in 1..MaxRow : StartConfirm(r, id)
       \/ SaveConfirmed(r)
  \/ \E id \in 1..MaxRow : Unsubscribe(id)
  \/ \E s \in Submission :
       \/ \E text \in Texts, address \in Address : AnalyseContact(s, text, address)
       \/ SaveContact(s)
  \/ WindowPasses
  \/ \E k \in Keyword : AddKeyword(k, 40) \/ RemoveKeyword(k)
  \/ \E s \in Socket :
       \/ \E u \in User : HandleConnection(s, u)
       \/ HandleDisconnect(s)
  \/ \E u \in User : SendToUser(u)
  \/ SendToAll

Spec == Init /\ [][Next]_vars

-----------------------------------------------------------------------------
(* Type correctness of the tables, and the unique column of the addresses *)
TypeOK ==
  /\ \A id \in 1..MaxRow : subscribers[id].email \in Email \union {"none"}
  /\ \A s \in Submission : messages[s].status \in {"absent", "scored", "pending", "flagged"} /\ score[s] \in 0..100
  /\ \A s \in Socket : room[s] \in User \union {Offline}

(* One address, one row: two subscriptions that found nobody, and a        *)
(* confirmation that brings its deleted row back, do not make two.         *)
OneRowPerAddress == \A email \in Email : Cardinality(RowsOf(email)) <= 1

(* "You have successfully unsubscribed": the row of an unsubscribed token  *)
(* does not come back.                                                     *)
UnsubscribedStays ==
  [][\A id \in 1..MaxRow : id < nextRow /\ subscribers[id] = Gone => subscribers'[id] = Gone]_vars

(* The list of messages that are not flagged holds every one of them *)
DefaultShowsUnflagged ==
  \A s \in Submission : messages[s].status \in {"pending", "reviewed", "resolved"} => s \in GetMessages("any")
=============================================================================
