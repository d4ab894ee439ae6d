------------------------------ MODULE Sessions ------------------------------
(***************************************************************************)
(* The sessions of signed-in users (backend/src/auth): access tokens,      *)
(* rows of refresh tokens, the blacklist and the CSRF tokens in the cache, *)
(* and the event streams of session-broadcast.service.ts.  A token's       *)
(* expiry is in seconds, the clock and the cache count in milliseconds,    *)
(* of which a second has Milli.                                            *)
(***************************************************************************)
EXTENDS Integers

CONSTANTS
    User,
    NoUser,             \* the subject of a client's token
    Client,             \* the connections that may hold an event stream
    Milli,              \* milliseconds of a second
    AccessLife,         \* seconds an access token lives
    RefreshLife,        \* and a refresh token
    MaxToken,           \* bound: tokens issued so far
    MaxClock            \* bound: milliseconds

SessionsAssumption ==
    /\ {Milli, AccessLife, RefreshLife, MaxToken} \subseteq Nat \ {0} /\ MaxClock \in Nat
    /\ NoUser \notin User

VARIABLES
    clock,
    issued,             \* tokens issued so far, which numbers them
    access,             \* access tokens
    refresh,            \* the rows of refresh_tokens
    blacklist,          \* blacklist:jti:<jti>, until when
    csrf,               \* the jtis that have a CSRF token
    subject,            \* the subject in the map of each user, or NoSubject
    subjects,           \* subjects created so far
    stream,             \* what each connection is subscribed to
    notified,           \* connections that got the event session-revoked
    renewed,            \* history: refreshes that succeeded
    loggedOut           \* history: tokens a logout with was completed

tokenVars == <<issued, access, refresh, blacklist, csrf, renewed, loggedOut>>
streamVars == <<subject, subjects, stream, notified>>
vars == <<clock, tokenVars, streamVars>>

NoSubject == 0
Closed == [user |-> NoUser, subject |-> NoSubject]
Never == 0

AccessToken == [id : 1 .. MaxToken, user : User \cup {NoUser}, jti : BOOLEAN, exp : Nat]
RefreshRow == [token : [hashed : BOOLEAN, n : 1 .. MaxToken], user : User, expiresAt : Nat,
               revoked : BOOLEAN, deleted : BOOLEAN]

Init ==
    /\ clock = 0 /\ issued = 0
    /\ access = {} /\ refresh = {} /\ csrf = {} /\ renewed = {} /\ loggedOut = {}
    /\ blacklist = [i \in 1 .. MaxToken |-> Never]
    /\ subject = [u \in User |-> NoSubject] /\ subjects = 0 /\ notified = {}
    /\ stream = [c \in Client |-> Closed]

-----------------------------------------------------------------------------
(* Tokens *)

\* Seconds since the epoch, rounded down, and the claim exp of a token issued now.
Seconds == clock \div Milli
SignAccessToken(u, jti) == [id |-> issued + 1, user |-> u, jti |-> jti, exp |-> Seconds + AccessLife]

Raw(n) == [hashed |-> FALSE, n |-> n]

\* bcrypt: salted, so that no token is equal to its hash.
HashRefreshToken(token) == [token EXCEPT !.hashed = TRUE]

CreateRow(u) ==
    [token |-> HashRefreshToken(Raw(issued + 1)), user |-> u,
     expiresAt |-> clock + RefreshLife * Milli, revoked |-> FALSE, deleted |-> FALSE]

FindByToken(token) == {row \in refresh : row.token = token /\ ~row.deleted}
RevokeAllUserTokens(u) ==
    {IF row.user = u THEN [row EXCEPT !.revoked = TRUE] ELSE row : row \in refresh}

IsBlacklisted(t) == blacklist[t.id] > clock

\* JwtStrategy: the library checks exp, validate the blacklist, if there is a jti.
Accepted(t) == Seconds < t.exp /\ ~(t.jti /\ IsBlacklisted(t))

\* Mutant of RemainingMs: both times are taken for seconds.
RemainingSeconds(exp) == exp - Seconds

RemainingMs(exp) == exp * Milli - clock

BlacklistToken(t) ==
    IF t.jti /\ RemainingMs(t.exp) > 0
    THEN [blacklist EXCEPT ![t.id] = clock + RemainingMs(t.exp)]
    ELSE blacklist

\* login and verifyOtp end with an access token and a row of a refresh token.
SignIn(u) ==
    /\ issued < MaxToken /\ issued' = issued + 1
    /\ refresh' = refresh \cup {CreateRow(u)}
    /\ access' = access \cup {SignAccessToken(u, TRUE)}
    /\ UNCHANGED <<clock, blacklist, csrf, renewed, loggedOut, streamVars>>

\* The tokens of a login with a passkey and of the OAuth endpoint have no jti, and no
\* refresh token goes with them.
SignInOnly(u) ==
    /\ issued < MaxToken /\ issued' = issued + 1
    /\ access' = access \cup {SignAccessToken(u, FALSE)}
    /\ UNCHANGED <<clock, refresh, blacklist, csrf, renewed, loggedOut, streamVars>>

\* The row a refresh finds for a token that was given out: it is looked up as it was sent.
Renewable(n) == {row \in FindByToken(Raw(n)) : ~row.revoked /\ clock <= row.expiresAt}

\* refresh revokes that row and creates another one.
Refresh(n) ==
    /\ issued < MaxToken
    /\ IF Renewable(n) = {}
       THEN UNCHANGED <<issued, access, refresh, renewed>>
       ELSE \E row \in Renewable(n) :
               /\ issued' = issued + 1
               /\ refresh' = (refresh \ {row}) \cup {[row EXCEPT !.revoked = TRUE], CreateRow(row.user)}
               /\ access' = access \cup {SignAccessToken(row.user, TRUE)}
               /\ renewed' = renewed \cup {n}
    /\ UNCHANGED <<clock, blacklist, csrf, loggedOut, streamVars>>

GetCsrfToken(t) ==
    /\ Accepted(t) /\ t.jti
    /\ csrf' = csrf \cup {t.id}
    /\ UNCHANGED <<clock, issued, access, refresh, blacklist, renewed, loggedOut, streamVars>>

\* An hour.
CsrfExpires(t) ==
    /\ t.id \in csrf /\ csrf' = csrf \ {t.id}
    /\ UNCHANGED <<clock, issued, access, refresh, blacklist, renewed, loggedOut, streamVars>>

\* The user is deleted: her rows are deleted softly, her access tokens stay.
RemoveSessions(u) ==
    /\ refresh' = {IF row.user = u THEN [row EXCEPT !.deleted = TRUE] ELSE row : row \in refresh}
    /\ UNCHANGED <<clock, issued, access, blacklist, csrf, renewed, loggedOut, streamVars>>

-----------------------------------------------------------------------------
(* Event streams *)

\* The open connections of one subject.
Subscribers(u) == {c \in Client : stream[c] = [user |-> u, subject |-> subject[u]]}

\* GET auth/session-events: getSessionEventStream and a subscription to it.
OpenStream(c, t) ==
    /\ stream[c] = Closed
    /\ Accepted(t) /\ t.user # NoUser
    /\ LET u == t.user
       IN  IF subject[u] = NoSubject
           THEN /\ subjects < MaxToken /\ subjects' = subjects + 1
                /\ subject' = [subject EXCEPT ![u] = subjects + 1]
                /\ stream' = [stream EXCEPT ![c] = [user |-> u, subject |-> subjects + 1]]
           ELSE /\ stream' = [stream EXCEPT ![c] = [user |-> u, subject |-> subject[u]]]
                /\ UNCHANGED <<subject, subjects>>
    /\ UNCHANGED <<clock, tokenVars, notified>>

\* Mutant of Completed: the subject leaves the map and its other subscribers stay.
CompletedOne(c) == {c}

\* complete() ends the stream of every connection of that user, whoever left.
Completed(c) == Subscribers(stream[c].user)

\* One connection closes: cleanupSessionStream.
CloseStream(c) ==
    /\ stream[c] # Closed
    /\ stream' = [d \in Client |-> IF d \in Completed(c) THEN Closed ELSE stream[d]]
    /\ subject' = [subject EXCEPT ![stream[c].user] = NoSubject]
    /\ notified' = notified \ Completed(c)
    /\ UNCHANGED <<clock, tokenVars, subjects>>

-----------------------------------------------------------------------------
(* Logging out *)

\* The three steps of logout, of which the first done ones happen before one fails.
Logout(t, done) ==
    /\ Accepted(t) /\ t.user # NoUser
    /\ csrf' = IF done >= 1 THEN csrf \ {t.id} ELSE csrf
    /\ refresh' = IF done >= 2 THEN RevokeAllUserTokens(t.user) ELSE refresh
    /\ blacklist' = IF done >= 3 THEN BlacklistToken(t) ELSE blacklist
    /\ loggedOut' = IF done >= 3 THEN loggedOut \cup {t} ELSE loggedOut
    /\ UNCHANGED <<clock, issued, access, renewed, streamVars>>

\* logout-all: revoke, blacklist, and broadcast to the subject of the user.
LogoutAll(t, done) ==
    /\ Accepted(t) /\ t.user # NoUser
    /\ refresh' = IF done >= 1 THEN RevokeAllUserTokens(t.user) ELSE refresh
    /\ blacklist' = IF done >= 2 THEN BlacklistToken(t) ELSE blacklist
    /\ loggedOut' = IF done >= 2 THEN loggedOut \cup {t} ELSE loggedOut
    /\ notified' = IF done >= 3 THEN notified \cup Subscribers(t.user) ELSE notified
    /\ UNCHANGED <<clock, issued, access, csrf, renewed, subject, subjects, stream>>

Tick ==
    /\ clock < MaxClock /\ clock' = clock + 1
    /\ UNCHANGED <<tokenVars, streamVars>>

Next ==
    \/ Tick
    \/ \E u \in User : SignIn(u) \/ RemoveSessions(u)
    \/ \E u \in User \cup {NoUser} : SignInOnly(u)
    \/ \E n \in 1 .. issued : Refresh(n)
    \/ \E c \in Client : CloseStream(c)
    \/ \E t \in access :
          \/ GetCsrfToken(t) \/ CsrfExpires(t)
          \/ \E c \in Client : OpenStream(c, t)
          \/ \E done \in 0 .. 3 : Logout(t, done) \/ LogoutAll(t, done)

Spec == Init /\ [][Next]_vars

-----------------------------------------------------------------------------
(* Properties *)

TypeOK ==
    /\ clock \in 0 .. MaxClock /\ issued \in 0 .. MaxToken /\ subjects \in 0 .. MaxToken
    /\ access \subseteq AccessToken /\ refresh \subseteq RefreshRow
    /\ blacklist \in [1 .. MaxToken -> Nat]
    /\ csrf \cup renewed \subseteq 1 .. issued /\ loggedOut \subseteq access
    /\ subject \in [User -> 0 .. subjects] /\ notified \subseteq Client
    /\ stream \in [Client -> [user : User \cup {NoUser}, subject : 0 .. subjects]]

\* A token with a jti that was logged out with is refused until it expires, to the
\* millisecond: the entry in the cache must not be dropped before.
LoggedOutRefused == \A t \in loggedOut : t.jti => ~Accepted(t)

\* Every open stream listens to the subject a broadcast would use: the clean-up after one
\* connection leaves no other connection of that user behind.
NoOrphanStreams ==
    \A c \in Client : stream[c] # Closed => stream[c].subject = subject[stream[c].user]

\* No refresh succeeds: a row holds the hash of its token, and is looked up by the token.
NothingRenewed == renewed = {}
=============================================================================
