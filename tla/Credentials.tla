---------------------------- MODULE Credentials ----------------------------
(***************************************************************************)
(* The three parts of the backend's accounts, the rows of the users, their *)
(* second factors and their sessions.  They share no state, so the first   *)
(* state picks the part that moves.                                        *)
(***************************************************************************)
EXTENDS Integers, TLC

CONSTANTS
  User,
  Request, Password, Undefined, OtpMaxAttempts, OtpResendLimit,   \* the rows
  Hotp(_, _), Step, PasskeyLogin,                                 \* the second factors
  Nobody, Client, Milli, AccessLife, RefreshLife,                 \* the sessions
  MaxClock, MaxSecrets, MaxCounter, MaxToken, MaxMillis           \* bounds

VARIABLES
  part,
  user, window, request, clock, codeAge, windowAge, latest, overlapped,
  totp, secrets, shown, step, change, crossed, passkey, signature, login,
  now, issued, access, refresh, blacklist, csrf, subject, subjects, stream, notified, renewed,
  loggedOut

accountVars == <<user, window, request, clock, codeAge, windowAge, latest, overlapped>>
factorVars == <<totp, secrets, shown, step, change, crossed, passkey, signature, login>>
sessionVars == <<now, issued, access, refresh, blacklist, csrf, subject, subjects, stream,
                 notified, renewed, loggedOut>>
vars == <<part, accountVars, factorVars, sessionVars>>

Rows == INSTANCE Accounts
Factors == INSTANCE SecondFactor WITH Change <- Request, Login <- PasskeyLogin
Tokens == INSTANCE Sessions WITH
  NoUser <- Nobody, clock <- now, MaxClock <- MaxMillis

ASSUME Given ==
  Rows!AccountsAssumption /\ Factors!SecondFactorAssumption /\ Tokens!SessionsAssumption

\* For TLC: the requests differ by nothing but their names, and a code is short.
Alike == Permutations(Request)
ShortCode(secret, time) == (secret + time) % 4

\* Bound, for TLC: no step is taken once requests have crossed on a row; the properties of the
\* rows say nothing of that user from there on.
NotCrossed == overlapped = {}

Init ==
  /\ part \in {"rows", "factors", "tokens"}
  /\ Rows!Init /\ Factors!Init /\ Tokens!Init

Next ==
  \/ part = "rows" /\ Rows!Next /\ UNCHANGED <<part, factorVars, sessionVars>>
  \/ part = "factors" /\ Factors!Next /\ UNCHANGED <<part, accountVars, sessionVars>>
  \/ part = "tokens" /\ Tokens!Next /\ UNCHANGED <<part, accountVars, factorVars>>

Spec == Init /\ [][Next]_vars

\* auth.service.ts: the code in a row is the one its user was mailed last, or one that is on its
\* way or was lost with its request, whatever resends, resets and updates are under way, as
\* long as no two requests cross between their read of the row and their mail.
MailedCodeStored == part = "rows" => Rows!MailedCodeStored

\* update-user.provider.ts: who is verified stays verified; only a profile update that says
\* otherwise, or two requests that save copies of the same user at once, can take it back.
VerifiedKept == Rows!VerifiedKept

\* jwt-auth.guard.ts: a token that carries an id and was logged out with is refused until it
\* expires, to the millisecond.
LoggedOutRefused == part = "tokens" => Tokens!LoggedOutRefused

\* session-broadcast.service.ts: every open stream listens to the subject a broadcast would use.
NoOrphanStreams == part = "tokens" => Tokens!NoOrphanStreams

\* The three states have their types, and as long as no two changes cross, the second factor
\* is enabled exactly when it has a secret (totp.controller.ts), whichever saves fail.
AccountsWellFormed ==
  \/ part = "rows" /\ Rows!TypeOK
  \/ part = "factors" /\ Factors!TypeOK /\ Factors!FactorIsWhole
  \/ part = "tokens" /\ Tokens!TypeOK
=============================================================================
