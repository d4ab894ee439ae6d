------------------------------ MODULE Accounts ------------------------------
(***************************************************************************)
(* backend/src/auth and backend/src/users: the rows of users and the       *)
(* requests that change them.  A handler reads a row, awaits a hash, and   *)
(* then calls UsersService.update, which reads the row again and saves the *)
(* copy.  The mapper behind repo.save selects the row once more and        *)
(* updates the columns that are not undefined and differ.  What a handler  *)
(* does after the save, it does after further awaits.                      *)
(***************************************************************************)
EXTENDS Integers, FiniteSets

CONSTANTS
    User,               \* the emails that may register
    Request,            \* requests under way at once
    Password,
    Undefined,          \* the value of a property that is left out of a save
    OtpMaxAttempts,     \* OTP_MAX_ATTEMPTS
    OtpResendLimit,     \* OTP_RESEND_LIMIT
    MaxClock            \* bound: codes and resends so far

AccountsAssumption ==
    /\ {OtpMaxAttempts, OtpResendLimit, MaxClock} \subseteq Nat \ {0} /\ Password \subseteq Nat
    /\ Undefined \notin Nat \cup BOOLEAN

VARIABLES
    user,               \* the rows of users
    window,             \* otp:resend:<email>, the times of the resends
    request,            \* what each request is doing
    clock,              \* the time, which only codes and resends advance
    codeAge, windowAge, \* codes up to codeAge are expired, resends up to windowAge forgotten
    latest,             \* history: each user's code that was last mailed, or lost before its mail
    overlapped          \* history: users whose saves, or whose mails, two requests crossed

vars == <<user, window, request, clock, codeAge, windowAge, latest, overlapped>>
times == <<clock, codeAge, windowAge>>

None == 0               \* no code
Idle == [at |-> "idle"]

NewUser(password, code) ==
    [present |-> TRUE, deleted |-> FALSE, password |-> password, code |-> code, attempts |-> 0,
     invalidated |-> FALSE, resends |-> 0, verified |-> FALSE]

NoUser == [NewUser(0, None) EXCEPT !.present = FALSE]
UserRow == [present : BOOLEAN, deleted : BOOLEAN, password : Nat, code : 0 .. MaxClock,
            attempts : Nat, invalidated : BOOLEAN, resends : Nat, verified : BOOLEAN]

Init ==
    /\ user = [u \in User |-> NoUser]
    /\ window = [u \in User |-> {}]
    /\ request = [r \in Request |-> Idle]
    /\ clock = 0 /\ codeAge = 0 /\ windowAge = 0
    /\ latest = [u \in User |-> None]
    /\ overlapped = {}

-----------------------------------------------------------------------------
(* The row, its copies, and UsersService.update *)

\* findOne does not see a row that is soft deleted.
Found(u) == user[u].present /\ ~user[u].deleted

Go(r, state) == request' = [request EXCEPT ![r] = state]
At(r, at) == request[r].at = at
Done(r) == Go(r, Idle)

\* A call of UsersService.update, and what comes after it: "mail" a code, "clear" the window
\* and sign in, or nothing ("idle").
Update(r, u, after, mail, patch) ==
    Go(r, [at |-> "update", u |-> u, after |-> after, mail |-> mail, patch |-> patch])

\* Requests that hold a copy of u, and requests that have saved one and not mailed its code.
Saving(u) == {r \in Request : request[r].at \in {"save", "write"} /\ request[r].u = u}
Mailing(u) == {r \in Request : At(r, "mail") /\ request[r].u = u}

\* A request that reads u while another saves, or with a code to mail while another has one.
Overlap(u, mail) ==
    overlapped' = IF Saving(u) = {} /\ (mail = None \/ Mailing(u) = {})
                  THEN overlapped ELSE overlapped \cup {u}

\* Object.assign
Assigned(row, patch) == [c \in DOMAIN row |-> IF c \in DOMAIN patch THEN patch[c] ELSE row[c]]

\* On to the save of a copy.
GoSave(r, u, after, mail, patch) ==
    Go(r, [at |-> "save", u |-> u, after |-> after, mail |-> mail, patch |-> patch,
           copy |-> Assigned(user[u], patch)])

\* UpdateUserProvider: findOne and Object.assign.
LoadUser(r) ==
    LET q == request[r]
    IN  /\ At(r, "update")
        /\ IF Found(q.u)
           THEN GoSave(r, q.u, q.after, q.mail, q.patch) /\ Overlap(q.u, q.mail)
           ELSE Done(r) /\ UNCHANGED overlapped
        /\ UNCHANGED <<user, window, times, latest>>

\* The columns repo.save will update.
Changed(row, copy) == {c \in DOMAIN row : copy[c] # Undefined /\ copy[c] # row[c]}

\* repo.save selects the row, deleted or not, and compares.
SelectUser(r) ==
    LET q == request[r]
    IN  /\ At(r, "save")
        /\ Go(r, [at |-> "write", u |-> q.u, after |-> q.after, mail |-> q.mail, patch |-> q.patch,
                  copy |-> q.copy, columns |-> Changed(user[q.u], q.copy)])
        /\ UNCHANGED <<user, window, times, latest, overlapped>>

\* What the update leaves in the row.
Written(row, copy, columns) == [c \in DOMAIN row |-> IF c \in columns THEN copy[c] ELSE row[c]]

SaveUser(r) ==
    LET q == request[r]
    IN  /\ At(r, "write")
        /\ user' = [user EXCEPT ![q.u] = Written(user[q.u], q.copy, q.columns)]
        /\ IF q.after = "idle" THEN Done(r) ELSE Go(r, [at |-> q.after, u |-> q.u, mail |-> q.mail])
        /\ UNCHANGED <<window, times, latest, overlapped>>

\* The e-mail service is handed the code.
MailCode(r) ==
    LET q == request[r]
    IN  /\ At(r, "mail")
        /\ latest' = [latest EXCEPT ![q.u] = q.mail]
        /\ Done(r)
        /\ UNCHANGED <<user, window, times, overlapped>>

\* A verified user gets an empty window, unless the cache fails; her tokens are in Sessions.
ClearWindow(r) ==
    LET q == request[r]
    IN  /\ At(r, "clear")
        /\ window' \in {window, [window EXCEPT ![q.u] = {}]}
        /\ Done(r)
        /\ UNCHANGED <<user, times, latest, overlapped>>

\* A call that fails, or a crash, ends a request where it is; a code that was not mailed is lost.
Fail(r) ==
    LET q == request[r]
    IN  /\ ~At(r, "idle")
        /\ latest' = IF At(r, "mail") THEN [latest EXCEPT ![q.u] = q.mail] ELSE latest
        /\ Done(r)
        /\ UNCHANGED <<user, window, times, overlapped>>

-----------------------------------------------------------------------------
(* Operations *)

\* A password passes the policy if it is strong enough, not common, and not known to
\* be breached; the last check is optional and a failure of it is ignored.
PolicyAccepts(strong, common, breached, hibpEnabled, hibpFails) ==
    strong /\ ~common /\ ~(hibpEnabled /\ ~hibpFails /\ breached)

\* The row is inserted, then its code is mailed.
Register(r, u, password) ==
    /\ At(r, "idle")
    /\ ~user[u].present
    /\ clock < MaxClock
    /\ \E strong, common, breached, hibpEnabled, hibpFails \in BOOLEAN :
          PolicyAccepts(strong, common, breached, hibpEnabled, hibpFails)
    /\ clock' = clock + 1
    /\ user' = [user EXCEPT ![u] = NewUser(password, clock + 1)]
    /\ Go(r, [at |-> "mail", u |-> u, mail |-> clock + 1])
    /\ UNCHANGED <<window, codeAge, windowAge, latest, overlapped>>

Expired(code) == code <= codeAge

\* verifyOtp up to the hash: the code is there, not invalidated, not expired.
StartVerify(r, u, otp) ==
    /\ At(r, "idle")
    /\ Found(u) /\ user[u].code # None
    /\ ~user[u].invalidated
    /\ ~Expired(user[u].code)
    /\ Go(r, [at |-> "verify", u |-> u, right |-> otp = user[u].code, attempts |-> user[u].attempts])
    /\ UNCHANGED <<user, window, times, latest, overlapped>>

VerifiedPatch ==
    [verified |-> TRUE, code |-> Undefined, attempts |-> 0, invalidated |-> Undefined, resends |-> 0]

\* Mutant of WrongPatch: a wrong code takes the verification back.
WrongPatchUnverified(attempts) == [attempts |-> attempts, verified |-> FALSE]

WrongPatch(attempts) ==
    IF attempts >= OtpMaxAttempts
    THEN [attempts |-> attempts, invalidated |-> TRUE]
    ELSE [attempts |-> attempts]

\* The comparison is over: what verifyOtp updates.
FinishVerify(r) ==
    LET q == request[r]
    IN  /\ At(r, "verify")
        /\ IF q.right
           THEN Update(r, q.u, "clear", None, VerifiedPatch)
           ELSE Update(r, q.u, "idle", None, WrongPatch(q.attempts + 1))
        /\ UNCHANGED <<user, window, times, latest, overlapped>>

\* resendOtp finds the user,
StartResend(r, u) ==
    /\ At(r, "idle")
    /\ Found(u)
    /\ Go(r, [at |-> "resend", u |-> u, resends |-> user[u].resends])
    /\ UNCHANGED <<user, window, times, latest, overlapped>>

\* and loads the window; a cache that fails reads as empty.
LoadWindow(r) ==
    LET q == request[r]
    IN  /\ At(r, "resend")
        /\ \E stamps \in {{s \in window[q.u] : s > windowAge}, {}} :
              Go(r, [at |-> "window", u |-> q.u, resends |-> q.resends, stamps |-> stamps])
        /\ UNCHANGED <<user, window, times, latest, overlapped>>

\* Mutant of ResendPatch: the new code is mailed and only the counters are saved.
ResendPatchKeepsCode(code, resends) ==
    [attempts |-> 0, invalidated |-> Undefined, resends |-> resends + 1]

ResendPatch(code, resends) ==
    [code |-> code, attempts |-> 0, invalidated |-> Undefined, resends |-> resends + 1]

\* A new code, which the row gets before the mail.
Resend(r) ==
    LET q == request[r]
    IN  /\ clock < MaxClock
        /\ clock' = clock + 1
        /\ Update(r, q.u, "mail", clock + 1, ResendPatch(clock + 1, q.resends))
        /\ UNCHANGED <<codeAge, windowAge>>

\* Too many resends are refused; else this one is recorded, unless the cache fails.
CheckResend(r) ==
    LET q == request[r]
    IN  /\ At(r, "window")
        /\ IF Cardinality(q.stamps) >= OtpResendLimit
           THEN Done(r) /\ UNCHANGED <<window, times>>
           ELSE /\ \E stamps \in {q.stamps \cup {clock + 1}, window[q.u]} :
                      window' = [window EXCEPT ![q.u] = stamps]
                /\ Resend(r)
        /\ UNCHANGED <<user, latest, overlapped>>

\* A process without a cache counts in the row, as it was when the user was found.
CountResends(r) ==
    /\ At(r, "resend")
    /\ IF request[r].resends >= OtpResendLimit THEN Done(r) /\ UNCHANGED times ELSE Resend(r)
    /\ UNCHANGED <<user, window, latest, overlapped>>

ForgotPassword(r, u) ==
    /\ At(r, "idle")
    /\ Found(u)
    /\ clock < MaxClock
    /\ clock' = clock + 1
    /\ Update(r, u, "mail", clock + 1, [code |-> clock + 1])
    /\ UNCHANGED <<user, window, codeAge, windowAge, latest, overlapped>>

ResetPassword(r, u, otp, password) ==
    /\ At(r, "idle")
    /\ Found(u) /\ user[u].code # None
    /\ ~Expired(user[u].code)
    /\ otp = user[u].code
    /\ Update(r, u, "idle", None, [password |-> password, code |-> Undefined])
    /\ UNCHANGED <<user, window, times, latest, overlapped>>

\* ChangePasswordProvider saves the copy it compared the current password with.
ChangePassword(r, u, current, password) ==
    /\ At(r, "idle")
    /\ Found(u) /\ current = user[u].password
    /\ GoSave(r, u, "idle", None, [password |-> password])
    /\ Overlap(u, None)
    /\ UNCHANGED <<user, window, times, latest>>

\* PATCH users/:id, activate and deactivate.  Of the columns they may send only isVerified
\* is modelled; any user may send it.
ProfilePatches == {[verified |-> verified] : verified \in BOOLEAN} \cup {[c \in {} |-> None]}
UpdateProfile(r, u) ==
    /\ At(r, "idle")
    /\ Found(u)
    /\ \E patch \in ProfilePatches : Update(r, u, "idle", None, patch)
    /\ UNCHANGED <<user, window, times, latest, overlapped>>

\* softRemove.
DeleteUser(u) ==
    /\ Found(u)
    /\ user' = [user EXCEPT ![u].deleted = TRUE]
    /\ UNCHANGED <<window, request, times, latest, overlapped>>

\* Codes last ten minutes, the window is five.
CodesExpire ==
    /\ codeAge < windowAge /\ codeAge' = codeAge + 1
    /\ UNCHANGED <<user, window, request, clock, windowAge, latest, overlapped>>

WindowSlides ==
    /\ windowAge < clock /\ windowAge' = windowAge + 1
    /\ UNCHANGED <<user, window, request, clock, codeAge, latest, overlapped>>

Next ==
    \/ \E u \in User : DeleteUser(u)
    \/ CodesExpire \/ WindowSlides
    \/ \E r \in Request :
          \/ LoadUser(r) \/ SelectUser(r) \/ SaveUser(r)
          \/ MailCode(r) \/ ClearWindow(r) \/ Fail(r)
          \/ FinishVerify(r) \/ LoadWindow(r) \/ CheckResend(r) \/ CountResends(r)
          \/ \E u \in User :
                \/ StartResend(r, u) \/ ForgotPassword(r, u) \/ UpdateProfile(r, u)
                \/ \E p \in Password : Register(r, u, p)
                \/ \E otp \in 0 .. MaxClock : StartVerify(r, u, otp)
                \/ \E otp \in 1 .. MaxClock, p \in Password : ResetPassword(r, u, otp, p)
                \/ \E p, q \in Password : ChangePassword(r, u, p, q)

Spec == Init /\ [][Next]_vars

-----------------------------------------------------------------------------
(* Properties *)

TypeOK ==
    /\ user \in [User -> UserRow]
    /\ \A u \in User : window[u] \subseteq 1 .. clock
    /\ \A r \in Request :
          request[r].at \in {"idle", "verify", "resend", "window", "update", "save", "write",
                             "mail", "clear"}
    /\ clock \in 0 .. MaxClock /\ windowAge \in 0 .. clock /\ codeAge \in 0 .. windowAge
    /\ overlapped \subseteq User

\* Who is verified stays verified: only a profile update that says otherwise, or two requests
\* that save copies of the same user at once, can take it back.
VerifiedKept ==
    [][\A u \in User : user[u].verified /\ ~user'[u].verified =>
          \/ u \in overlapped
          \/ \E r \in Request : /\ At(r, "write") /\ request[r].u = u
                                /\ request[r].patch = [verified |-> FALSE]]_vars

\* Codes that are stored and on their way.
Unmailed(u) == {request[r].mail : r \in Mailing(u)}

\* Wherever requests fail: the code in a row is the one that was mailed last, or lost, or is
\* about to be mailed, as long as no request reads the row between another's read and save,
\* and none with a code to mail before another's mail.
MailedCodeStored ==
    \A u \in User \ overlapped : user[u].code \in {None, latest[u]} \cup Unmailed(u)

\* auth.service.ts:160 "Successful verification -- clear all OTP state": a code that an
\* update clears is gone, and so is an invalidation.
OtpStateCleared ==
    [][\A r \in Request : SaveUser(r) =>
          LET q == request[r]
              cleared == {c \in DOMAIN q.patch : q.patch[c] = Undefined}
          IN  /\ "code" \in cleared => user'[q.u].code = None
              /\ "invalidated" \in cleared => ~user'[q.u].invalidated]_vars
=============================================================================
