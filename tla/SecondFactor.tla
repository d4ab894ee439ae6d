---------------------------- MODULE SecondFactor ----------------------------
(***************************************************************************)
(* The second factor of one user (totp.controller.ts, totp.service.ts) and *)
(* her passkey (biometric.service.ts).  Secrets are numbered in the order  *)
(* they are generated.  Codes are short: two secrets may show the same.    *)
(***************************************************************************)
EXTENDS Integers

CONSTANTS
    Change,             \* requests to enable or disable under way at once
    Hotp(_, _),         \* the code of a secret at a time step
    Step,               \* the time steps, 0 .. n
    MaxSecrets,         \* bound: secrets generated so far
    Login,              \* logins with the passkey under way at once
    MaxCounter          \* bound: how often the authenticator signs

SecondFactorAssumption == Step \subseteq Nat /\ {MaxSecrets, MaxCounter} \subseteq Nat

VARIABLES
    totp,               \* totpEnabled and totpSecret in the row of the user
    secrets,            \* secrets generated so far
    shown,              \* secrets the user was shown by setup
    step,
    change,             \* what each request is saving
    crossed,            \* history: two requests had a change to save at once
    passkey,            \* the credential: absent, or its counter
    signature,          \* the counter of the authenticator
    login               \* what each login holds: a copy of the credential and its answer

totpVars == <<totp, secrets, shown, step, change, crossed>>
passkeyVars == <<passkey, signature, login>>
vars == <<totpVars, passkeyVars>>

Off == [enabled |-> FALSE, secret |-> 0]
Absent == -1
NoChange == [at |-> "idle"]
NoLogin == [at |-> "idle"]

Init ==
    /\ totp = Off /\ secrets = 0 /\ shown = {} /\ step = 0
    /\ change = [c \in Change |-> NoChange] /\ crossed = FALSE
    /\ passkey = Absent /\ signature = 0
    /\ login = [l \in Login |-> NoLogin]

\* generateSecret
GenerateSecret == secrets < MaxSecrets /\ secrets' = secrets + 1

\* verifyToken accepts the code of the step before, of this one and of the next.
VerifyToken(secret, code) == \E i \in -1 .. 1 : step + i \in Nat /\ Hotp(secret, step + i) = code

\* The secret is shown and not stored.
SetupTotp ==
    /\ ~totp.enabled
    /\ GenerateSecret
    /\ shown' = shown \cup {secrets + 1}
    /\ UNCHANGED <<totp, step, change, crossed, passkeyVars>>

\* A request goes on to UsersService.update, whose copy of the row gets the whole patch.
StartChange(c, patch) ==
    /\ crossed' = (crossed \/ \E other \in Change : change[other].at # "idle")
    /\ change' = [change EXCEPT ![c] = [at |-> "save", patch |-> patch]]

\* enableTotp finds the user, generates a secret of its own and checks the code against that.
EnabledPatch == [enabled |-> TRUE, secret |-> secrets + 1]
EnableTotp(c, code) ==
    /\ change[c].at = "idle"
    /\ ~totp.enabled
    /\ GenerateSecret
    /\ IF VerifyToken(secrets + 1, code) THEN StartChange(c, EnabledPatch) ELSE UNCHANGED <<change, crossed>>
    /\ UNCHANGED <<totp, shown, step, passkeyVars>>

\* Mutant of DisabledPatch: the secret is left out instead of emptied.
DisabledPatchKeepsSecret == [enabled |-> FALSE]

DisabledPatch == Off

DisableTotp(c, code) ==
    /\ change[c].at = "idle"
    /\ totp.enabled /\ totp.secret # 0
    /\ VerifyToken(totp.secret, code)
    /\ StartChange(c, DisabledPatch)
    /\ UNCHANGED <<totp, secrets, shown, step, passkeyVars>>

\* repo.save selects the row
SelectTotp(c) ==
    LET patch == change[c].patch
    IN  /\ change[c].at = "save"
        /\ change' = [change EXCEPT ![c] = [at |-> "write", patch |-> patch,
                         columns |-> {k \in DOMAIN patch : patch[k] # totp[k]}]]
        /\ UNCHANGED <<totp, secrets, shown, step, crossed, passkeyVars>>

\* and updates the columns that differed.
WriteTotp(c) ==
    /\ change[c].at = "write"
    /\ totp' = [k \in DOMAIN totp |-> IF k \in change[c].columns THEN change[c].patch[k] ELSE totp[k]]
    /\ change' = [change EXCEPT ![c] = NoChange]
    /\ UNCHANGED <<secrets, shown, step, crossed, passkeyVars>>

\* A save that fails, or a crash.
FailTotp(c) ==
    /\ change[c].at # "idle"
    /\ change' = [change EXCEPT ![c] = NoChange]
    /\ UNCHANGED <<totp, secrets, shown, step, crossed, passkeyVars>>

Tick ==
    /\ step + 1 \in Step /\ step' = step + 1
    /\ UNCHANGED <<totp, secrets, shown, change, crossed, passkeyVars>>

\* verifyRegistration: the credential is stored with the counter it came with.
RegisterPasskey ==
    /\ passkey = Absent
    /\ passkey' = signature
    /\ UNCHANGED <<signature, login, totpVars>>

\* verifyAuthentication finds the credential for an answer of the authenticator.
StartLogin(l) ==
    /\ login[l].at = "idle"
    /\ passkey # Absent
    /\ signature < MaxCounter
    /\ signature' = signature + 1
    /\ login' = [login EXCEPT ![l] = [at |-> "verify", known |-> passkey, counter |-> signature + 1]]
    /\ UNCHANGED <<passkey, totpVars>>

\* The library accepts an answer with a higher counter than the copy has; the new counter is
\* saved over whatever is in the row, since no two answers have the same, and the user gets a
\* token that has no jti.
FinishLogin(l) ==
    /\ login[l].at = "verify"
    /\ passkey' = IF login[l].counter > login[l].known THEN login[l].counter ELSE passkey
    /\ login' = [login EXCEPT ![l] = NoLogin]
    /\ UNCHANGED <<signature, totpVars>>

Next ==
    \/ SetupTotp \/ Tick \/ RegisterPasskey
    \/ \E c \in Change :
          \/ SelectTotp(c) \/ WriteTotp(c) \/ FailTotp(c)
          \/ \E s \in 1 .. MaxSecrets, t \in Step : EnableTotp(c, Hotp(s, t)) \/ DisableTotp(c, Hotp(s, t))
    \/ \E l \in Login : StartLogin(l) \/ FinishLogin(l)

Spec == Init /\ [][Next]_vars

TypeOK ==
    /\ totp \in [enabled : BOOLEAN, secret : 0 .. MaxSecrets]
    /\ shown \subseteq 1 .. secrets /\ secrets <= MaxSecrets
    /\ \A c \in Change : change[c].at \in {"idle", "save", "write"}
    /\ crossed \in BOOLEAN
    /\ passkey \in {Absent} \cup 0 .. signature

\* verify and disable ask for the flag and the secret, setup and enable for the flag alone: a
\* user with one and not the other could go neither way.  As long as no two changes cross,
\* saves that fail leave both or none.
FactorIsWhole == ~crossed => (totp.enabled <=> totp.secret # 0)

\* totp.controller.ts:36-41: setup generates the secret for the user to scan.  The code does not
\* keep this: enableTotp (:98) makes another secret, so what it enables was never shown.
EnabledWasShown == totp.enabled => totp.secret \in shown
=============================================================================
