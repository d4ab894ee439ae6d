------------------------- MODULE CredentialsProofs -------------------------
(***************************************************************************)
(* Theorems about users, second factors and sessions, for any number of    *)
(* users, requests, codes, tokens, connections and ticks.                  *)
(***************************************************************************)
EXTENDS Credentials, TLAPS

-----------------------------------------------------------------------------
(* Second factors *)

\* What a request to enable or disable saves.
GoodChange(patch) ==
    patch = Factors!Off \/ \E s \in 1 .. MaxSecrets : patch = [enabled |-> TRUE, secret |-> s]

\* As long as no two changes cross, the columns that a write leaves out hold what they should.
ChangeHolds(c) ==
    /\ change[c].at \in {"save", "write"} => GoodChange(change[c].patch)
    /\ change[c].at = "write" /\ ~crossed =>
          \A k \in {"enabled", "secret"} : k \in change[c].columns \/ change[c].patch[k] = totp[k]

\* A counter that is being verified is not ahead of the authenticator's.
FactorsInv ==
    /\ Factors!TypeOK /\ Factors!FactorIsWhole
    /\ secrets \in Nat /\ signature \in Nat
    /\ login = [l \in PasskeyLogin |-> login[l]] /\ change = [c \in Request |-> change[c]]
    /\ \A l \in PasskeyLogin : login[l].at = "verify" => login[l].counter \in 0 .. signature
    /\ \A c \in Request : ChangeHolds(c)
    /\ ~crossed => \A c, d \in Request : c = d \/ change[c].at = "idle" \/ change[d].at = "idle"

LEMMA FactorNumbers == MaxSecrets \in Nat /\ MaxCounter \in Nat
BY Given DEF Factors!SecondFactorAssumption

LEMMA FactorsInit == ASSUME Factors!Init PROVE FactorsInv
<1>1. /\ totp = [enabled |-> FALSE, secret |-> 0] /\ secrets = 0 /\ shown = {} /\ crossed = FALSE
      /\ change = [c \in Request |-> [at |-> "idle"]]
      /\ passkey = -1 /\ signature = 0 /\ login = [l \in PasskeyLogin |-> [at |-> "idle"]]
  BY DEF Factors!Init, Factors!Off, Factors!Absent, Factors!NoLogin, Factors!NoChange
<1>2. Factors!TypeOK /\ Factors!FactorIsWhole
  <2>1. totp.enabled = FALSE /\ totp.secret = 0
    BY <1>1
  <2>2. totp \in [enabled : BOOLEAN, secret : 0 .. MaxSecrets]
    BY <1>1, FactorNumbers
  <2>3. shown \subseteq 1 .. secrets /\ secrets <= MaxSecrets /\ passkey \in {Factors!Absent} \cup 0 .. signature
    BY <1>1, FactorNumbers DEF Factors!Absent
  <2>4. crossed \in BOOLEAN /\ \A c \in Request : change[c].at = "idle"
    BY <1>1
  <2> QED
    BY <2>1, <2>2, <2>3, <2>4 DEF Factors!TypeOK, Factors!FactorIsWhole
<1>3. \A c \in Request : ChangeHolds(c)
  BY <1>1 DEF ChangeHolds
<1> QED
  BY <1>1, <1>2, <1>3 DEF FactorsInv

\* Steps that leave the row of the factor and the requests that change it alone.
LEMMA RestOfFactorsKeeps ==
    ASSUME FactorsInv, UNCHANGED <<totp, change, crossed>>,
           secrets' \in Nat, secrets <= secrets', secrets' <= MaxSecrets, shown' \subseteq 1 .. secrets',
           signature' \in Nat, passkey' \in {Factors!Absent} \cup 0 .. signature',
           login' = [l \in PasskeyLogin |-> login'[l]],
           \A l \in PasskeyLogin : login'[l].at = "verify" => login'[l].counter \in 0 .. signature'
    PROVE  FactorsInv'
<1>1. Factors!TypeOK' /\ Factors!FactorIsWhole'
  BY DEF FactorsInv, Factors!TypeOK, Factors!FactorIsWhole
<1>2. \A c \in Request : ChangeHolds(c)'
  BY DEF FactorsInv, ChangeHolds, GoodChange, Factors!Off
<1> QED
  BY <1>1, <1>2 DEF FactorsInv

LEMMA PasskeyKeeps ==
    ASSUME FactorsInv,
           \/ Factors!RegisterPasskey
           \/ \E l \in PasskeyLogin : Factors!StartLogin(l) \/ Factors!FinishLogin(l)
    PROVE  FactorsInv'
<1>1. /\ UNCHANGED <<totp, secrets, shown, change, crossed>>
      /\ secrets \in Nat /\ secrets <= secrets /\ secrets <= MaxSecrets /\ shown \subseteq 1 .. secrets
      /\ signature \in Nat /\ passkey \in {Factors!Absent} \cup 0 .. signature
  BY DEF Factors!RegisterPasskey, Factors!StartLogin, Factors!FinishLogin, Factors!totpVars,
     FactorsInv, Factors!TypeOK
<1>2. CASE Factors!RegisterPasskey
  <2>1. signature' = signature /\ passkey' = signature /\ login' = login
    BY <1>2 DEF Factors!RegisterPasskey
  <2> QED
    BY <1>1, <2>1, RestOfFactorsKeeps DEF FactorsInv
<1>3. ASSUME NEW l \in PasskeyLogin, Factors!StartLogin(l) PROVE FactorsInv'
  <2>1. /\ signature' = signature + 1 /\ passkey' = passkey
        /\ login' = [login EXCEPT ![l] = [at |-> "verify", known |-> passkey, counter |-> signature + 1]]
    BY <1>3 DEF Factors!StartLogin
  <2>2. \A m \in PasskeyLogin : login'[m].at = "verify" => login'[m].counter \in 0 .. signature'
    BY <1>1, <2>1 DEF FactorsInv
  <2>3. signature' \in Nat /\ passkey' \in {Factors!Absent} \cup 0 .. signature'
    BY <1>1, <2>1
  <2>4. login' = [m \in PasskeyLogin |-> login'[m]]
    BY <2>1 DEF FactorsInv
  <2> QED
    BY <1>1, <2>2, <2>3, <2>4, RestOfFactorsKeeps
<1>4. ASSUME NEW l \in PasskeyLogin, Factors!FinishLogin(l) PROVE FactorsInv'
  <2>1. /\ signature' = signature /\ login[l].at = "verify"
        /\ passkey' \in {passkey, login[l].counter}
        /\ login' = [login EXCEPT ![l] = [at |-> "idle"]]
    BY <1>4 DEF Factors!FinishLogin, Factors!NoLogin
  <2>2. /\ \A m \in PasskeyLogin : login'[m].at = "verify" => login'[m].counter \in 0 .. signature'
        /\ passkey' \in {Factors!Absent} \cup 0 .. signature' /\ signature' \in Nat
        /\ login' = [m \in PasskeyLogin |-> login'[m]]
    BY <1>1, <2>1 DEF FactorsInv
  <2> QED
    BY <1>1, <2>2, RestOfFactorsKeeps
<1> QED
  BY <1>2, <1>3, <1>4

\* A request that moves and leaves the row alone.
LEMMA ChangeMoves ==
    ASSUME FactorsInv, NEW c \in Request, NEW state,
           change' = [change EXCEPT ![c] = state],
           UNCHANGED <<totp, signature, passkey, login>>,
           secrets' \in Nat, secrets' <= MaxSecrets, shown' \subseteq 1 .. secrets',
           state.at \in {"idle", "save", "write"}, ChangeHolds(c)',
           crossed' \in BOOLEAN, crossed => crossed',
           ~crossed' => state.at = "idle" \/ \A d \in Request \ {c} : change[d].at = "idle"
    PROVE  FactorsInv'
<1>1. /\ change'[c] = state /\ \A d \in Request \ {c} : change'[d] = change[d]
      /\ change' = [d \in Request |-> change'[d]]
  BY DEF FactorsInv
<1>2. Factors!TypeOK'
  BY <1>1 DEF FactorsInv, Factors!TypeOK
<1>3. Factors!FactorIsWhole'
  BY DEF FactorsInv, Factors!FactorIsWhole
<1>4. ASSUME NEW d \in Request \ {c} PROVE ChangeHolds(d)'
  <2>1. ChangeHolds(d) /\ change'[d] = change[d]
    BY <1>1 DEF FactorsInv
  <2> QED
    BY <2>1 DEF ChangeHolds, GoodChange, Factors!Off
<1>5. ~crossed' => \A d, e \in Request : d = e \/ change'[d].at = "idle" \/ change'[e].at = "idle"
  BY <1>1 DEF FactorsInv
<1> QED
  BY <1>1, <1>2, <1>3, <1>4, <1>5 DEF FactorsInv

\* A request that starts to save.
LEMMA ChangeStarts ==
    ASSUME FactorsInv, NEW c \in Request, NEW patch, GoodChange(patch), Factors!StartChange(c, patch),
           UNCHANGED <<totp, signature, passkey, login>>,
           secrets' \in Nat, secrets' <= MaxSecrets, shown' \subseteq 1 .. secrets'
    PROVE  FactorsInv'
<1> DEFINE state == [at |-> "save", patch |-> patch]
<1>1. /\ change' = [change EXCEPT ![c] = state]
      /\ crossed' = (crossed \/ \E other \in Request : change[other].at # "idle")
  BY DEF Factors!StartChange
<1>2. change'[c] = state
  BY <1>1 DEF FactorsInv
<1>3. state.at = "save" /\ state.patch = patch
  OBVIOUS
<1> HIDE DEF state
<1>4. ChangeHolds(c)'
  BY <1>2, <1>3 DEF ChangeHolds, GoodChange, Factors!Off
<1>5. crossed \in BOOLEAN
  BY DEF FactorsInv, Factors!TypeOK
<1>6. /\ crossed' \in BOOLEAN /\ crossed => crossed'
      /\ ~crossed' => \A d \in Request \ {c} : change[d].at = "idle"
  BY <1>1, <1>5
<1> QED
  BY <1>1, <1>3, <1>4, <1>6, ChangeMoves

LEMMA EnableKeeps ==
    ASSUME FactorsInv, NEW c \in Request, NEW code, Factors!EnableTotp(c, code)
    PROVE  FactorsInv'
<1>1. /\ secrets' = secrets + 1 /\ secrets < MaxSecrets /\ shown' = shown /\ UNCHANGED <<totp, signature, passkey, login>>
      /\ \/ Factors!StartChange(c, [enabled |-> TRUE, secret |-> secrets + 1])
         \/ UNCHANGED <<change, crossed>>
  BY DEF Factors!EnableTotp, Factors!GenerateSecret, Factors!EnabledPatch, Factors!passkeyVars
<1>2. /\ secrets \in Nat /\ secrets' \in Nat /\ secrets <= secrets' /\ secrets' <= MaxSecrets
      /\ shown' \subseteq 1 .. secrets' /\ secrets + 1 \in 1 .. MaxSecrets
  BY <1>1, FactorNumbers DEF FactorsInv, Factors!TypeOK
<1>3. GoodChange([enabled |-> TRUE, secret |-> secrets + 1])
  BY <1>2 DEF GoodChange
<1>4. CASE UNCHANGED <<change, crossed>>
  BY <1>1, <1>2, <1>4, RestOfFactorsKeeps DEF FactorsInv, Factors!TypeOK
<1>5. CASE Factors!StartChange(c, [enabled |-> TRUE, secret |-> secrets + 1])
  <2>1. PICK patch : patch = [enabled |-> TRUE, secret |-> secrets + 1]
    OBVIOUS
  <2> QED
    BY <1>1, <1>2, <1>3, <1>5, <2>1, ChangeStarts
<1> QED
  BY <1>1, <1>4, <1>5

\* A save selects, writes or fails.
LEMMA ChangeSaves ==
    ASSUME FactorsInv, NEW c \in Request,
           Factors!SelectTotp(c) \/ Factors!WriteTotp(c) \/ Factors!FailTotp(c)
    PROVE  FactorsInv'
<1>1. /\ secrets' = secrets /\ secrets \in Nat /\ secrets <= MaxSecrets
      /\ shown' = shown /\ shown \subseteq 1 .. secrets
      /\ UNCHANGED <<signature, passkey, login, crossed>> /\ crossed \in BOOLEAN
      /\ totp \in [enabled : BOOLEAN, secret : 0 .. MaxSecrets] /\ ChangeHolds(c)
      /\ change = [d \in Request |-> change[d]]
  BY DEF Factors!SelectTotp, Factors!WriteTotp, Factors!FailTotp, Factors!passkeyVars,
     FactorsInv, Factors!TypeOK
<1>2. CASE Factors!SelectTotp(c)
  <2> DEFINE columns == {k \in DOMAIN change[c].patch : change[c].patch[k] # totp[k]}
             state == [at |-> "write", patch |-> change[c].patch, columns |-> columns]
  <2>1. change[c].at = "save" /\ totp' = totp /\ change' = [change EXCEPT ![c] = state]
    BY <1>2 DEF Factors!SelectTotp
  <2>2. GoodChange(change[c].patch) /\ change'[c] = state
    BY <1>1, <2>1 DEF ChangeHolds
  <2>3. DOMAIN change[c].patch = {"enabled", "secret"}
    BY <2>2 DEF GoodChange, Factors!Off
  <2>4. \A k \in {"enabled", "secret"} : k \in columns \/ change[c].patch[k] = totp[k]
    BY <2>3
  <2>5. state.at = "write" /\ state.patch = change[c].patch /\ state.columns = columns
    OBVIOUS
  <2> HIDE DEF state, columns
  <2>6. ChangeHolds(c)'
    BY <1>1, <2>1, <2>2, <2>4, <2>5 DEF ChangeHolds, GoodChange, Factors!Off
  <2>7. ~crossed => \A d \in Request \ {c} : change[d].at = "idle"
    BY <2>1 DEF FactorsInv
  <2> QED
    BY <1>1, <2>1, <2>5, <2>6, <2>7, ChangeMoves
<1>3. CASE Factors!WriteTotp(c)
  <2>1. /\ change[c].at = "write" /\ change' = [change EXCEPT ![c] = [at |-> "idle"]]
        /\ totp' = [k \in DOMAIN totp |-> IF k \in change[c].columns THEN change[c].patch[k] ELSE totp[k]]
    BY <1>3 DEF Factors!WriteTotp, Factors!NoChange
  <2>2. PICK patch : patch = change[c].patch
    OBVIOUS
  <2>3. GoodChange(patch)
    BY <1>1, <2>1, <2>2 DEF ChangeHolds
  <2>4. patch \in [enabled : BOOLEAN, secret : 0 .. MaxSecrets] /\ (patch.enabled <=> patch.secret # 0)
    <3>1. CASE patch = Factors!Off
      <4>1. patch = [enabled |-> FALSE, secret |-> 0] /\ 0 \in 0 .. MaxSecrets
        BY <3>1, FactorNumbers DEF Factors!Off
      <4>2. patch.enabled = FALSE /\ patch.secret = 0
        BY <4>1
      <4> QED
        BY <4>1, <4>2
    <3>2. ASSUME NEW s \in 1 .. MaxSecrets, patch = [enabled |-> TRUE, secret |-> s]
          PROVE  patch \in [enabled : BOOLEAN, secret : 0 .. MaxSecrets] /\ (patch.enabled <=> patch.secret # 0)
      <4>1. s \in 0 .. MaxSecrets /\ s # 0
        BY FactorNumbers
      <4>2. patch.enabled = TRUE /\ patch.secret = s
        BY <3>2
      <4> QED
        BY <3>2, <4>1, <4>2
    <3> QED
      BY <2>3, <3>1, <3>2 DEF GoodChange
  <2>5. /\ DOMAIN totp = {"enabled", "secret"}
        /\ totp.enabled \in BOOLEAN /\ totp.secret \in 0 .. MaxSecrets
    BY <1>1
  <2>6. totp' = [enabled |-> IF "enabled" \in change[c].columns THEN patch.enabled ELSE totp.enabled,
                 secret |-> IF "secret" \in change[c].columns THEN patch.secret ELSE totp.secret]
    BY <2>1, <2>2, <2>5
  <2>7. totp' \in [enabled : BOOLEAN, secret : 0 .. MaxSecrets]
    BY <2>4, <2>5, <2>6
  <2>8. ~crossed => totp'.enabled = patch.enabled /\ totp'.secret = patch.secret
    BY <1>1, <2>1, <2>2, <2>6 DEF ChangeHolds
  <2>9. /\ change'[c] = [at |-> "idle"] /\ \A d \in Request \ {c} : change'[d] = change[d]
        /\ change' = [d \in Request |-> change'[d]]
    BY <1>1, <2>1
  <2>10. Factors!TypeOK'
    BY <1>1, <2>7, <2>9 DEF FactorsInv, Factors!TypeOK
  <2>11. Factors!FactorIsWhole'
    BY <1>1, <2>4, <2>8 DEF Factors!FactorIsWhole
  <2>12. ASSUME NEW d \in Request PROVE ChangeHolds(d)'
    <3>1. CASE d = c
      BY <2>9, <3>1 DEF ChangeHolds
    <3>2. CASE d # c
      <4>1. ChangeHolds(d) /\ change'[d] = change[d] /\ (~crossed => change[d].at = "idle")
        BY <2>1, <2>9, <3>2 DEF FactorsInv
      <4> QED
        BY <1>1, <4>1 DEF ChangeHolds, GoodChange, Factors!Off
    <3> QED
      BY <3>1, <3>2
  <2>13. ~crossed => \A d, e \in Request : d = e \/ change'[d].at = "idle" \/ change'[e].at = "idle"
    BY <2>9 DEF FactorsInv
  <2> QED
    BY <1>1, <2>9, <2>10, <2>11, <2>12, <2>13 DEF FactorsInv
<1>4. CASE Factors!FailTotp(c)
  <2>1. totp' = totp /\ change' = [change EXCEPT ![c] = [at |-> "idle"]]
    BY <1>4 DEF Factors!FailTotp, Factors!NoChange
  <2>2. ChangeHolds(c)'
    BY <1>1, <2>1 DEF ChangeHolds
  <2> DEFINE state == [at |-> "idle"]
  <2>3. change' = [change EXCEPT ![c] = state] /\ state.at = "idle"
    BY <2>1
  <2> HIDE DEF state
  <2> QED
    BY <1>1, <2>1, <2>2, <2>3, ChangeMoves
<1> QED
  BY <1>2, <1>3, <1>4

LEMMA FactorsKept ==
    ASSUME FactorsInv, Factors!Next \/ UNCHANGED factorVars
    PROVE  FactorsInv'
<1>1. CASE UNCHANGED factorVars \/ Factors!Tick \/ Factors!SetupTotp
  <2>1. /\ UNCHANGED <<totp, change, crossed, signature, passkey, login>>
        /\ \/ UNCHANGED <<secrets, shown>>
           \/ secrets < MaxSecrets /\ secrets' = secrets + 1 /\ shown' = shown \cup {secrets + 1}
    BY <1>1 DEF factorVars, Factors!Tick, Factors!SetupTotp, Factors!GenerateSecret, Factors!passkeyVars
  <2>2. /\ secrets' \in Nat /\ secrets <= secrets' /\ secrets' <= MaxSecrets
        /\ shown' \subseteq 1 .. secrets'
    BY <2>1, FactorNumbers DEF FactorsInv, Factors!TypeOK
  <2> QED
    BY <2>1, <2>2, RestOfFactorsKeeps DEF FactorsInv, Factors!TypeOK
<1>2. ASSUME NEW c \in Request, NEW code, Factors!EnableTotp(c, code) \/ Factors!DisableTotp(c, code)
      PROVE  FactorsInv'
  <2>1. CASE Factors!DisableTotp(c, code)
    <3>1. /\ Factors!StartChange(c, Factors!Off) /\ GoodChange(Factors!Off)
          /\ UNCHANGED <<totp, secrets, shown, signature, passkey, login>>
      BY <2>1 DEF Factors!DisableTotp, Factors!DisabledPatch, Factors!passkeyVars, GoodChange
    <3> QED
      BY <3>1, ChangeStarts DEF FactorsInv, Factors!TypeOK
  <2> QED
    BY <1>2, <2>1, EnableKeeps
<1> QED
  BY <1>1, <1>2, PasskeyKeeps, ChangeSaves DEF Factors!Next

-----------------------------------------------------------------------------
(* Sessions *)

LEMMA SessionNumbers ==
    /\ Milli \in Nat \ {0} /\ AccessLife \in Nat /\ RefreshLife \in Nat
    /\ MaxToken \in Nat /\ MaxMillis \in Nat /\ Nobody \notin User
BY Given DEF Tokens!SessionsAssumption

\* The clock before a second is before its first millisecond.
LEMMA BeforeSecond ==
    ASSUME NEW m \in Nat \ {0}, NEW t \in Nat, NEW s \in Nat, t \div m < s
    PROVE  t < s * m
<1>1. PICK q \in Nat : q = t \div m
  OBVIOUS
<1>2. t < (q + 1) * m
  BY <1>1
<1>3. q + 1 <= s
  BY <1>1
<1>4. (q + 1) * m <= s * m
  BY <1>3
<1>5. (q + 1) * m \in Nat /\ s * m \in Nat
  OBVIOUS
<1> QED
  BY <1>2, <1>4, <1>5

LEMMA ProductsAndQuotients ==
    /\ \A a, b \in Nat : a * b \in Nat
    /\ \A a \in Nat, m \in Nat \ {0} : a \div m \in Nat
OBVIOUS

\* A token is known by its number, and one that was logged out with is on the list until
\* it expires.
TokensInv ==
    /\ \A t \in access : t.id \in 1 .. issued
    /\ \A s, t \in access : s.id = t.id => s = t
    /\ \A t \in loggedOut : t.jti => blacklist[t.id] >= t.exp * Milli

\* What a row keeps is a hash, so no refresh finds one.
RenewInv == renewed = {} /\ \A row \in refresh : row.token.hashed

\* An open stream has the subject of its user, and that is one.
StreamsInv ==
    \A c \in Client : stream[c] # Tokens!Closed =>
        /\ stream[c].user \in User
        /\ stream[c].subject = subject[stream[c].user]
        /\ stream[c].subject # Tokens!NoSubject

SessionsInv == Tokens!TypeOK /\ TokensInv /\ RenewInv /\ StreamsInv

LEMMA SessionsInit == ASSUME Tokens!Init PROVE SessionsInv
<1>1. Tokens!TypeOK
  BY SessionNumbers DEF Tokens!Init, Tokens!TypeOK, Tokens!Closed, Tokens!NoSubject, Tokens!Never
<1>2. TokensInv /\ RenewInv /\ StreamsInv
  BY DEF Tokens!Init, TokensInv, RenewInv, StreamsInv
<1> QED
  BY <1>1, <1>2 DEF SessionsInv

\* New tokens and rows.
LEMMA RowTyped ==
    ASSUME SessionsInv, issued < MaxToken, NEW u \in User
    PROVE  Tokens!CreateRow(u) \in Tokens!RefreshRow /\ Tokens!CreateRow(u).token.hashed
<1>1. issued + 1 \in 1 .. MaxToken
  BY SessionNumbers DEF SessionsInv, Tokens!TypeOK
<1>2. now + RefreshLife * Milli \in Nat
  <2>1. now \in Nat /\ RefreshLife * Milli \in Nat
    BY SessionNumbers, ProductsAndQuotients DEF SessionsInv, Tokens!TypeOK
  <2> QED
    BY <2>1
<1>3. PICK n \in 1 .. MaxToken : n = issued + 1
  BY <1>1
<1>4. PICK until \in Nat : until = now + RefreshLife * Milli
  BY <1>2
<1>5. PICK token : token = [Tokens!Raw(n) EXCEPT !.hashed = TRUE]
  OBVIOUS
<1>6. token \in [hashed : BOOLEAN, n : 1 .. MaxToken] /\ token.hashed
  BY <1>5 DEF Tokens!Raw
<1>7. Tokens!CreateRow(u) = [token |-> token, user |-> u, expiresAt |-> until,
                             revoked |-> FALSE, deleted |-> FALSE]
  BY <1>3, <1>4, <1>5, Zenon DEF Tokens!CreateRow, Tokens!HashRefreshToken
<1> QED
  BY <1>6, <1>7 DEF Tokens!RefreshRow

LEMMA TokenTyped ==
    ASSUME SessionsInv, issued < MaxToken, NEW u \in User \cup {Nobody}, NEW jti \in BOOLEAN
    PROVE  /\ Tokens!SignAccessToken(u, jti) \in Tokens!AccessToken
           /\ Tokens!SignAccessToken(u, jti).id = issued + 1
<1>1. issued + 1 \in 1 .. MaxToken
  BY SessionNumbers DEF SessionsInv, Tokens!TypeOK
<1>2. now \div Milli \in Nat
  <2>1. now \in Nat
    BY SessionNumbers DEF SessionsInv, Tokens!TypeOK
  <2> QED
    BY <2>1, SessionNumbers, ProductsAndQuotients, Zenon
<1>3. Tokens!Seconds + AccessLife \in Nat
  BY <1>2, SessionNumbers DEF Tokens!Seconds
<1> QED
  BY <1>1, <1>3 DEF Tokens!SignAccessToken, Tokens!AccessToken

\* Issuing a token, with rows that keep hashes.
LEMMA IssueKeeps ==
    ASSUME SessionsInv, issued < MaxToken, issued' = issued + 1,
           NEW t \in Tokens!AccessToken, t.id = issued + 1, access' = access \cup {t},
           refresh' \subseteq Tokens!RefreshRow, \A row \in refresh' : row.token.hashed,
           UNCHANGED <<now, blacklist, csrf, renewed, loggedOut>>, UNCHANGED Tokens!streamVars
    PROVE  SessionsInv'
<1>0. UNCHANGED <<subject, subjects, stream, notified>>
  BY DEF Tokens!streamVars
<1>1. issued \in Nat /\ issued + 1 \in 0 .. MaxToken /\ 1 .. issued \subseteq 1 .. (issued + 1)
  BY SessionNumbers DEF SessionsInv, Tokens!TypeOK
<1>2. Tokens!TypeOK'
  BY <1>0, <1>1 DEF SessionsInv, Tokens!TypeOK
<1>3. TokensInv'
  <2>1. \A s \in access : s.id \in 1 .. issued
    BY DEF SessionsInv, TokensInv
  <2>2. issued + 1 \notin 1 .. issued /\ issued + 1 \in 1 .. (issued + 1)
    BY <1>1
  <2> QED
    BY <1>1, <2>1, <2>2 DEF SessionsInv, TokensInv
<1>4. RenewInv' /\ StreamsInv'
  BY <1>0 DEF SessionsInv, RenewInv, StreamsInv
<1> QED
  BY <1>2, <1>3, <1>4 DEF SessionsInv

LEMMA SignInKeeps ==
    ASSUME SessionsInv,
           \/ \E u \in User : Tokens!SignIn(u)
           \/ \E u \in User \cup {Nobody} : Tokens!SignInOnly(u)
    PROVE  SessionsInv'
<1>1. refresh \subseteq Tokens!RefreshRow /\ \A row \in refresh : row.token.hashed
  BY DEF SessionsInv, Tokens!TypeOK, RenewInv
<1>2. ASSUME NEW u \in User, Tokens!SignIn(u) PROVE SessionsInv'
  <2>1. /\ issued < MaxToken /\ issued' = issued + 1
        /\ refresh' = refresh \cup {Tokens!CreateRow(u)}
        /\ access' = access \cup {Tokens!SignAccessToken(u, TRUE)}
        /\ UNCHANGED <<now, blacklist, csrf, renewed, loggedOut>> /\ UNCHANGED Tokens!streamVars
    BY <1>2 DEF Tokens!SignIn
  <2>2. refresh' \subseteq Tokens!RefreshRow /\ \A row \in refresh' : row.token.hashed
    BY <1>1, <2>1, RowTyped
  <2> QED
    BY <2>1, <2>2, TokenTyped, IssueKeeps
<1>3. ASSUME NEW u \in User \cup {Nobody}, Tokens!SignInOnly(u) PROVE SessionsInv'
  <2>1. /\ issued < MaxToken /\ issued' = issued + 1 /\ refresh' = refresh
        /\ access' = access \cup {Tokens!SignAccessToken(u, FALSE)}
        /\ UNCHANGED <<now, blacklist, csrf, renewed, loggedOut>> /\ UNCHANGED Tokens!streamVars
    BY <1>3 DEF Tokens!SignInOnly
  <2> QED
    BY <1>1, <2>1, TokenTyped, IssueKeeps
<1> QED
  BY <1>2, <1>3

\* No token is equal to its hash: nothing is found to renew.
LEMMA NothingRenewable == ASSUME SessionsInv, NEW n PROVE Tokens!Renewable(n) = {}
<1>1. \A row \in refresh : row.token # Tokens!Raw(n)
  BY DEF SessionsInv, RenewInv, Tokens!Raw
<1> QED
  BY <1>1 DEF Tokens!Renewable, Tokens!FindByToken

\* Steps on the rows of refresh tokens and on the CSRF tokens.
LEMMA RowsKeep ==
    ASSUME SessionsInv,
           refresh' \subseteq Tokens!RefreshRow, \A row \in refresh' : row.token.hashed,
           csrf' \subseteq 1 .. issued, notified' \subseteq Client,
           UNCHANGED <<now, issued, access, blacklist, renewed, loggedOut, subject, subjects, stream>>
    PROVE  SessionsInv'
<1>1. Tokens!TypeOK'
  BY DEF SessionsInv, Tokens!TypeOK
<1> QED
  BY <1>1 DEF SessionsInv, TokensInv, RenewInv, StreamsInv

LEMMA QuietSessionKeeps ==
    ASSUME SessionsInv,
           \/ \E n \in 1 .. issued : Tokens!Refresh(n)
           \/ \E u \in User : Tokens!RemoveSessions(u)
           \/ \E t \in access : Tokens!GetCsrfToken(t) \/ Tokens!CsrfExpires(t)
    PROVE  SessionsInv'
<1>1. /\ refresh \subseteq Tokens!RefreshRow /\ \A row \in refresh : row.token.hashed
      /\ csrf \subseteq 1 .. issued /\ notified \subseteq Client
  BY DEF SessionsInv, Tokens!TypeOK, RenewInv
<1>2. ASSUME NEW n \in 1 .. issued, Tokens!Refresh(n) PROVE SessionsInv'
  <2>1. UNCHANGED <<issued, access, refresh, renewed, now, blacklist, csrf, loggedOut>>
    BY <1>2, NothingRenewable DEF Tokens!Refresh
  <2>2. UNCHANGED <<subject, subjects, stream, notified>>
    BY <1>2 DEF Tokens!Refresh, Tokens!streamVars
  <2> QED
    BY <1>1, <2>1, <2>2, RowsKeep
<1>3. ASSUME NEW u \in User, Tokens!RemoveSessions(u) PROVE SessionsInv'
  <2>1. UNCHANGED <<now, issued, access, blacklist, csrf, renewed, loggedOut,
                    subject, subjects, stream, notified>>
    BY <1>3 DEF Tokens!RemoveSessions, Tokens!streamVars
  <2>2. refresh' = {IF row.user = u THEN [row EXCEPT !.deleted = TRUE] ELSE row : row \in refresh}
    BY <1>3 DEF Tokens!RemoveSessions
  <2>3. \A row \in refresh : /\ [row EXCEPT !.deleted = TRUE] \in Tokens!RefreshRow
                             /\ [row EXCEPT !.deleted = TRUE].token.hashed
    BY <1>1 DEF Tokens!RefreshRow
  <2>4. refresh' \subseteq Tokens!RefreshRow /\ \A row \in refresh' : row.token.hashed
    BY <1>1, <2>2, <2>3
  <2> QED
    BY <1>1, <2>1, <2>4, RowsKeep
<1>4. ASSUME NEW t \in access, Tokens!GetCsrfToken(t) \/ Tokens!CsrfExpires(t) PROVE SessionsInv'
  <2>1. UNCHANGED <<now, issued, access, refresh, blacklist, renewed, loggedOut>>
    BY <1>4 DEF Tokens!GetCsrfToken, Tokens!CsrfExpires
  <2>2. UNCHANGED <<subject, subjects, stream, notified>>
    BY <1>4 DEF Tokens!GetCsrfToken, Tokens!CsrfExpires, Tokens!streamVars
  <2>3. t.id \in 1 .. issued
    BY DEF SessionsInv, TokensInv
  <2>4. csrf' \subseteq 1 .. issued
    BY <1>1, <1>4, <2>3 DEF Tokens!GetCsrfToken, Tokens!CsrfExpires
  <2> QED
    BY <1>1, <2>1, <2>2, <2>4, RowsKeep
<1> QED
  BY <1>2, <1>3, <1>4

\* A token that is accepted has not expired, to the millisecond.
LEMMA AcceptedLives ==
    ASSUME SessionsInv, NEW t \in access, Tokens!Accepted(t)
    PROVE  t.exp \in Nat /\ t.exp * Milli \in Nat /\ now < t.exp * Milli
<1>1. t.exp \in Nat /\ now \in Nat
  BY SessionNumbers DEF SessionsInv, Tokens!TypeOK, Tokens!AccessToken
<1>2. now \div Milli < t.exp
  BY DEF Tokens!Accepted, Tokens!Seconds
<1>3. now < t.exp * Milli
  BY <1>1, <1>2, SessionNumbers, BeforeSecond
<1>4. t.exp * Milli \in Nat
  BY <1>1, SessionNumbers, ProductsAndQuotients, Zenon
<1> QED
  BY <1>1, <1>3, <1>4

\* Such a token is listed until it expires, and no other one is touched.
LEMMA Listed ==
    ASSUME SessionsInv, NEW t \in access, Tokens!Accepted(t)
    PROVE  /\ Tokens!BlacklistToken(t) \in [1 .. MaxToken -> Nat]
           /\ t.jti => Tokens!BlacklistToken(t)[t.id] = t.exp * Milli
           /\ \A i \in 1 .. MaxToken : i # t.id => Tokens!BlacklistToken(t)[i] = blacklist[i]
<1>1. PICK until \in Nat : until = t.exp * Milli /\ now < until /\ now \in Nat
  BY AcceptedLives, SessionNumbers DEF SessionsInv, Tokens!TypeOK
<1>2. blacklist \in [1 .. MaxToken -> Nat] /\ t.id \in 1 .. MaxToken
  BY DEF SessionsInv, Tokens!TypeOK, Tokens!AccessToken
<1>3. Tokens!RemainingMs(t.exp) = until - now
  BY <1>1 DEF Tokens!RemainingMs
<1>4. until - now > 0 /\ now + (until - now) = until
  BY <1>1
<1>5. Tokens!BlacklistToken(t) = IF t.jti THEN [blacklist EXCEPT ![t.id] = until] ELSE blacklist
  BY <1>3, <1>4 DEF Tokens!BlacklistToken
<1>6. CASE t.jti
  BY <1>1, <1>2, <1>5, <1>6
<1>7. CASE ~t.jti
  BY <1>2, <1>5, <1>7
<1> QED
  BY <1>6, <1>7

\* Revoking all rows of a user.
LEMMA Revoked ==
    ASSUME SessionsInv, NEW u
    PROVE  /\ Tokens!RevokeAllUserTokens(u) \subseteq Tokens!RefreshRow
           /\ \A row \in Tokens!RevokeAllUserTokens(u) : row.token.hashed
<1>1. refresh \subseteq Tokens!RefreshRow /\ \A row \in refresh : row.token.hashed
  BY DEF SessionsInv, Tokens!TypeOK, RenewInv
<1>2. \A row \in refresh : /\ [row EXCEPT !.revoked = TRUE] \in Tokens!RefreshRow
                           /\ [row EXCEPT !.revoked = TRUE].token.hashed
  BY <1>1 DEF Tokens!RefreshRow
<1> QED
  BY <1>1, <1>2 DEF Tokens!RevokeAllUserTokens

\* Both logouts, however many of their steps happen.
LEMMA LogoutKeeps ==
    ASSUME SessionsInv, NEW t \in access, NEW done \in 0 .. 3,
           Tokens!Logout(t, done) \/ Tokens!LogoutAll(t, done)
    PROVE  SessionsInv'
<1>1. /\ Tokens!Accepted(t)
      /\ UNCHANGED <<now, issued, access, renewed, subject, subjects, stream>>
      /\ refresh' = refresh \/ refresh' = Tokens!RevokeAllUserTokens(t.user)
      /\ csrf' \subseteq csrf
      /\ notified' = notified \/ notified' = notified \cup Tokens!Subscribers(t.user)
      /\ \/ blacklist' = blacklist /\ loggedOut' = loggedOut
         \/ blacklist' = Tokens!BlacklistToken(t) /\ loggedOut' = loggedOut \cup {t}
  <2>1. CASE Tokens!Logout(t, done)
    BY <2>1 DEF Tokens!Logout, Tokens!streamVars
  <2>2. CASE Tokens!LogoutAll(t, done)
    <3>1. /\ Tokens!Accepted(t) /\ UNCHANGED <<now, issued, access, csrf, renewed, subject, subjects, stream>>
          /\ refresh' = refresh \/ refresh' = Tokens!RevokeAllUserTokens(t.user)
          /\ notified' = notified \/ notified' = notified \cup Tokens!Subscribers(t.user)
      BY <2>2 DEF Tokens!LogoutAll
    <3>2. \/ blacklist' = blacklist /\ loggedOut' = loggedOut
          \/ blacklist' = Tokens!BlacklistToken(t) /\ loggedOut' = loggedOut \cup {t}
      BY <2>2 DEF Tokens!LogoutAll
    <3> QED
      BY <3>1, <3>2
  <2> QED
    BY <2>1, <2>2
<1>2. refresh' \subseteq Tokens!RefreshRow /\ \A row \in refresh' : row.token.hashed
  BY <1>1, Revoked DEF SessionsInv, Tokens!TypeOK, RenewInv
<1>3. blacklist' \in [1 .. MaxToken -> Nat] /\ loggedOut' \subseteq access
  BY <1>1, Listed DEF SessionsInv, Tokens!TypeOK
<1>4. Tokens!TypeOK'
  <2>1. notified' \subseteq Client /\ csrf' \cup renewed \subseteq 1 .. issued
    BY <1>1 DEF SessionsInv, Tokens!TypeOK, Tokens!Subscribers
  <2> QED
    BY <1>1, <1>2, <1>3, <2>1 DEF SessionsInv, Tokens!TypeOK
<1>5. TokensInv'
  <2>1. \A s \in access : s.id \in 1 .. issued /\ s.id \in 1 .. MaxToken
    BY DEF SessionsInv, TokensInv, Tokens!TypeOK, Tokens!AccessToken
  <2>2. ASSUME NEW s \in loggedOut', s.jti PROVE blacklist'[s.id] >= s.exp * Milli
    <3>1. s \in access
      BY <1>3
    <3>2. CASE blacklist' = blacklist /\ loggedOut' = loggedOut
      BY <2>2, <3>2 DEF SessionsInv, TokensInv
    <3>3. CASE blacklist' = Tokens!BlacklistToken(t) /\ loggedOut' = loggedOut \cup {t}
      <4>1. CASE s = t
        BY <1>1, <2>2, <3>3, <4>1, Listed, AcceptedLives
      <4>2. CASE s # t
        <5>1. s.id # t.id /\ s \in loggedOut
          BY <3>1, <3>3, <4>2 DEF SessionsInv, TokensInv
        <5>2. blacklist'[s.id] = blacklist[s.id]
          BY <1>1, <2>1, <3>1, <3>3, <5>1, Listed
        <5> QED
          BY <2>2, <5>1, <5>2 DEF SessionsInv, TokensInv
      <4> QED
        BY <4>1, <4>2
    <3> QED
      BY <1>1, <3>2, <3>3
  <2> QED
    BY <1>1, <2>2 DEF SessionsInv, TokensInv
<1>6. RenewInv' /\ StreamsInv'
  BY <1>1, <1>2 DEF SessionsInv, RenewInv, StreamsInv
<1> QED
  BY <1>4, <1>5, <1>6 DEF SessionsInv

\* Steps on the streams.
LEMMA OpenKeeps ==
    ASSUME SessionsInv, NEW t \in access, NEW c \in Client, Tokens!OpenStream(c, t)
    PROVE  SessionsInv'
<1>1. PICK u \in User : u = t.user
  BY DEF SessionsInv, Tokens!TypeOK, Tokens!AccessToken, Tokens!OpenStream
<1>2. UNCHANGED <<now, issued, access, refresh, blacklist, csrf, renewed, loggedOut, notified>>
  BY DEF Tokens!OpenStream, Tokens!tokenVars
<1>3. /\ subjects \in Nat /\ subjects <= MaxToken /\ subject \in [User -> 0 .. subjects]
      /\ stream \in [Client -> [user : User \cup {Nobody}, subject : 0 .. subjects]]
  BY SessionNumbers DEF SessionsInv, Tokens!TypeOK
<1>4. /\ subjects' \in 0 .. MaxToken /\ subject' \in [User -> 0 .. subjects']
      /\ stream' \in [Client -> [user : User \cup {Nobody}, subject : 0 .. subjects']]
      /\ StreamsInv'
  <2>1. CASE subject[u] = Tokens!NoSubject
    <3>1. /\ subjects < MaxToken /\ subjects' = subjects + 1
          /\ subject' = [subject EXCEPT ![u] = subjects + 1]
          /\ stream' = [stream EXCEPT ![c] = [user |-> u, subject |-> subjects + 1]]
      BY <1>1, <2>1 DEF Tokens!OpenStream
    <3>2. PICK n \in 1 .. MaxToken : n = subjects + 1
      BY <1>3, <3>1, SessionNumbers
    <3>3. subjects' = n /\ n \in 0 .. n /\ \A i \in 0 .. subjects : i \in 0 .. n
      BY <1>3, <3>1, <3>2
    <3>4. stream' = [stream EXCEPT ![c] = [user |-> u, subject |-> n]]
      BY <3>1, <3>2
    <3>5. subject' \in [User -> 0 .. n]
      BY <1>3, <3>1, <3>2, <3>3
    <3>6. \A d \in Client : stream[d] \in [user : User \cup {Nobody}, subject : 0 .. n]
      BY <1>3, <3>3
    <3>7. stream' \in [Client -> [user : User \cup {Nobody}, subject : 0 .. n]]
      BY <1>3, <3>3, <3>4, <3>6
    <3>8. ASSUME NEW d \in Client, stream'[d] # Tokens!Closed
          PROVE  /\ stream'[d].user \in User /\ stream'[d].subject = subject'[stream'[d].user]
                 /\ stream'[d].subject # Tokens!NoSubject
      <4>1. CASE d = c
        BY <1>3, <3>1, <3>2, <3>4, <4>1 DEF Tokens!NoSubject
      <4>2. CASE d # c
        <5>1. stream'[d] = stream[d]
          BY <3>4, <4>2
        <5>2. stream[d].user # u
          BY <2>1, <3>8, <5>1 DEF SessionsInv, StreamsInv
        <5> QED
          BY <3>1, <3>8, <5>1, <5>2 DEF SessionsInv, StreamsInv
      <4> QED
        BY <4>1, <4>2
    <3>9. StreamsInv'
      BY <3>8 DEF StreamsInv, Tokens!Closed, Tokens!NoSubject
    <3> QED
      BY <3>2, <3>3, <3>5, <3>7, <3>9
  <2>2. CASE subject[u] # Tokens!NoSubject
    <3>1. /\ stream' = [stream EXCEPT ![c] = [user |-> u, subject |-> subject[u]]]
          /\ UNCHANGED <<subject, subjects>>
      BY <1>1, <2>2 DEF Tokens!OpenStream
    <3>2. stream' \in [Client -> [user : User \cup {Nobody}, subject : 0 .. subjects]]
      BY <1>3, <3>1
    <3>3. ASSUME NEW d \in Client, stream'[d] # Tokens!Closed
          PROVE  /\ stream'[d].user \in User /\ stream'[d].subject = subject'[stream'[d].user]
                 /\ stream'[d].subject # Tokens!NoSubject
      <4>1. CASE d = c
        BY <1>3, <2>2, <3>1, <4>1
      <4>2. CASE d # c
        BY <3>1, <3>3, <4>2 DEF SessionsInv, StreamsInv
      <4> QED
        BY <4>1, <4>2
    <3>4. StreamsInv'
      BY <3>3 DEF StreamsInv, Tokens!Closed, Tokens!NoSubject
    <3> QED
      BY <1>3, <3>1, <3>2, <3>4
  <2> QED
    BY <2>1, <2>2
<1>5. Tokens!TypeOK'
  BY <1>2, <1>4 DEF SessionsInv, Tokens!TypeOK
<1>6. TokensInv' /\ RenewInv'
  BY <1>2 DEF SessionsInv, TokensInv, RenewInv
<1> QED
  BY <1>4, <1>5, <1>6 DEF SessionsInv

LEMMA CloseKeeps ==
    ASSUME SessionsInv, NEW c \in Client, Tokens!CloseStream(c)
    PROVE  SessionsInv'
<1>1. UNCHANGED <<now, issued, access, refresh, blacklist, csrf, renewed, loggedOut, subjects>>
  BY DEF Tokens!CloseStream, Tokens!tokenVars
<1>2. PICK u \in User : u = stream[c].user /\ stream[c] # Tokens!Closed
  BY DEF SessionsInv, StreamsInv, Tokens!CloseStream
<1>3. /\ subjects \in Nat /\ subject \in [User -> 0 .. subjects]
      /\ stream \in [Client -> [user : User \cup {Nobody}, subject : 0 .. subjects]]
  BY SessionNumbers DEF SessionsInv, Tokens!TypeOK
<1>4. /\ stream' = [d \in Client |-> IF d \in Tokens!Subscribers(u) THEN Tokens!Closed ELSE stream[d]]
      /\ subject' = [subject EXCEPT ![u] = Tokens!NoSubject]
      /\ notified' \subseteq notified
  BY <1>2 DEF Tokens!CloseStream, Tokens!Completed
<1>5. /\ subject' \in [User -> 0 .. subjects]
      /\ stream' \in [Client -> [user : User \cup {Nobody}, subject : 0 .. subjects]]
  BY <1>3, <1>4 DEF Tokens!Closed, Tokens!NoSubject
<1>6. ASSUME NEW d \in Client, stream'[d] # Tokens!Closed
      PROVE  /\ stream'[d].user \in User /\ stream'[d].subject = subject'[stream'[d].user]
             /\ stream'[d].subject # Tokens!NoSubject
  <2>1. d \notin Tokens!Subscribers(u) /\ stream'[d] = stream[d]
    BY <1>4, <1>6
  <2>2. /\ stream[d].user \in User /\ stream[d].subject = subject[stream[d].user]
        /\ stream[d].subject # Tokens!NoSubject
    BY <1>6, <2>1 DEF SessionsInv, StreamsInv
  <2>3. stream[d].user # u
    <3>1. stream[d] = [user |-> stream[d].user, subject |-> stream[d].subject]
      BY <1>3
    <3>2. stream[d] # [user |-> u, subject |-> subject[u]]
      BY <2>1 DEF Tokens!Subscribers
    <3> QED
      BY <2>2, <3>1, <3>2
  <2> QED
    BY <1>3, <1>4, <2>1, <2>2, <2>3
<1>7. StreamsInv'
  BY <1>6 DEF StreamsInv, Tokens!Closed, Tokens!NoSubject
<1>8. Tokens!TypeOK'
  BY <1>1, <1>4, <1>5 DEF SessionsInv, Tokens!TypeOK
<1>9. TokensInv' /\ RenewInv'
  BY <1>1 DEF SessionsInv, TokensInv, RenewInv
<1> QED
  BY <1>7, <1>8, <1>9 DEF SessionsInv

LEMMA SessionsKept ==
    ASSUME SessionsInv, Tokens!Next \/ UNCHANGED sessionVars
    PROVE  SessionsInv'
<1>1. CASE Tokens!Tick \/ UNCHANGED sessionVars
  <2>1. /\ now' \in 0 .. MaxMillis
        /\ UNCHANGED <<issued, access, refresh, blacklist, csrf, renewed, loggedOut,
                       subject, subjects, stream, notified>>
    <3>1. now \in 0 .. MaxMillis
      BY DEF SessionsInv, Tokens!TypeOK
    <3>2. CASE Tokens!Tick
      BY <3>1, <3>2, SessionNumbers DEF Tokens!Tick, Tokens!tokenVars, Tokens!streamVars
    <3>3. CASE UNCHANGED sessionVars
      BY <3>1, <3>3 DEF sessionVars
    <3> QED
      BY <1>1, <3>2, <3>3
  <2>2. Tokens!TypeOK'
    BY <2>1 DEF SessionsInv, Tokens!TypeOK
  <2> QED
    BY <2>1, <2>2 DEF SessionsInv, TokensInv, RenewInv, StreamsInv
<1>2. CASE \E u \in User : Tokens!SignIn(u) \/ Tokens!RemoveSessions(u)
  BY <1>2, SignInKeeps, QuietSessionKeeps
<1>3. CASE \E u \in User \cup {Nobody} : Tokens!SignInOnly(u)
  BY <1>3, SignInKeeps
<1>4. CASE \E n \in 1 .. issued : Tokens!Refresh(n)
  BY <1>4, QuietSessionKeeps
<1>5. CASE \E c \in Client : Tokens!CloseStream(c)
  BY <1>5, CloseKeeps
<1>6. CASE \E t \in access : \/ Tokens!GetCsrfToken(t) \/ Tokens!CsrfExpires(t)
                             \/ \E c \in Client : Tokens!OpenStream(c, t)
                             \/ \E done \in 0 .. 3 : Tokens!Logout(t, done) \/ Tokens!LogoutAll(t, done)
  BY <1>6, QuietSessionKeeps, OpenKeeps, LogoutKeeps
<1> QED
  BY <1>1, <1>2, <1>3, <1>4, <1>5, <1>6 DEF Tokens!Next

\* What the invariant says of the properties.
LEMMA SessionsSafe ==
    ASSUME SessionsInv
    PROVE  Tokens!LoggedOutRefused /\ Tokens!NoOrphanStreams /\ Tokens!NothingRenewed
<1>1. ASSUME NEW t \in loggedOut, t.jti, Tokens!Accepted(t) PROVE FALSE
  <2>1. t \in access
    BY DEF SessionsInv, Tokens!TypeOK
  <2>2. PICK until \in Nat : until = t.exp * Milli /\ now < until
    BY <1>1, <2>1, AcceptedLives
  <2>3. blacklist[t.id] >= until
    BY <1>1, <2>2 DEF SessionsInv, TokensInv
  <2>4. blacklist[t.id] \in Nat /\ now \in Nat
    BY <2>1 DEF SessionsInv, Tokens!TypeOK, Tokens!AccessToken
  <2>5. blacklist[t.id] > now
    BY <2>2, <2>3, <2>4
  <2> QED
    BY <1>1, <2>5 DEF Tokens!Accepted, Tokens!IsBlacklisted
<1> QED
  BY <1>1 DEF SessionsInv, RenewInv, StreamsInv, Tokens!LoggedOutRefused, Tokens!NoOrphanStreams,
     Tokens!NothingRenewed

-----------------------------------------------------------------------------
(* The rows of the users *)

LEMMA RowNumbers ==
    /\ OtpMaxAttempts \in Nat /\ OtpResendLimit \in Nat /\ MaxClock \in Nat
    /\ Password \subseteq Nat /\ Undefined \notin Nat /\ Undefined \notin BOOLEAN
BY Given DEF Rows!AccountsAssumption

Columns == {"present", "deleted", "password", "code", "attempts", "invalidated", "resends", "verified"}

\* The patch of a profile update that says that the user is not verified.
TakesBack(patch) == patch = [verified |-> FALSE]

\* A patch writes none of the columns that hold the row together.  It has a new code if one
\* will be mailed, else the code stays.
GoodPatch(patch, mail) ==
    /\ DOMAIN patch \subseteq Columns \ {"present", "deleted"}
    /\ "password" \in DOMAIN patch => patch.password \in Nat
    /\ "attempts" \in DOMAIN patch => patch.attempts \in Nat
    /\ "resends" \in DOMAIN patch => patch.resends \in Nat
    /\ "invalidated" \in DOMAIN patch => patch.invalidated \in BOOLEAN \cup {Undefined}
    /\ "verified" \in DOMAIN patch => patch.verified \in BOOLEAN
    /\ "verified" \in DOMAIN patch => patch.verified = TRUE \/ TakesBack(patch)
    /\ mail # Rows!None => "code" \in DOMAIN patch /\ patch.code = mail
    /\ mail = Rows!None /\ "code" \in DOMAIN patch => patch.code = Undefined

\* What may be saved.
GoodCopy(copy) ==
    /\ copy.present = TRUE /\ copy.deleted \in BOOLEAN /\ copy.password \in Nat
    /\ copy.code \in 0 .. MaxClock \cup {Undefined}
    /\ copy.attempts \in Nat /\ copy.invalidated \in BOOLEAN \cup {Undefined}
    /\ copy.resends \in Nat /\ copy.verified \in BOOLEAN

\* What may be saved over this row without undoing anything.
Fresh(row, copy, patch, mail) ==
    /\ mail # Rows!None => copy.code = mail
    /\ mail = Rows!None => copy.code \in {Undefined, row.code}
    /\ row.verified => copy.verified \/ TakesBack(patch)

\* The columns an update writes, and those it leaves out because the row has their values.
GoodColumns(columns, copy) == columns \subseteq Columns /\ \A c \in columns : copy[c] # Undefined
LeftOut(row, columns, copy) ==
    \A c \in {"code", "verified"} : c \in columns \/ copy[c] \in {Undefined, row[c]}

Saves(q) == q.at \in {"save", "write"}

RequestHolds(r) ==
    LET q == request[r]
    IN  /\ q.at # "idle" => q.u \in User
        /\ q.at = "verify" => q.attempts \in Nat
        /\ q.at \in {"resend", "window"} => q.resends \in Nat
        /\ q.at = "window" => q.stamps \subseteq 1 .. clock
        /\ q.at = "update" \/ Saves(q) =>
              /\ q.mail \in 0 .. MaxClock /\ GoodPatch(q.patch, q.mail)
              /\ q.after \in {"idle", "mail", "clear"} /\ (q.after = "mail" <=> q.mail # Rows!None)
        /\ Saves(q) =>
              /\ user[q.u].present /\ GoodCopy(q.copy)
              /\ q.u \notin overlapped => Fresh(user[q.u], q.copy, q.patch, q.mail)
        /\ q.at = "write" =>
              /\ GoodColumns(q.columns, q.copy)
              /\ q.u \notin overlapped => LeftOut(user[q.u], q.columns, q.copy)
        /\ q.at = "mail" =>
              /\ user[q.u].present /\ q.mail \in 0 .. MaxClock
              /\ q.u \notin overlapped => user[q.u].code = q.mail

\* Requests that cross on one user were seen to.
Crosses(p, q) ==
    /\ p.u = q.u
    /\ Saves(p)
    /\ Saves(q) \/ (q.at = "mail" /\ p.mail # Rows!None)

OverlapSeen ==
    \A r, s \in Request : r # s /\ Crosses(request[r], request[s]) => request[r].u \in overlapped

RowsInv ==
    /\ Rows!TypeOK
    /\ window \in [User -> SUBSET Nat] /\ latest \in [User -> 0 .. MaxClock]
    /\ request = [r \in Request |-> request[r]]
    /\ \A u \in User : user[u].verified => user[u].present
    /\ \A r \in Request : RequestHolds(r)
    /\ OverlapSeen
    /\ Rows!MailedCodeStored

\* What a request that another step leaves alone holds stays true.
LEMMA HoldsStill ==
    ASSUME NEW r \in Request, RequestHolds(r), request'[r] = request[r],
           \A i \in 1 .. clock : i \in 1 .. clock',
           overlapped \subseteq overlapped',
           LET q == request[r]
           IN  Saves(q) \/ q.at = "mail" =>
                  /\ user'[q.u].present
                  /\ q.u \notin overlapped' => /\ user'[q.u].code = user[q.u].code
                                               /\ user'[q.u].verified = user[q.u].verified
    PROVE  RequestHolds(r)'
<1> DEFINE q == request[r]
<1>1. Saves(q)' = Saves(q) /\ request'[r] = q
  BY DEF Saves
<1>2. q.at = "window" => q.stamps \subseteq 1 .. clock'
  BY DEF RequestHolds
<1>3. Saves(q) /\ q.u \notin overlapped' => Fresh(user'[q.u], q.copy, q.patch, q.mail)
  BY DEF RequestHolds, Fresh
<1>4. q.at = "write" /\ q.u \notin overlapped' => LeftOut(user'[q.u], q.columns, q.copy)
  BY DEF RequestHolds, LeftOut, Saves
<1>5. q.at = "mail" /\ q.u \notin overlapped' => user'[q.u].code = q.mail
  BY DEF RequestHolds
<1>6. q.at = "update" \/ Saves(q) =>
              /\ q.mail \in 0 .. MaxClock /\ GoodPatch(q.patch, q.mail)
              /\ q.after \in {"idle", "mail", "clear"} /\ (q.after = "mail" <=> q.mail # Rows!None)
  BY DEF RequestHolds
<1>7. /\ q.at # "idle" => q.u \in User
      /\ q.at = "verify" => q.attempts \in Nat
      /\ q.at \in {"resend", "window"} => q.resends \in Nat
      /\ Saves(q) => GoodCopy(q.copy)
      /\ q.at = "write" => GoodColumns(q.columns, q.copy)
      /\ q.at = "mail" => q.mail \in 0 .. MaxClock
  BY DEF RequestHolds
<1> HIDE DEF q
<1>8. /\ Saves(q) => user'[q.u].present
      /\ q.at = "mail" => user'[q.u].present
  BY DEF q
<1> QED
  BY <1>1, <1>2, <1>3, <1>4, <1>5, <1>6, <1>7, <1>8
     DEF RequestHolds, GoodPatch, GoodCopy, GoodColumns, TakesBack, Saves, Fresh, LeftOut, Rows!None

LEMMA AssignedCopy ==
    ASSUME NEW row \in Rows!UserRow, row.present, NEW mail \in 0 .. MaxClock,
           NEW patch, GoodPatch(patch, mail)
    PROVE  /\ GoodCopy(Rows!Assigned(row, patch))
           /\ Fresh(row, Rows!Assigned(row, patch), patch, mail)
<1> DEFINE copy == Rows!Assigned(row, patch)
<1>1. DOMAIN row = Columns
  BY DEF Rows!UserRow, Columns
<1>2. \A c \in DOMAIN row : copy[c] = IF c \in DOMAIN patch THEN patch[c] ELSE row[c]
  BY DEF Rows!Assigned
<1> HIDE DEF copy
<1>3. /\ copy.present = row.present /\ copy.deleted = row.deleted
  BY <1>1, <1>2 DEF GoodPatch, Columns
<1>4. /\ copy.password = IF "password" \in DOMAIN patch THEN patch.password ELSE row.password
      /\ copy.code = IF "code" \in DOMAIN patch THEN patch.code ELSE row.code
      /\ copy.attempts = IF "attempts" \in DOMAIN patch THEN patch.attempts ELSE row.attempts
      /\ copy.resends = IF "resends" \in DOMAIN patch THEN patch.resends ELSE row.resends
      /\ copy.invalidated = IF "invalidated" \in DOMAIN patch THEN patch.invalidated ELSE row.invalidated
      /\ copy.verified = IF "verified" \in DOMAIN patch THEN patch.verified ELSE row.verified
  BY <1>1, <1>2 DEF Columns
<1>5. /\ row.present \in BOOLEAN /\ row.deleted \in BOOLEAN /\ row.password \in Nat
      /\ row.code \in 0 .. MaxClock /\ row.attempts \in Nat /\ row.resends \in Nat
      /\ row.invalidated \in BOOLEAN /\ row.verified \in BOOLEAN
  BY DEF Rows!UserRow
<1>6. /\ copy.present = TRUE /\ copy.deleted \in BOOLEAN /\ copy.password \in Nat
      /\ copy.attempts \in Nat /\ copy.resends \in Nat
  BY <1>3, <1>4, <1>5 DEF GoodPatch
<1>7. copy.invalidated \in BOOLEAN \cup {Undefined} /\ copy.verified \in BOOLEAN
  BY <1>4, <1>5 DEF GoodPatch
<1>8. copy.code \in 0 .. MaxClock \cup {Undefined}
  BY <1>4, <1>5 DEF GoodPatch
<1>9. Fresh(row, copy, patch, mail)
  <2>1. mail # Rows!None => copy.code = mail
    BY <1>4 DEF GoodPatch
  <2>2. mail = Rows!None => copy.code \in {Undefined, row.code}
    BY <1>4 DEF GoodPatch
  <2>3. row.verified => copy.verified \/ TakesBack(patch)
    BY <1>4 DEF GoodPatch
  <2> QED
    BY <2>1, <2>2, <2>3 DEF Fresh
<1> QED
  BY <1>6, <1>7, <1>8, <1>9 DEF GoodCopy, copy

\* What repo.save selects, it compares.
LEMMA ChangedColumns ==
    ASSUME NEW row \in Rows!UserRow, NEW copy
    PROVE  /\ GoodColumns(Rows!Changed(row, copy), copy)
           /\ LeftOut(row, Rows!Changed(row, copy), copy)
<1>1. DOMAIN row = Columns
  BY DEF Rows!UserRow, Columns
<1> QED
  BY <1>1 DEF Rows!Changed, GoodColumns, LeftOut, Columns

LEMMA WrittenRow ==
    ASSUME NEW row \in Rows!UserRow, row.present, NEW copy, GoodCopy(copy),
           NEW columns, GoodColumns(columns, copy)
    PROVE  /\ Rows!Written(row, copy, columns) \in Rows!UserRow
           /\ Rows!Written(row, copy, columns).present
           /\ LeftOut(row, columns, copy) =>
                 /\ Rows!Written(row, copy, columns).verified = copy.verified
                 /\ Rows!Written(row, copy, columns).code = IF copy.code = Undefined THEN row.code ELSE copy.code
<1> DEFINE new == Rows!Written(row, copy, columns)
<1>1. DOMAIN row = Columns
  BY DEF Rows!UserRow, Columns
<1>2. new = [c \in DOMAIN row |-> IF c \in columns THEN copy[c] ELSE row[c]]
  BY DEF Rows!Written
<1> HIDE DEF new
<1>3. new.present = TRUE /\ new.deleted \in BOOLEAN
  BY <1>1, <1>2 DEF GoodCopy, Columns, Rows!UserRow
<1>4. new.password \in Nat /\ new.attempts \in Nat /\ new.resends \in Nat
  BY <1>1, <1>2 DEF GoodCopy, Columns, Rows!UserRow
<1>5. new.invalidated \in BOOLEAN /\ new.verified \in BOOLEAN
  BY <1>1, <1>2 DEF GoodCopy, GoodColumns, Columns, Rows!UserRow
<1>6. new.code \in 0 .. MaxClock
  BY <1>1, <1>2 DEF GoodCopy, GoodColumns, Columns, Rows!UserRow
<1>7. new \in Rows!UserRow
  BY <1>1, <1>2, <1>3, <1>4, <1>5, <1>6 DEF Rows!UserRow, Columns
<1>8. ASSUME LeftOut(row, columns, copy)
      PROVE  /\ new.verified = copy.verified
             /\ new.code = IF copy.code = Undefined THEN row.code ELSE copy.code
  <2>1. "code" \in DOMAIN row /\ "verified" \in DOMAIN row
    BY <1>1 DEF Columns
  <2>2. copy.verified # Undefined
    BY RowNumbers DEF GoodCopy
  <2>3. new.verified = copy.verified
    BY <1>2, <1>8, <2>1, <2>2 DEF LeftOut
  <2>4. "code" \in columns => copy.code # Undefined
    BY DEF GoodColumns
  <2>5. new.code = IF copy.code = Undefined THEN row.code ELSE copy.code
    BY <1>2, <1>8, <2>1, <2>4 DEF LeftOut
  <2> QED
    BY <2>3, <2>5
<1> QED
  BY <1>3, <1>7, <1>8 DEF new

\* A new user's row.
LEMMA NewRow ==
    ASSUME NEW password \in Nat, NEW code \in 0 .. MaxClock
    PROVE  /\ Rows!NewUser(password, code) \in Rows!UserRow
           /\ Rows!NewUser(password, code).present /\ ~Rows!NewUser(password, code).verified
           /\ Rows!NewUser(password, code).code = code
BY DEF Rows!NewUser, Rows!UserRow

LEMMA RowsInit == ASSUME Rows!Init PROVE RowsInv
<1>1. Rows!NoUser \in Rows!UserRow /\ ~Rows!NoUser.verified /\ Rows!NoUser.code = 0
  <2>1. PICK row \in Rows!UserRow : row = Rows!NewUser(0, Rows!None) /\ ~row.verified /\ row.code = 0
    BY NewRow, RowNumbers DEF Rows!None
  <2>2. Rows!NoUser = [row EXCEPT !.present = FALSE]
    BY <2>1, Zenon DEF Rows!NoUser
  <2> QED
    BY <2>1, <2>2 DEF Rows!UserRow
<1>2. /\ user = [u \in User |-> Rows!NoUser] /\ window = [u \in User |-> {}]
      /\ request = [r \in Request |-> Rows!Idle] /\ latest = [u \in User |-> 0]
      /\ clock = 0 /\ codeAge = 0 /\ windowAge = 0 /\ overlapped = {}
  BY DEF Rows!Init, Rows!None
<1>3. \A r \in Request : request[r].at = "idle"
  BY <1>2 DEF Rows!Idle
<1>4. Rows!TypeOK
  BY <1>1, <1>2, <1>3, RowNumbers DEF Rows!TypeOK
<1>5. \A r \in Request : RequestHolds(r)
  BY <1>3 DEF RequestHolds, Saves
<1>6. OverlapSeen
  BY <1>3 DEF OverlapSeen, Crosses, Saves
<1>7. Rows!MailedCodeStored
  BY <1>1, <1>2 DEF Rows!MailedCodeStored
<1> QED
  BY <1>1, <1>2, <1>4, <1>5, <1>6, <1>7, RowNumbers DEF RowsInv

\* The times and windows a step may leave behind.
TimesOK ==
    /\ clock \in 0 .. MaxClock /\ windowAge \in 0 .. clock /\ codeAge \in 0 .. windowAge
    /\ window \in [User -> SUBSET Nat] /\ \A u \in User : window[u] \subseteq 1 .. clock

LEMMA TimesAreOK == RowsInv => TimesOK
BY DEF RowsInv, Rows!TypeOK, TimesOK

Places == {"idle", "verify", "resend", "window", "update", "save", "write", "mail", "clear"}

\* Two requests that were not seen to cross before, and of which one moved.
LEMMA MoveSeen ==
    ASSUME RowsInv, NEW r \in Request, NEW state, request' = [request EXCEPT ![r] = state],
           overlapped \subseteq overlapped',
           \A s \in Request \ {r} :
               Crosses(state, request[s]) \/ Crosses(request[s], state) => state.u \in overlapped'
    PROVE  OverlapSeen'
<1>1. request'[r] = state /\ \A s \in Request \ {r} : request'[s] = request[s]
  BY DEF RowsInv
<1> SUFFICES ASSUME NEW p \in Request, NEW q \in Request, p # q, Crosses(request'[p], request'[q])
             PROVE  request'[p].u \in overlapped'
  BY DEF OverlapSeen, Crosses, Saves
<1>2. CASE p = r
  BY <1>1, <1>2
<1>3. CASE q = r
  <2>1. request'[p].u = state.u
    BY <1>1, <1>3 DEF Crosses
  <2> QED
    BY <1>1, <1>3, <2>1
<1>4. CASE p # r /\ q # r
  BY <1>1, <1>4 DEF RowsInv, OverlapSeen
<1> QED
  BY <1>2, <1>3, <1>4

\* Steps that move one request, which mails nothing, and write no row.
LEMMA RequestKeeps ==
    ASSUME RowsInv, NEW r \in Request, NEW state, request' = [request EXCEPT ![r] = state],
           UNCHANGED <<user, latest>>, TimesOK', clock <= clock',
           request[r].at # "mail", state.at \in Places \ {"mail"}, RequestHolds(r)',
           overlapped \subseteq overlapped', overlapped' \subseteq User,
           \A s \in Request \ {r} :
               Crosses(state, request[s]) \/ Crosses(request[s], state) => state.u \in overlapped'
    PROVE  RowsInv'
<1>1. /\ request' = [s \in Request |-> request'[s]]
      /\ request'[r] = state /\ \A s \in Request \ {r} : request'[s] = request[s]
  BY DEF RowsInv
<1>2. Rows!TypeOK'
  BY <1>1 DEF RowsInv, Rows!TypeOK, TimesOK, Places
<1>3. ASSUME NEW s \in Request PROVE RequestHolds(s)'
  <2>1. CASE s = r
    BY <2>1
  <2>2. CASE s # r
    <3>1. request'[s] = request[s] /\ RequestHolds(s)
      BY <1>1, <2>2 DEF RowsInv
    <3>2. \A i \in 1 .. clock : i \in 1 .. clock'
      BY DEF RowsInv, Rows!TypeOK, TimesOK
    <3>3. Saves(request[s]) \/ request[s].at = "mail" => user[request[s].u].present
      BY <3>1 DEF RequestHolds
    <3> QED
      BY <3>1, <3>2, <3>3, HoldsStill
  <2> QED
    BY <2>1, <2>2
<1>4. OverlapSeen'
  BY MoveSeen
<1>5. Rows!MailedCodeStored'
  <2> SUFFICES ASSUME NEW u \in User \ overlapped', user[u].code \notin {Rows!None, latest[u]}
               PROVE  \E s \in Request : /\ request'[s].at = "mail" /\ request'[s].u = u
                                         /\ user[u].code = request'[s].mail
    BY DEF Rows!MailedCodeStored, Rows!Unmailed, Rows!Mailing, Rows!At
  <2>1. PICK s \in Request : request[s].at = "mail" /\ request[s].u = u /\ user[u].code = request[s].mail
    BY DEF RowsInv, Rows!MailedCodeStored, Rows!Unmailed, Rows!Mailing, Rows!At
  <2> QED
    BY <1>1, <2>1
<1>6. window' \in [User -> SUBSET Nat] /\ latest' \in [User -> 0 .. MaxClock]
  BY DEF RowsInv, TimesOK
<1>7. \A u \in User : user'[u].verified => user'[u].present
  BY DEF RowsInv
<1> QED
  BY <1>1, <1>2, <1>3, <1>4, <1>5, <1>6, <1>7 DEF RowsInv

\* A call of UsersService.update is a good one.
LEMMA UpdateKeeps ==
    ASSUME RowsInv, NEW r \in Request, request[r].at # "mail",
           NEW u \in User, NEW mail \in 0 .. MaxClock, NEW patch, NEW after \in {"idle", "mail", "clear"},
           after = "mail" <=> mail # Rows!None,
           GoodPatch(patch, mail), Rows!Update(r, u, after, mail, patch),
           UNCHANGED <<user, latest, overlapped>>, TimesOK', clock <= clock'
    PROVE  RowsInv'
<1> DEFINE state == [at |-> "update", u |-> u, after |-> after, mail |-> mail, patch |-> patch]
<1>1. request' = [request EXCEPT ![r] = state]
  BY DEF Rows!Update, Rows!Go
<1>2. request'[r] = state
  BY <1>1 DEF RowsInv
<1>3. /\ state.at = "update" /\ state.u = u /\ state.mail = mail /\ state.patch = patch
      /\ state.after = after
  OBVIOUS
<1> HIDE DEF state
<1>4. RequestHolds(r)'
  BY <1>2, <1>3 DEF RequestHolds, GoodPatch, TakesBack, Saves, Rows!None
<1>5. overlapped \subseteq User
  BY DEF RowsInv, Rows!TypeOK
<1>6. \A q : ~Crosses(state, q) /\ ~Crosses(q, state)
  BY <1>3 DEF Crosses, Saves
<1> QED
  BY <1>1, <1>3, <1>4, <1>5, <1>6, RequestKeeps DEF Places

\* So is taking a copy to save.
LEMMA SaveStarts ==
    ASSUME RowsInv, NEW r \in Request, ~Saves(request[r]), request[r].at # "mail",
           NEW u \in User, NEW mail \in 0 .. MaxClock, NEW patch, NEW after \in {"idle", "mail", "clear"},
           after = "mail" <=> mail # Rows!None,
           GoodPatch(patch, mail), Rows!Found(u), Rows!GoSave(r, u, after, mail, patch), Rows!Overlap(u, mail),
           UNCHANGED <<user, latest, clock>>, TimesOK'
    PROVE  RowsInv'
<1> DEFINE copy == Rows!Assigned(user[u], patch)
           state == [at |-> "save", u |-> u, after |-> after, mail |-> mail, patch |-> patch, copy |-> copy]
<1>1. user[u] \in Rows!UserRow /\ user[u].present
  BY DEF RowsInv, Rows!TypeOK, Rows!Found
<1>2. GoodCopy(copy) /\ Fresh(user[u], copy, patch, mail)
  BY <1>1, AssignedCopy
<1>3. request' = [request EXCEPT ![r] = state]
  BY DEF Rows!GoSave, Rows!Go
<1> HIDE DEF copy
<1>4. request'[r] = state
  BY <1>3 DEF RowsInv
<1>5. /\ state.at = "save" /\ state.u = u /\ state.mail = mail /\ state.patch = patch
      /\ state.copy = copy /\ state.after = after
  OBVIOUS
<1> HIDE DEF state
<1>6. RequestHolds(r)'
  BY <1>1, <1>2, <1>4, <1>5 DEF RequestHolds, GoodPatch, GoodCopy, Fresh, TakesBack, Saves, Rows!None
<1>7. /\ overlapped \subseteq overlapped' /\ overlapped' \subseteq User
      /\ \A s \in Request \ {r} : Saves(request[s]) /\ request[s].u = u => u \in overlapped'
      /\ mail # Rows!None =>
            \A s \in Request \ {r} : request[s].at = "mail" /\ request[s].u = u => u \in overlapped'
  BY DEF RowsInv, Rows!TypeOK, Rows!Overlap, Rows!Saving, Rows!Mailing, Rows!At, Saves
<1>8. \A s \in Request \ {r} :
         Crosses(state, request[s]) \/ Crosses(request[s], state) => state.u \in overlapped'
  BY <1>5, <1>7 DEF Crosses, Saves
<1>9. clock <= clock'
  BY RowNumbers DEF RowsInv, Rows!TypeOK
<1> QED
  BY <1>3, <1>5, <1>6, <1>7, <1>8, <1>9, RequestKeeps DEF Places

\* A request that ends, or waits for a comparison or for the cache.
LEMMA RestKeeps ==
    ASSUME RowsInv, NEW r \in Request, request[r].at # "mail", NEW state, Rows!Go(r, state),
           UNCHANGED <<user, latest, overlapped>>, TimesOK', clock <= clock',
           \/ state.at = "idle"
           \/ state.at = "verify" /\ state.u \in User /\ state.attempts \in Nat
           \/ state.at = "resend" /\ state.u \in User /\ state.resends \in Nat
           \/ /\ state.at = "window" /\ state.u \in User /\ state.resends \in Nat
              /\ state.stamps \subseteq 1 .. clock'
    PROVE  RowsInv'
<1>1. request' = [request EXCEPT ![r] = state] /\ request'[r] = state
  BY DEF RowsInv, Rows!Go
<1>2. RequestHolds(r)'
  BY <1>1 DEF RequestHolds, Saves
<1>3. overlapped \subseteq User
  BY DEF RowsInv, Rows!TypeOK
<1>4. \A q : ~Crosses(state, q) /\ ~Crosses(q, state)
  BY DEF Crosses, Saves
<1> QED
  BY <1>1, <1>2, <1>3, <1>4, RequestKeeps DEF Places

\* The times a step keeps, and those a new code takes.
LEMMA SameTimes ==
    ASSUME RowsInv, UNCHANGED <<clock, codeAge, windowAge, window>>
    PROVE  TimesOK' /\ clock <= clock' /\ clock' = clock
<1>1. TimesOK /\ clock \in Nat
  BY TimesAreOK, RowNumbers DEF TimesOK
<1>2. clock <= clock
  BY <1>1
<1> QED
  BY <1>1, <1>2 DEF TimesOK

LEMMA NewCode ==
    ASSUME RowsInv, clock < MaxClock, clock' = clock + 1, UNCHANGED <<codeAge, windowAge>>,
           window' \in [User -> SUBSET Nat], \A u \in User : window'[u] \subseteq 1 .. clock'
    PROVE  /\ TimesOK' /\ clock <= clock'
           /\ clock + 1 \in 1 .. MaxClock /\ clock + 1 \in 1 .. clock' /\ clock + 1 # Rows!None
           /\ \A i \in 1 .. clock : i \in 1 .. clock'
<1>1. TimesOK
  BY TimesAreOK
<1>2. clock' \in 0 .. MaxClock /\ clock <= clock' /\ clock + 1 \in 1 .. MaxClock
  BY <1>1, RowNumbers DEF TimesOK
<1>3. \A i \in 0 .. clock : i \in 0 .. clock'
  BY <1>1, <1>2, RowNumbers DEF TimesOK
<1>4. \A i \in 1 .. clock : i \in 1 .. clock'
  BY <1>1, <1>2, RowNumbers DEF TimesOK
<1>5. windowAge' \in 0 .. clock' /\ codeAge' \in 0 .. windowAge'
  BY <1>1, <1>3 DEF TimesOK
<1>6. TimesOK'
  BY <1>2, <1>5 DEF TimesOK
<1> QED
  BY <1>2, <1>4, <1>6 DEF Rows!None

\* A window that a step leaves alone.
LEMMA SameWindow ==
    ASSUME RowsInv, clock < MaxClock, clock' = clock + 1, window' = window
    PROVE  window' \in [User -> SUBSET Nat] /\ \A u \in User : window'[u] \subseteq 1 .. clock'
<1>1. TimesOK /\ clock \in Nat
  BY TimesAreOK, RowNumbers DEF TimesOK
<1>2. \A i \in 1 .. clock : i \in 1 .. clock'
  BY <1>1
<1> QED
  BY <1>1, <1>2 DEF TimesOK

LEMMA LoadKeeps == ASSUME RowsInv, NEW r \in Request, Rows!LoadUser(r) PROVE RowsInv'
<1>1. request[r].at = "update" /\ UNCHANGED <<user, window, clock, codeAge, windowAge, latest>>
  BY DEF Rows!LoadUser, Rows!At, Rows!times
<1>2. TimesOK' /\ clock <= clock' /\ clock' = clock
  BY <1>1, SameTimes
<1>3. /\ request[r].u \in User /\ request[r].mail \in 0 .. MaxClock
      /\ GoodPatch(request[r].patch, request[r].mail)
      /\ request[r].after \in {"idle", "mail", "clear"}
      /\ request[r].after = "mail" <=> request[r].mail # Rows!None
      /\ ~Saves(request[r])
  BY <1>1 DEF RowsInv, RequestHolds, Saves
<1>4. CASE Rows!Found(request[r].u)
  <2>1. /\ Rows!GoSave(r, request[r].u, request[r].after, request[r].mail, request[r].patch)
        /\ Rows!Overlap(request[r].u, request[r].mail)
    BY <1>4 DEF Rows!LoadUser
  <2>2. PICK u \in User, mail \in 0 .. MaxClock, after \in {"idle", "mail", "clear"} :
           u = request[r].u /\ mail = request[r].mail /\ after = request[r].after
    BY <1>3
  <2>3. PICK patch : patch = request[r].patch
    OBVIOUS
  <2> QED
    BY <1>1, <1>2, <1>3, <1>4, <2>1, <2>2, <2>3, SaveStarts
<1>5. CASE ~Rows!Found(request[r].u)
  <2>1. Rows!Go(r, Rows!Idle) /\ UNCHANGED overlapped
    BY <1>5 DEF Rows!LoadUser, Rows!Done
  <2>2. Rows!Idle.at = "idle"
    BY DEF Rows!Idle
  <2> QED
    BY <1>1, <1>2, <2>1, <2>2, RestKeeps
<1> QED
  BY <1>4, <1>5

LEMMA SelectKeeps == ASSUME RowsInv, NEW r \in Request, Rows!SelectUser(r) PROVE RowsInv'
<1> DEFINE q == request[r]
           columns == Rows!Changed(user[q.u], q.copy)
           state == [at |-> "write", u |-> q.u, after |-> q.after, mail |-> q.mail, patch |-> q.patch,
                     copy |-> q.copy, columns |-> columns]
<1>1. /\ request[r].at = "save" /\ UNCHANGED <<user, window, clock, codeAge, windowAge, latest, overlapped>>
      /\ request' = [request EXCEPT ![r] = state]
  BY DEF Rows!SelectUser, Rows!At, Rows!times, Rows!Go
<1>2. RequestHolds(r) /\ user[q.u] \in Rows!UserRow
  BY <1>1 DEF RowsInv, Rows!TypeOK, RequestHolds
<1>3. GoodColumns(columns, q.copy) /\ LeftOut(user[q.u], columns, q.copy)
  BY <1>2, ChangedColumns
<1>4. request'[r] = state
  BY <1>1 DEF RowsInv
<1> HIDE DEF columns
<1>5. /\ state.at = "write" /\ state.u = q.u /\ state.mail = q.mail /\ state.patch = q.patch
      /\ state.copy = q.copy /\ state.columns = columns /\ state.after = q.after
  OBVIOUS
<1> HIDE DEF state
<1>6. RequestHolds(r)'
  <2>1. Saves(q) /\ Saves(state)
    BY <1>1, <1>5 DEF Saves
  <2>2. /\ q.u \in User /\ q.mail \in 0 .. MaxClock /\ GoodPatch(q.patch, q.mail)
        /\ q.after \in {"idle", "mail", "clear"} /\ (q.after = "mail" <=> q.mail # Rows!None)
        /\ user[q.u].present /\ GoodCopy(q.copy)
        /\ q.u \notin overlapped => Fresh(user[q.u], q.copy, q.patch, q.mail)
    BY <1>2, <2>1 DEF RequestHolds, Saves
  <2> HIDE DEF q
  <2> QED
    BY <1>1, <1>3, <1>4, <1>5, <2>1, <2>2
       DEF RequestHolds, GoodPatch, GoodCopy, GoodColumns, LeftOut, Fresh, TakesBack, Saves, Rows!None
<1>7. \A s \in Request \ {r} :
         Crosses(state, request[s]) \/ Crosses(request[s], state) => state.u \in overlapped'
  <2> SUFFICES ASSUME NEW s \in Request \ {r}, Crosses(state, request[s]) \/ Crosses(request[s], state)
               PROVE  state.u \in overlapped'
    OBVIOUS
  <2>1. Crosses(q, request[s]) \/ Crosses(request[s], q)
    BY <1>1, <1>5 DEF Crosses, Saves
  <2>2. q.u = request[s].u
    BY <2>1 DEF Crosses
  <2> QED
    BY <1>1, <1>5, <2>1, <2>2 DEF RowsInv, OverlapSeen
<1>8. overlapped \subseteq User /\ TimesOK' /\ clock <= clock'
  BY <1>1, SameTimes DEF RowsInv, Rows!TypeOK
<1> QED
  BY <1>1, <1>5, <1>6, <1>7, <1>8, RequestKeeps DEF Places

\* Every patch the handlers make is a good one.
LEMMA Patches ==
    /\ GoodPatch(Rows!VerifiedPatch, Rows!None)
    /\ \A n \in Nat : GoodPatch(Rows!WrongPatch(n), Rows!None)
    /\ \A c \in Nat \ {0}, n \in Nat : GoodPatch(Rows!ResendPatch(c, n), c)
    /\ \A c \in Nat \ {0} : GoodPatch([code |-> c], c)
    /\ \A p \in Nat : GoodPatch([password |-> p, code |-> Undefined], Rows!None)
    /\ \A p \in Nat : GoodPatch([password |-> p], Rows!None)
    /\ \A patch \in Rows!ProfilePatches : GoodPatch(patch, Rows!None)
<1>1. GoodPatch(Rows!VerifiedPatch, Rows!None)
  BY DEF GoodPatch, Rows!VerifiedPatch, Rows!None, Columns
<1>2. ASSUME NEW n \in Nat PROVE GoodPatch(Rows!WrongPatch(n), Rows!None)
  BY DEF GoodPatch, Rows!WrongPatch, Rows!None, Columns
<1>3. ASSUME NEW c \in Nat \ {0}, NEW n \in Nat PROVE GoodPatch(Rows!ResendPatch(c, n), c)
  BY DEF GoodPatch, Rows!ResendPatch, Rows!None, Columns
<1>4. ASSUME NEW c \in Nat \ {0} PROVE GoodPatch([code |-> c], c)
  BY DEF GoodPatch, Rows!None, Columns
<1>5. ASSUME NEW p \in Nat PROVE GoodPatch([password |-> p, code |-> Undefined], Rows!None)
  BY DEF GoodPatch, Rows!None, Columns
<1>6. ASSUME NEW p \in Nat PROVE GoodPatch([password |-> p], Rows!None)
  BY DEF GoodPatch, Rows!None, Columns
<1>7. ASSUME NEW patch \in Rows!ProfilePatches PROVE GoodPatch(patch, Rows!None)
  <2>1. CASE patch = [c \in {} |-> Rows!None]
    BY <2>1 DEF GoodPatch, Rows!None, Columns
  <2>2. ASSUME NEW verified \in BOOLEAN, patch = [verified |-> verified] PROVE GoodPatch(patch, Rows!None)
    <3>1. DOMAIN patch = {"verified"} /\ patch.verified = verified
      BY <2>2
    <3>2. patch.verified = TRUE \/ TakesBack(patch)
      BY <2>2 DEF TakesBack
    <3>3. patch.verified \in BOOLEAN
      BY <3>1
    <3> QED
      BY <3>1, <3>2, <3>3 DEF GoodPatch, Columns
  <2> QED
    BY <2>1, <2>2 DEF Rows!ProfilePatches
<1> QED
  BY <1>1, <1>2, <1>3, <1>4, <1>5, <1>6, <1>7

LEMMA VerifyKeeps ==
    ASSUME RowsInv, NEW r \in Request,
           \/ \E u \in User : \E otp : Rows!StartVerify(r, u, otp)
           \/ Rows!FinishVerify(r)
    PROVE  RowsInv'
<1>1. ASSUME NEW u \in User, NEW otp, Rows!StartVerify(r, u, otp) PROVE RowsInv'
  <2> DEFINE state == [at |-> "verify", u |-> u, right |-> otp = user[u].code, attempts |-> user[u].attempts]
  <2>1. /\ Rows!Go(r, state) /\ UNCHANGED <<user, latest, overlapped>> /\ request[r].at # "mail"
        /\ UNCHANGED <<clock, codeAge, windowAge, window>>
    BY <1>1 DEF Rows!StartVerify, Rows!times, Rows!At
  <2>2. state.at = "verify" /\ state.u \in User /\ state.attempts \in Nat
    BY DEF RowsInv, Rows!TypeOK, Rows!UserRow
  <2> HIDE DEF state
  <2> QED
    BY <2>1, <2>2, SameTimes, RestKeeps
<1>2. CASE Rows!FinishVerify(r)
  <2>1. /\ request[r].at = "verify" /\ UNCHANGED <<user, latest, overlapped>>
        /\ UNCHANGED <<clock, codeAge, windowAge, window>>
    BY <1>2 DEF Rows!FinishVerify, Rows!At, Rows!times
  <2>2. request[r].u \in User /\ request[r].attempts \in Nat
    BY <2>1 DEF RowsInv, RequestHolds
  <2>3. PICK u \in User, after \in {"idle", "clear"} :
           \E patch : /\ Rows!Update(r, u, after, Rows!None, patch)
                      /\ \/ patch = Rows!VerifiedPatch
                         \/ patch = Rows!WrongPatch(request[r].attempts + 1)
    BY <1>2, <2>2 DEF Rows!FinishVerify
  <2>4. PICK patch : /\ Rows!Update(r, u, after, Rows!None, patch)
                     /\ \/ patch = Rows!VerifiedPatch
                        \/ patch = Rows!WrongPatch(request[r].attempts + 1)
    BY <2>3
  <2>5. GoodPatch(patch, Rows!None)
    BY <2>2, <2>4, Patches
  <2>6. Rows!None \in 0 .. MaxClock
    BY RowNumbers DEF Rows!None
  <2> QED
    BY <2>1, <2>3, <2>4, <2>5, <2>6, SameTimes, UpdateKeeps
<1> QED
  BY <1>1, <1>2

\* A resend that is not refused: its code, its row and its window.
LEMMA ResendUpdates ==
    ASSUME RowsInv, NEW r \in Request, request[r].at \in {"resend", "window"}, Rows!Resend(r),
           UNCHANGED <<user, latest, overlapped>>,
           window' \in [User -> SUBSET Nat], \A u \in User : window'[u] \subseteq 1 .. clock'
    PROVE  RowsInv'
<1>1. /\ clock < MaxClock /\ clock' = clock + 1 /\ UNCHANGED <<codeAge, windowAge>>
      /\ Rows!Update(r, request[r].u, "mail", clock + 1, Rows!ResendPatch(clock + 1, request[r].resends))
  BY DEF Rows!Resend
<1>2. TimesOK' /\ clock <= clock' /\ clock + 1 \in 1 .. MaxClock /\ clock + 1 # Rows!None
  BY <1>1, NewCode
<1>3. request[r].u \in User /\ request[r].resends \in Nat
  BY DEF RowsInv, RequestHolds
<1>4. PICK code \in Nat \ {0} : code = clock + 1 /\ code \in 0 .. MaxClock
  BY <1>2, RowNumbers
<1>5. PICK patch : patch = Rows!ResendPatch(code, request[r].resends) /\ GoodPatch(patch, code)
  BY <1>3, Patches
<1> QED
  BY <1>1, <1>2, <1>3, <1>4, <1>5, UpdateKeeps

LEMMA ResendKeeps ==
    ASSUME RowsInv, NEW r \in Request,
           \/ \E u \in User : Rows!StartResend(r, u)
           \/ Rows!LoadWindow(r) \/ Rows!CheckResend(r) \/ Rows!CountResends(r)
    PROVE  RowsInv'
<1>0. TimesOK /\ Rows!Idle.at = "idle"
  BY TimesAreOK DEF Rows!Idle
<1>1. ASSUME NEW u \in User, Rows!StartResend(r, u) PROVE RowsInv'
  <2> DEFINE state == [at |-> "resend", u |-> u, resends |-> user[u].resends]
  <2>1. /\ Rows!Go(r, state) /\ UNCHANGED <<user, latest, overlapped>> /\ request[r].at # "mail"
        /\ UNCHANGED <<clock, codeAge, windowAge, window>>
    BY <1>1 DEF Rows!StartResend, Rows!times, Rows!At
  <2>2. state.at = "resend" /\ state.u \in User /\ state.resends \in Nat
    BY DEF RowsInv, Rows!TypeOK, Rows!UserRow
  <2> HIDE DEF state
  <2> QED
    BY <2>1, <2>2, SameTimes, RestKeeps
<1>2. CASE Rows!LoadWindow(r)
  <2>1. /\ request[r].at = "resend" /\ UNCHANGED <<user, latest, overlapped>>
        /\ UNCHANGED <<clock, codeAge, windowAge, window>>
    BY <1>2 DEF Rows!LoadWindow, Rows!times, Rows!At
  <2>2. request[r].u \in User /\ request[r].resends \in Nat
    BY <2>1 DEF RowsInv, RequestHolds
  <2>3. PICK stamps \in {{s \in window[request[r].u] : s > windowAge}, {}} :
           Rows!Go(r, [at |-> "window", u |-> request[r].u, resends |-> request[r].resends, stamps |-> stamps])
    BY <1>2 DEF Rows!LoadWindow
  <2>4. stamps \subseteq 1 .. clock'
    BY <1>0, <2>1, <2>2, <2>3 DEF TimesOK
  <2> DEFINE state == [at |-> "window", u |-> request[r].u, resends |-> request[r].resends, stamps |-> stamps]
  <2>5. /\ state.at = "window" /\ state.u \in User /\ state.resends \in Nat
        /\ state.stamps \subseteq 1 .. clock'
    BY <2>2, <2>4
  <2>6. Rows!Go(r, state)
    BY <2>3
  <2> HIDE DEF state
  <2> QED
    BY <2>1, <2>5, <2>6, SameTimes, RestKeeps
<1>3. ASSUME request[r].at \in {"resend", "window"}, Rows!Done(r), UNCHANGED <<user, latest, overlapped>>,
             UNCHANGED <<clock, codeAge, windowAge, window>>
      PROVE  RowsInv'
  <2>1. Rows!Go(r, Rows!Idle)
    BY <1>3 DEF Rows!Done
  <2> QED
    BY <1>0, <1>3, <2>1, SameTimes, RestKeeps
<1>4. CASE Rows!CheckResend(r)
  <2>1. /\ request[r].at = "window" /\ UNCHANGED <<user, latest, overlapped>>
        /\ \/ Rows!Done(r) /\ UNCHANGED <<window, clock, codeAge, windowAge>>
           \/ /\ Rows!Resend(r)
              /\ \E stamps \in {request[r].stamps \cup {clock + 1}, window[request[r].u]} :
                    window' = [window EXCEPT ![request[r].u] = stamps]
    BY <1>4 DEF Rows!CheckResend, Rows!At, Rows!times
  <2>2. ASSUME Rows!Resend(r),
               NEW stamps \in {request[r].stamps \cup {clock + 1}, window[request[r].u]},
               window' = [window EXCEPT ![request[r].u] = stamps]
        PROVE  RowsInv'
    <3>1. request[r].u \in User /\ request[r].stamps \subseteq 1 .. clock
      BY <2>1 DEF RowsInv, RequestHolds
    <3>2. clock' = clock + 1 /\ clock \in Nat
      BY <1>0, <2>2, RowNumbers DEF Rows!Resend, TimesOK
    <3>3. \A i \in 1 .. clock : i \in 1 .. clock'
      BY <3>2
    <3>4. clock + 1 \in 1 .. clock' /\ clock + 1 \in Nat
      BY <3>2
    <3>5. stamps \subseteq 1 .. clock' /\ stamps \subseteq Nat
      BY <1>0, <2>2, <3>1, <3>2, <3>3, <3>4 DEF TimesOK
    <3>6. window' \in [User -> SUBSET Nat] /\ \A u \in User : window'[u] \subseteq 1 .. clock'
      BY <1>0, <2>2, <3>1, <3>3, <3>5 DEF TimesOK
    <3> QED
      BY <2>1, <2>2, <3>6, ResendUpdates
  <2> QED
    BY <1>3, <2>1, <2>2
<1>5. CASE Rows!CountResends(r)
  <2>1. /\ request[r].at = "resend" /\ UNCHANGED <<user, latest, overlapped, window>>
        /\ \/ Rows!Done(r) /\ UNCHANGED <<clock, codeAge, windowAge>>
           \/ Rows!Resend(r)
    BY <1>5 DEF Rows!CountResends, Rows!At, Rows!times
  <2>2. CASE Rows!Resend(r)
    <3>1. clock < MaxClock /\ clock' = clock + 1
      BY <2>2 DEF Rows!Resend
    <3> QED
      BY <2>1, <2>2, <3>1, SameWindow, ResendUpdates
  <2> QED
    BY <1>3, <2>1, <2>2
<1> QED
  BY <1>1, <1>2, <1>4, <1>5

LEMMA PasswordKeeps ==
    ASSUME RowsInv, NEW r \in Request, NEW u \in User,
           \/ Rows!ForgotPassword(r, u) \/ Rows!UpdateProfile(r, u)
           \/ \E otp : \E p \in Password : Rows!ResetPassword(r, u, otp, p)
           \/ \E p, q \in Password : Rows!ChangePassword(r, u, p, q)
    PROVE  RowsInv'
<1>0. /\ Rows!None \in 0 .. MaxClock /\ request[r].at # "mail"
      /\ ~Saves(request[r]) /\ UNCHANGED <<user, latest>>
  <2>1. request[r].at = "idle" /\ UNCHANGED <<user, latest>>
    BY DEF Rows!ForgotPassword, Rows!UpdateProfile, Rows!ResetPassword, Rows!ChangePassword, Rows!At
  <2> QED
    BY <2>1, RowNumbers DEF Rows!None, Saves
<1>1. CASE Rows!ForgotPassword(r, u)
  <2>1. /\ clock < MaxClock /\ clock' = clock + 1
        /\ UNCHANGED <<window, codeAge, windowAge, overlapped>>
        /\ Rows!Update(r, u, "mail", clock + 1, [code |-> clock + 1])
    BY <1>1 DEF Rows!ForgotPassword
  <2>2. TimesOK' /\ clock <= clock' /\ clock + 1 \in 1 .. MaxClock /\ clock + 1 # Rows!None
    BY <2>1, SameWindow, NewCode
  <2>3. PICK code \in Nat \ {0} : code = clock + 1 /\ code \in 0 .. MaxClock
    BY <2>2, RowNumbers
  <2>4. Rows!Update(r, u, "mail", code, [code |-> code]) /\ GoodPatch([code |-> code], code)
    BY <2>1, <2>3, Patches
  <2> QED
    BY <1>0, <2>1, <2>2, <2>3, <2>4, UpdateKeeps
<1>2. CASE Rows!UpdateProfile(r, u)
  <2>1. UNCHANGED <<window, clock, codeAge, windowAge, overlapped>>
    BY <1>2 DEF Rows!UpdateProfile, Rows!times
  <2>2. PICK patch \in Rows!ProfilePatches : Rows!Update(r, u, "idle", Rows!None, patch)
    BY <1>2 DEF Rows!UpdateProfile
  <2> QED
    BY <1>0, <2>1, <2>2, SameTimes, Patches, UpdateKeeps
<1>3. ASSUME NEW otp, NEW p \in Password, Rows!ResetPassword(r, u, otp, p) PROVE RowsInv'
  <2>1. /\ UNCHANGED <<window, clock, codeAge, windowAge, overlapped>>
        /\ Rows!Update(r, u, "idle", Rows!None, [password |-> p, code |-> Undefined])
    BY <1>3 DEF Rows!ResetPassword, Rows!times
  <2>2. GoodPatch([password |-> p, code |-> Undefined], Rows!None)
    BY RowNumbers, Patches
  <2> QED
    BY <1>0, <2>1, <2>2, SameTimes, UpdateKeeps
<1>4. ASSUME NEW p \in Password, NEW q \in Password, Rows!ChangePassword(r, u, p, q) PROVE RowsInv'
  <2>1. /\ UNCHANGED <<window, clock, codeAge, windowAge>>
        /\ Rows!GoSave(r, u, "idle", Rows!None, [password |-> q]) /\ Rows!Overlap(u, Rows!None)
        /\ Rows!Found(u)
    BY <1>4 DEF Rows!ChangePassword, Rows!times, Rows!At
  <2>2. GoodPatch([password |-> q], Rows!None)
    BY RowNumbers, Patches
  <2> QED
    BY <1>0, <2>1, <2>2, SameTimes, SaveStarts
<1> QED
  BY <1>1, <1>2, <1>3, <1>4

\* A request that was to mail its code has done so, or lost it.
LEMMA MailKeeps ==
    ASSUME RowsInv, NEW r \in Request, request[r].at = "mail", Rows!Done(r),
           latest' = [latest EXCEPT ![request[r].u] = request[r].mail],
           UNCHANGED <<user, window, clock, codeAge, windowAge, overlapped>>
    PROVE  RowsInv'
<1>1. /\ request' = [request EXCEPT ![r] = Rows!Idle] /\ Rows!Idle.at = "idle"
      /\ request'[r] = Rows!Idle /\ \A s \in Request \ {r} : request'[s] = request[s]
      /\ request' = [s \in Request |-> request'[s]]
  BY DEF Rows!Done, Rows!Go, Rows!Idle, RowsInv
<1>2. PICK u \in User, mail \in 0 .. MaxClock :
         /\ u = request[r].u /\ mail = request[r].mail
         /\ u \notin overlapped => user[u].code = mail
  BY DEF RowsInv, RequestHolds
<1>3. /\ latest' \in [User -> 0 .. MaxClock] /\ latest'[u] = mail
      /\ \A v \in User \ {u} : latest'[v] = latest[v]
  BY <1>2 DEF RowsInv
<1>4. Rows!TypeOK'
  BY <1>1 DEF RowsInv, Rows!TypeOK
<1>5. ASSUME NEW s \in Request PROVE RequestHolds(s)'
  <2>1. CASE s = r
    BY <1>1, <2>1 DEF RequestHolds, Saves
  <2>2. CASE s # r
    <3>1. request'[s] = request[s] /\ RequestHolds(s)
      BY <1>1, <2>2 DEF RowsInv
    <3>2. Saves(request[s]) \/ request[s].at = "mail" => user[request[s].u].present
      BY <3>1 DEF RequestHolds
    <3> QED
      BY <3>1, <3>2, HoldsStill
  <2> QED
    BY <2>1, <2>2
<1>6. OverlapSeen'
  <2>1. \A q : ~Crosses(Rows!Idle, q) /\ ~Crosses(q, Rows!Idle)
    BY <1>1 DEF Crosses, Saves
  <2> QED
    BY <1>1, <2>1, MoveSeen
<1>7. Rows!MailedCodeStored'
  <2> SUFFICES ASSUME NEW v \in User \ overlapped, user[v].code \notin {Rows!None, latest'[v]}
               PROVE  \E s \in Request : /\ request'[s].at = "mail" /\ request'[s].u = v
                                         /\ user[v].code = request'[s].mail
    BY DEF Rows!MailedCodeStored, Rows!Unmailed, Rows!Mailing, Rows!At
  <2>1. v # u
    BY <1>2, <1>3
  <2>2. PICK s \in Request : request[s].at = "mail" /\ request[s].u = v /\ user[v].code = request[s].mail
    BY <1>3, <2>1 DEF RowsInv, Rows!MailedCodeStored, Rows!Unmailed, Rows!Mailing, Rows!At
  <2> QED
    BY <1>1, <1>2, <2>1, <2>2
<1> QED
  BY <1>1, <1>3, <1>4, <1>5, <1>6, <1>7 DEF RowsInv

LEMMA EndKeeps ==
    ASSUME RowsInv, NEW r \in Request, Rows!MailCode(r) \/ Rows!ClearWindow(r) \/ Rows!Fail(r)
    PROVE  RowsInv'
<1>1. Rows!Idle.at = "idle"
  BY DEF Rows!Idle
<1>2. CASE Rows!MailCode(r)
  BY <1>2, MailKeeps DEF Rows!MailCode, Rows!At, Rows!times
<1>3. CASE Rows!ClearWindow(r)
  <2>1. /\ request[r].at = "clear" /\ Rows!Go(r, Rows!Idle)
        /\ UNCHANGED <<user, clock, codeAge, windowAge, latest, overlapped>>
        /\ window' = window \/ window' = [window EXCEPT ![request[r].u] = {}]
    BY <1>3 DEF Rows!ClearWindow, Rows!At, Rows!Done, Rows!times
  <2>2. TimesOK' /\ clock <= clock'
    BY <2>1, TimesAreOK, RowNumbers DEF TimesOK
  <2> QED
    BY <1>1, <2>1, <2>2, RestKeeps
<1>4. CASE Rows!Fail(r)
  <2>1. CASE request[r].at = "mail"
    BY <1>4, <2>1, MailKeeps DEF Rows!Fail, Rows!At, Rows!times
  <2>2. CASE request[r].at # "mail"
    <3>1. /\ Rows!Go(r, Rows!Idle)
          /\ UNCHANGED <<user, window, clock, codeAge, windowAge, latest, overlapped>>
      BY <1>4, <2>2 DEF Rows!Fail, Rows!At, Rows!Done, Rows!times
    <3> QED
      BY <1>1, <2>2, <3>1, SameTimes, RestKeeps
  <2> QED
    BY <2>1, <2>2
<1> QED
  BY <1>2, <1>3, <1>4

\* Steps that leave the requests alone, and of the rows what they hold together.
LEMMA QuietRowsKeep ==
    ASSUME RowsInv, UNCHANGED <<request, latest, clock, window, overlapped>>,
           windowAge' \in 0 .. clock, codeAge' \in 0 .. windowAge', user' \in [User -> Rows!UserRow],
           \A v \in User : /\ user'[v].present = user[v].present /\ user'[v].code = user[v].code
                           /\ user'[v].verified = user[v].verified
    PROVE  RowsInv'
<1>1. Rows!TypeOK'
  BY DEF RowsInv, Rows!TypeOK
<1>2. ASSUME NEW r \in Request PROVE RequestHolds(r)'
  <2>1. RequestHolds(r)
    BY DEF RowsInv
  <2>2. Saves(request[r]) \/ request[r].at = "mail" => request[r].u \in User /\ user'[request[r].u].present
    BY <2>1 DEF RequestHolds, Saves
  <2> QED
    BY <2>1, <2>2, HoldsStill
<1>3. OverlapSeen'
  BY DEF RowsInv, OverlapSeen, Crosses, Saves
<1>4. Rows!MailedCodeStored'
  <2> SUFFICES ASSUME NEW v \in User \ overlapped, user'[v].code \notin {Rows!None, latest[v]}
               PROVE  \E s \in Request : /\ request'[s].at = "mail" /\ request'[s].u = v
                                         /\ user'[v].code = request'[s].mail
    BY DEF Rows!MailedCodeStored, Rows!Unmailed, Rows!Mailing, Rows!At
  <2>1. user'[v].code = user[v].code
    OBVIOUS
  <2>2. PICK s \in Request : request[s].at = "mail" /\ request[s].u = v /\ user[v].code = request[s].mail
    BY <2>1 DEF RowsInv, Rows!MailedCodeStored, Rows!Unmailed, Rows!Mailing, Rows!At
  <2> QED
    BY <2>1, <2>2
<1> QED
  BY <1>1, <1>2, <1>3, <1>4 DEF RowsInv

LEMMA ClockKeeps ==
    ASSUME RowsInv, Rows!CodesExpire \/ Rows!WindowSlides \/ UNCHANGED accountVars
    PROVE  RowsInv'
<1>1. UNCHANGED <<user, window, request, clock, latest, overlapped>>
  BY DEF Rows!CodesExpire, Rows!WindowSlides, accountVars
<1>2. windowAge \in 0 .. clock /\ codeAge \in 0 .. windowAge /\ clock \in Nat
  BY RowNumbers DEF RowsInv, Rows!TypeOK
<1>3. windowAge' \in 0 .. clock /\ codeAge' \in 0 .. windowAge'
  <2>1. CASE Rows!CodesExpire
    BY <1>2, <2>1 DEF Rows!CodesExpire
  <2>2. CASE Rows!WindowSlides
    BY <1>2, <2>2 DEF Rows!WindowSlides
  <2>3. CASE UNCHANGED accountVars
    BY <1>2, <2>3 DEF accountVars
  <2> QED
    BY <2>1, <2>2, <2>3
<1> QED
  BY <1>1, <1>3, QuietRowsKeep DEF RowsInv, Rows!TypeOK

LEMMA DeleteKeeps == ASSUME RowsInv, NEW u \in User, Rows!DeleteUser(u) PROVE RowsInv'
<1>1. /\ user' = [user EXCEPT ![u].deleted = TRUE]
      /\ UNCHANGED <<window, request, clock, codeAge, windowAge, latest, overlapped>>
  BY DEF Rows!DeleteUser, Rows!times
<1>2. /\ user' \in [User -> Rows!UserRow]
      /\ \A v \in User : /\ user'[v].present = user[v].present /\ user'[v].code = user[v].code
                         /\ user'[v].verified = user[v].verified
  <2>1. user \in [User -> Rows!UserRow] /\ user' = [user EXCEPT ![u] = [user[u] EXCEPT !.deleted = TRUE]]
    BY <1>1 DEF RowsInv, Rows!TypeOK
  <2>2. PICK row \in Rows!UserRow : row = [user[u] EXCEPT !.deleted = TRUE]
    BY <2>1 DEF Rows!UserRow
  <2>3. row.present = user[u].present /\ row.code = user[u].code /\ row.verified = user[u].verified
    BY <2>1, <2>2 DEF Rows!UserRow
  <2> QED
    BY <2>1, <2>2, <2>3
<1> QED
  BY <1>1, <1>2, QuietRowsKeep DEF RowsInv, Rows!TypeOK

\* A new row: nobody holds a copy of a user that is not there.
LEMMA RegisterKeeps ==
    ASSUME RowsInv, NEW r \in Request, NEW u \in User, NEW p \in Password, Rows!Register(r, u, p)
    PROVE  RowsInv'
<1> DEFINE state == [at |-> "mail", u |-> u, mail |-> clock + 1]
<1>1. /\ ~user[u].present /\ clock < MaxClock /\ clock' = clock + 1 /\ request[r].at = "idle"
      /\ UNCHANGED <<window, codeAge, windowAge, latest, overlapped>>
      /\ user' = [user EXCEPT ![u] = Rows!NewUser(p, clock + 1)]
      /\ request' = [request EXCEPT ![r] = state]
  BY DEF Rows!Register, Rows!At, Rows!Go
<1>2. TimesOK' /\ clock <= clock' /\ clock + 1 \in 1 .. MaxClock /\ \A i \in 1 .. clock : i \in 1 .. clock'
  BY <1>1, SameWindow, NewCode
<1>3. PICK code \in 0 .. MaxClock : code = clock + 1
  BY <1>2
<1>4. PICK row \in Rows!UserRow : /\ row = Rows!NewUser(p, code) /\ row.present /\ ~row.verified
                                  /\ row.code = code
  BY RowNumbers, NewRow
<1>5. user' = [user EXCEPT ![u] = row]
  BY <1>1, <1>3, <1>4
<1>6. /\ user' \in [User -> Rows!UserRow] /\ user'[u] = row
      /\ \A v \in User : v # u => user'[v] = user[v]
  BY <1>4, <1>5 DEF RowsInv, Rows!TypeOK
<1>7. /\ request'[r] = state /\ \A s \in Request \ {r} : request'[s] = request[s]
      /\ request' = [s \in Request |-> request'[s]]
  BY <1>1 DEF RowsInv
<1>8. state.at = "mail" /\ state.u = u /\ state.mail = code
  BY <1>3
<1> HIDE DEF state
<1>9. Rows!TypeOK'
  BY <1>1, <1>2, <1>6, <1>7, <1>8 DEF RowsInv, Rows!TypeOK, TimesOK
<1>10. \A s \in Request : Saves(request[s]) => request[s].u # u
  BY <1>1 DEF RowsInv, RequestHolds
<1>11. ASSUME NEW s \in Request PROVE RequestHolds(s)'
  <2>1. CASE s = r
    BY <1>4, <1>6, <1>7, <1>8, <2>1 DEF RequestHolds, Saves
  <2>2. CASE s # r
    <3>1. request'[s] = request[s] /\ RequestHolds(s)
      BY <1>7, <2>2 DEF RowsInv
    <3>2. Saves(request[s]) \/ request[s].at = "mail" =>
             request[s].u \in User /\ user[request[s].u].present /\ request[s].u # u
      BY <1>1, <3>1 DEF RequestHolds, Saves
    <3> QED
      BY <1>1, <1>2, <1>6, <3>1, <3>2, HoldsStill
  <2> QED
    BY <2>1, <2>2
<1>12. OverlapSeen'
  <2>1. \A s \in Request : ~Crosses(state, request[s]) /\ ~Crosses(request[s], state)
    BY <1>8, <1>10 DEF Crosses, Saves
  <2> QED
    BY <1>1, <2>1, MoveSeen
<1>13. Rows!MailedCodeStored'
  <2> SUFFICES ASSUME NEW v \in User \ overlapped, user'[v].code \notin {Rows!None, latest[v]}
               PROVE  \E s \in Request : /\ request'[s].at = "mail" /\ request'[s].u = v
                                         /\ user'[v].code = request'[s].mail
    BY <1>1 DEF Rows!MailedCodeStored, Rows!Unmailed, Rows!Mailing, Rows!At
  <2>1. CASE v = u
    BY <1>4, <1>6, <1>7, <1>8, <2>1
  <2>2. CASE v # u
    <3>1. PICK s \in Request : request[s].at = "mail" /\ request[s].u = v /\ user[v].code = request[s].mail
      BY <1>6, <2>2 DEF RowsInv, Rows!MailedCodeStored, Rows!Unmailed, Rows!Mailing, Rows!At
    <3> QED
      BY <1>1, <1>6, <1>7, <2>2, <3>1
  <2> QED
    BY <2>1, <2>2
<1>14. \A v \in User : user'[v].verified => user'[v].present
  BY <1>4, <1>6 DEF RowsInv
<1>15. window' \in [User -> SUBSET Nat] /\ latest' \in [User -> 0 .. MaxClock]
  BY <1>1 DEF RowsInv
<1> QED
  BY <1>6, <1>7, <1>9, <1>11, <1>12, <1>13, <1>14, <1>15 DEF RowsInv

\* A save: who is not seen to cross holds the only copy, and a fresh one.
LEMMA SaveKeeps == ASSUME RowsInv, NEW r \in Request, Rows!SaveUser(r) PROVE RowsInv'
<1> DEFINE q == request[r]
           state == IF q.after = "idle" THEN Rows!Idle ELSE [at |-> q.after, u |-> q.u, mail |-> q.mail]
<1>1. /\ q.at = "write" /\ UNCHANGED <<window, clock, codeAge, windowAge, latest, overlapped>>
      /\ request' = [request EXCEPT ![r] = state]
      /\ user' = [user EXCEPT ![q.u] = Rows!Written(user[q.u], q.copy, q.columns)]
  BY DEF Rows!SaveUser, Rows!At, Rows!Done, Rows!Go, Rows!times
<1>2. RequestHolds(r) /\ Saves(q)
  BY <1>1 DEF RowsInv, Saves
<1>3. PICK u \in User, mail \in 0 .. MaxClock, after \in {"idle", "mail", "clear"} :
         u = q.u /\ mail = q.mail /\ after = q.after /\ (after = "mail" <=> mail # Rows!None)
  <2>1. /\ q.u \in User /\ q.mail \in 0 .. MaxClock /\ q.after \in {"idle", "mail", "clear"}
        /\ q.after = "mail" <=> q.mail # Rows!None
    BY <1>1, <1>2 DEF RequestHolds
  <2> QED
    BY <2>1
<1>4. PICK copy, columns, patch : copy = q.copy /\ columns = q.columns /\ patch = q.patch
  OBVIOUS
<1>5. /\ user[u].present /\ GoodCopy(copy) /\ user[u] \in Rows!UserRow /\ GoodColumns(columns, copy)
      /\ u \notin overlapped => Fresh(user[u], copy, patch, mail) /\ LeftOut(user[u], columns, copy)
  <2>1. user[u] \in Rows!UserRow
    BY DEF RowsInv, Rows!TypeOK
  <2> QED
    BY <1>1, <1>2, <1>3, <1>4, <2>1 DEF RequestHolds
<1>6. PICK row \in Rows!UserRow :
         /\ row = Rows!Written(user[u], copy, columns) /\ row.present
         /\ u \notin overlapped => /\ row.verified = copy.verified
                                   /\ row.code = IF copy.code = Undefined THEN user[u].code ELSE copy.code
  BY <1>5, WrittenRow
<1>7. user' = [user EXCEPT ![u] = row]
  BY <1>1, <1>3, <1>4, <1>6
<1>8. /\ user' \in [User -> Rows!UserRow] /\ user'[u] = row
      /\ \A v \in User : v # u => user'[v] = user[v]
  BY <1>7 DEF RowsInv, Rows!TypeOK
<1>9. /\ state.at = after
      /\ after # "idle" => state.u = u /\ state.mail = mail
  BY <1>3 DEF Rows!Idle
<1>10. /\ request'[r] = state /\ \A s \in Request \ {r} : request'[s] = request[s]
       /\ request' = [s \in Request |-> request'[s]]
  BY <1>1 DEF RowsInv
<1>11. q.at = "write" /\ q.u = u /\ q.mail = mail
  BY <1>1, <1>3
<1> HIDE DEF q, state
<1>12. Rows!TypeOK'
  BY <1>1, <1>8, <1>9, <1>10 DEF RowsInv, Rows!TypeOK
<1>13. u \notin overlapped => row.code = IF mail = Rows!None THEN user[u].code ELSE mail
  <2>1. CASE u \notin overlapped /\ mail = Rows!None
    BY <1>5, <1>6, <2>1 DEF Fresh
  <2>2. CASE u \notin overlapped /\ mail # Rows!None
    <3>1. copy.code = mail /\ mail # Undefined
      BY <1>5, <2>2, RowNumbers DEF Fresh
    <3> QED
      BY <1>6, <2>2, <3>1
  <2> QED
    BY <2>1, <2>2
<1>14. ASSUME NEW s \in Request PROVE RequestHolds(s)'
  <2>1. CASE s = r
    <3>1. \/ after = "idle"
          \/ after = "clear" /\ state.u = u
          \/ after = "mail" /\ state.u = u /\ state.mail = mail /\ (u \notin overlapped => row.code = mail)
      BY <1>3, <1>9, <1>13
    <3> QED
      BY <1>1, <1>6, <1>8, <1>9, <1>10, <2>1, <3>1 DEF RequestHolds, Saves
  <2>2. CASE s # r
    <3>1. RequestHolds(s) /\ request'[s] = request[s]
      BY <1>10, <2>2 DEF RowsInv
    <3>2. ASSUME Saves(request[s]), request[s].u = u PROVE u \in overlapped
      <4>1. Crosses(request[r], request[s]) /\ request[r].u = u
        BY <1>2, <1>11, <3>2 DEF Crosses, Saves, q
      <4> QED
        BY <2>2, <4>1 DEF RowsInv, OverlapSeen
    <3>3. ASSUME request[s].at = "mail", request[s].u = u, mail # Rows!None PROVE u \in overlapped
      <4>1. Crosses(request[r], request[s]) /\ request[r].u = u
        BY <1>2, <1>11, <3>3 DEF Crosses, q
      <4> QED
        BY <2>2, <4>1 DEF RowsInv, OverlapSeen
    <3>4. Saves(request[s]) \/ request[s].at = "mail" =>
             request[s].u \in User /\ user'[request[s].u].present
      BY <1>6, <1>8, <3>1 DEF RequestHolds, Saves
    <3>5. CASE Saves(request[s])
      <4>1. request[s].at # "mail"
        BY <3>5 DEF Saves
      <4>2. request[s].u \notin overlapped => user'[request[s].u] = user[request[s].u]
        BY <1>8, <3>2, <3>4, <3>5
      <4> QED
        BY <1>1, <3>1, <3>4, <4>2, HoldsStill
    <3>6. CASE ~Saves(request[s]) /\ request[s].at # "mail"
      BY <1>1, <3>1, <3>6, HoldsStill
    <3>7. CASE request[s].at = "mail"
      <4>1. request[s].u \notin overlapped => user'[request[s].u].code = user[request[s].u].code
        BY <1>8, <1>13, <3>3, <3>4, <3>7
      <4>2. /\ request'[s].at = "mail" /\ request'[s].u \in User /\ request'[s].mail \in 0 .. MaxClock
            /\ user'[request'[s].u].present
            /\ request'[s].u \notin overlapped => user'[request'[s].u].code = request'[s].mail
        BY <3>1, <3>4, <3>7, <4>1 DEF RequestHolds
      <4> QED
        BY <1>1, <4>2 DEF RequestHolds, Saves
    <3> QED
      BY <3>5, <3>6, <3>7
  <2> QED
    BY <2>1, <2>2
<1>15. OverlapSeen'
  <2>1. ASSUME NEW s \in Request \ {r}, Crosses(state, request[s]) \/ Crosses(request[s], state)
        PROVE  state.u \in overlapped'
    <3>1. after = "mail" /\ Crosses(request[s], state)
      BY <1>9, <2>1 DEF Crosses, Saves
    <3>2. Saves(request[s]) /\ request[s].u = u /\ state.u = u
      BY <1>9, <3>1 DEF Crosses
    <3>3. Crosses(request[r], request[s]) /\ request[r].u = u
      BY <1>2, <1>11, <3>2 DEF Crosses, Saves, q
    <3>4. u \in overlapped
      BY <3>3 DEF RowsInv, OverlapSeen
    <3> QED
      BY <1>1, <3>2, <3>4
  <2> QED
    BY <1>1, <2>1, MoveSeen
<1>16. Rows!MailedCodeStored'
  <2> SUFFICES ASSUME NEW v \in User \ overlapped, user'[v].code \notin {Rows!None, latest[v]}
               PROVE  \E s \in Request : /\ request'[s].at = "mail" /\ request'[s].u = v
                                         /\ user'[v].code = request'[s].mail
    BY <1>1 DEF Rows!MailedCodeStored, Rows!Unmailed, Rows!Mailing, Rows!At
  <2>1. CASE user'[v].code = user[v].code
    <3>1. PICK s \in Request : request[s].at = "mail" /\ request[s].u = v /\ user[v].code = request[s].mail
      BY <2>1 DEF RowsInv, Rows!MailedCodeStored, Rows!Unmailed, Rows!Mailing, Rows!At
    <3> QED
      BY <1>10, <1>11, <2>1, <3>1 DEF q
  <2>2. CASE user'[v].code # user[v].code
    <3>1. v = u /\ mail # Rows!None /\ user'[v].code = mail
      BY <1>8, <1>13, <2>2
    <3>2. request'[r].at = "mail" /\ request'[r].u = u /\ request'[r].mail = mail
      BY <1>3, <1>9, <1>10, <3>1
    <3> QED
      BY <3>1, <3>2
  <2> QED
    BY <2>1, <2>2
<1>17. \A v \in User : user'[v].verified => user'[v].present
  BY <1>6, <1>8 DEF RowsInv
<1>18. window' \in [User -> SUBSET Nat] /\ latest' \in [User -> 0 .. MaxClock]
  BY <1>1 DEF RowsInv
<1> QED
  BY <1>8, <1>10, <1>12, <1>14, <1>15, <1>16, <1>17, <1>18 DEF RowsInv

LEMMA RowsKept ==
    ASSUME RowsInv, Rows!Next \/ UNCHANGED accountVars
    PROVE  RowsInv'
<1>1. CASE UNCHANGED accountVars \/ Rows!CodesExpire \/ Rows!WindowSlides
  BY <1>1, ClockKeeps
<1>2. CASE \E u \in User : Rows!DeleteUser(u)
  BY <1>2, DeleteKeeps
<1>3. ASSUME NEW r \in Request,
             \/ Rows!LoadUser(r) \/ Rows!SelectUser(r) \/ Rows!SaveUser(r)
             \/ Rows!MailCode(r) \/ Rows!ClearWindow(r) \/ Rows!Fail(r)
             \/ Rows!FinishVerify(r) \/ Rows!LoadWindow(r) \/ Rows!CheckResend(r) \/ Rows!CountResends(r)
      PROVE  RowsInv'
  BY <1>3, LoadKeeps, SelectKeeps, SaveKeeps, EndKeeps, VerifyKeeps, ResendKeeps
<1>4. ASSUME NEW r \in Request, NEW u \in User,
             \/ Rows!StartResend(r, u) \/ Rows!ForgotPassword(r, u) \/ Rows!UpdateProfile(r, u)
             \/ \E p \in Password : Rows!Register(r, u, p)
             \/ \E otp \in 0 .. MaxClock : Rows!StartVerify(r, u, otp)
             \/ \E otp \in 1 .. MaxClock, p \in Password : Rows!ResetPassword(r, u, otp, p)
             \/ \E p, q \in Password : Rows!ChangePassword(r, u, p, q)
      PROVE  RowsInv'
  BY <1>4, RegisterKeeps, VerifyKeeps, ResendKeeps, PasswordKeeps
<1> QED
  BY <1>1, <1>2, <1>3, <1>4 DEF Rows!Next

\* Who is verified stays so in one step.
LEMMA RowsVerified ==
    ASSUME RowsInv, Rows!Next, NEW u \in User, user[u].verified, u \notin overlapped
    PROVE  \/ user'[u].verified
           \/ \E r \in Request : /\ Rows!At(r, "write") /\ request[r].u = u
                                 /\ request[r].patch = [verified |-> FALSE]
<1>1. user \in [User -> Rows!UserRow]
  BY DEF RowsInv, Rows!TypeOK
<1>2. ASSUME NEW r \in Request, NEW v \in User, NEW p \in Password, Rows!Register(r, v, p)
      PROVE  user'[u].verified
  <2>1. v # u
    BY <1>2 DEF RowsInv, Rows!Register
  <2> QED
    BY <1>1, <1>2, <2>1 DEF Rows!Register
<1>3. ASSUME NEW v \in User, Rows!DeleteUser(v) PROVE user'[u].verified
  BY <1>1, <1>3 DEF Rows!DeleteUser, Rows!UserRow
<1>4. ASSUME NEW r \in Request, Rows!SaveUser(r)
      PROVE  user'[u].verified \/ (request[r].u = u /\ TakesBack(request[r].patch))
  <2>1. /\ request[r].at = "write" /\ RequestHolds(r) /\ Saves(request[r])
        /\ user' = [user EXCEPT ![request[r].u] =
              Rows!Written(user[request[r].u], request[r].copy, request[r].columns)]
    BY <1>4 DEF RowsInv, Rows!SaveUser, Rows!At, Saves
  <2>2. CASE request[r].u = u
    <3>1. /\ GoodCopy(request[r].copy) /\ GoodColumns(request[r].columns, request[r].copy)
          /\ request[r].copy.verified \/ TakesBack(request[r].patch)
          /\ user[u].present /\ LeftOut(user[u], request[r].columns, request[r].copy)
      BY <2>1, <2>2 DEF RequestHolds, Fresh
    <3>2. user'[u] = Rows!Written(user[u], request[r].copy, request[r].columns)
      BY <1>1, <2>1, <2>2
    <3>3. Rows!Written(user[u], request[r].copy, request[r].columns).verified = request[r].copy.verified
      BY <1>1, <3>1, WrittenRow
    <3>4. CASE request[r].copy.verified
      <4>1. request[r].copy.verified = TRUE
        BY <3>1, <3>4 DEF GoodCopy
      <4>2. user'[u].verified = TRUE
        BY <3>2, <3>3, <4>1
      <4> QED
        BY <4>2
    <3> QED
      BY <2>2, <3>1, <3>4
  <2>3. CASE request[r].u # u
    <3>1. user'[u] = user[u]
      BY <1>1, <2>1, <2>3
    <3>2. user[u].verified = TRUE
      BY <1>1 DEF Rows!UserRow
    <3>3. user'[u].verified = TRUE
      BY <3>1, <3>2
    <3> QED
      BY <3>3
  <2> QED
    BY <2>2, <2>3
<1>5. ASSUME UNCHANGED user PROVE user'[u].verified
  BY <1>5
<1>6. \/ UNCHANGED user
      \/ \E r \in Request : Rows!SaveUser(r)
      \/ \E v \in User : Rows!DeleteUser(v)
      \/ \E r \in Request, v \in User, p \in Password : Rows!Register(r, v, p)
  <2>1. ASSUME NEW r \in Request,
               \/ Rows!LoadUser(r) \/ Rows!SelectUser(r) \/ Rows!MailCode(r) \/ Rows!ClearWindow(r)
               \/ Rows!Fail(r) \/ Rows!FinishVerify(r) \/ Rows!LoadWindow(r)
               \/ Rows!CheckResend(r) \/ Rows!CountResends(r)
        PROVE  UNCHANGED user
    BY <2>1 DEF Rows!LoadUser, Rows!SelectUser, Rows!MailCode, Rows!ClearWindow, Rows!Fail,
       Rows!FinishVerify, Rows!LoadWindow, Rows!CheckResend, Rows!CountResends
  <2>2. ASSUME NEW r \in Request, NEW v \in User,
               \/ Rows!StartResend(r, v) \/ Rows!ForgotPassword(r, v) \/ Rows!UpdateProfile(r, v)
               \/ \E otp : Rows!StartVerify(r, v, otp)
               \/ \E otp, p : Rows!ResetPassword(r, v, otp, p)
               \/ \E p, q : Rows!ChangePassword(r, v, p, q)
        PROVE  UNCHANGED user
    BY <2>2 DEF Rows!StartResend, Rows!ForgotPassword, Rows!UpdateProfile, Rows!StartVerify,
       Rows!ResetPassword, Rows!ChangePassword
  <2>3. CASE Rows!CodesExpire \/ Rows!WindowSlides
    BY <2>3 DEF Rows!CodesExpire, Rows!WindowSlides
  <2> QED
    BY <2>1, <2>2, <2>3 DEF Rows!Next
<1>7. CASE \E r \in Request : Rows!SaveUser(r)
  <2>1. PICK r \in Request : Rows!SaveUser(r)
    BY <1>7
  <2>2. Rows!At(r, "write")
    BY <2>1 DEF Rows!SaveUser
  <2> QED
    BY <1>4, <2>1, <2>2 DEF TakesBack
<1> QED
  BY <1>2, <1>3, <1>5, <1>6, <1>7

-----------------------------------------------------------------------------
(* The theorems *)

\* One part moves; the other two stay as they began, which is as good.
CredentialsInv ==
    /\ part \in {"rows", "factors", "tokens"}
    /\ RowsInv /\ FactorsInv /\ SessionsInv

LEMMA OnePartMoves ==
    ASSUME [Next]_vars
    PROVE  /\ part' = part
           /\ Rows!Next \/ UNCHANGED accountVars
           /\ Factors!Next \/ UNCHANGED factorVars
           /\ Tokens!Next \/ UNCHANGED sessionVars
BY DEF Next, vars

LEMMA CredentialsKept == Spec => []CredentialsInv
<1>1. Init => CredentialsInv
  BY RowsInit, FactorsInit, SessionsInit DEF Init, CredentialsInv
<1>2. CredentialsInv /\ [Next]_vars => CredentialsInv'
  <2> SUFFICES ASSUME CredentialsInv, [Next]_vars PROVE CredentialsInv'
    OBVIOUS
  <2> QED
    BY OnePartMoves, RowsKept, FactorsKept, SessionsKept DEF CredentialsInv
<1> QED
  BY <1>1, <1>2, PTL DEF Spec

\* auth.service.ts, users/providers: requests load a copy of a row, select and update the row
\* from it, and then mail a code.  However many resends, resets, verifications and profile
\* updates are under way and wherever they fail, the code in the row is the one the user was
\* mailed last, or one that is about to be mailed or was lost with its request, unless a request
\* read the row between another's read and save, or with a code to mail before another's mail.
THEOREM CodesAreStored == Spec => []MailedCodeStored
<1>1. CredentialsInv => MailedCodeStored
  BY DEF CredentialsInv, RowsInv, MailedCodeStored
<1> QED
  BY <1>1, CredentialsKept, PTL

\* auth.service.ts (verifyOtp) against update-user.provider.ts and PATCH users/:id: a step takes
\* a verification back only when it writes a profile update that says so, or when requests have
\* crossed on the user.
THEOREM VerificationStays == Spec => VerifiedKept
<1>1. ASSUME CredentialsInv, [Next]_vars
      PROVE  [\A u \in User : user[u].verified /\ ~user'[u].verified =>
                 \/ u \in overlapped
                 \/ \E r \in Request : /\ Rows!At(r, "write") /\ request[r].u = u
                                       /\ request[r].patch = [verified |-> FALSE]]_(Rows!vars)
  <2>1. CASE UNCHANGED accountVars
    BY <2>1 DEF accountVars, Rows!vars, Rows!times
  <2>2. CASE Rows!Next
    BY <1>1, <2>2, RowsVerified DEF CredentialsInv
  <2> QED
    BY <1>1, <2>1, <2>2, OnePartMoves
<1> QED
  BY <1>1, CredentialsKept, PTL DEF Spec, VerifiedKept, Rows!VerifiedKept

\* token-blacklist.service.ts, jwt-auth.guard.ts: the list forgets a token by the millisecond,
\* a token counts its life in seconds.  With any rounding of the two clocks, any number of
\* tokens and any interleaving of logouts, a token that carries an id and was logged out with
\* is never accepted.
THEOREM LogoutHolds == Spec => []LoggedOutRefused
<1>1. CredentialsInv => LoggedOutRefused
  BY SessionsSafe DEF CredentialsInv, LoggedOutRefused
<1> QED
  BY <1>1, CredentialsKept, PTL

\* session-broadcast.service.ts: connections of a user share one subject, and the clean-up of
\* one connection completes it, which ends the others with it: no stream is ever open on a
\* subject that is no longer in the map, in whatever order connections come and go.
THEOREM StreamsAreReached == Spec => []NoOrphanStreams
<1>1. CredentialsInv => NoOrphanStreams
  BY SessionsSafe DEF CredentialsInv, NoOrphanStreams
<1> QED
  BY <1>1, CredentialsKept, PTL

\* refresh-token.repository.ts: rows are stored under the hash of their token and looked up by
\* the token, so that no refresh ever succeeds, whoever tries it with whichever token.
THEOREM RefreshNeverWorks == Spec => []Tokens!NothingRenewed
<1>1. CredentialsInv => Tokens!NothingRenewed
  BY SessionsSafe DEF CredentialsInv
<1> QED
  BY <1>1, CredentialsKept, PTL

\* The three states have their types; totp.controller.ts: with any number of requests to enable
\* and disable, of which none cross, and whichever of their saves fail, the second factor is
\* enabled exactly when it has a secret.
THEOREM CredentialsAreWellFormed == Spec => []AccountsWellFormed
<1>1. CredentialsInv => AccountsWellFormed
  BY DEF CredentialsInv, RowsInv, FactorsInv, SessionsInv, AccountsWellFormed
<1> QED
  BY <1>1, CredentialsKept, PTL

=============================================================================
