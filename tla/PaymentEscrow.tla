--------------------------- MODULE PaymentEscrow ---------------------------
(***************************************************************************)
(* The payment_escrow Soroban contract: contracts/payment_escrow/src/.     *)
(* A contract call is one atomic step: it returns an error (or panics) and *)
(* leaves storage and token balances alone, or it commits everything it    *)
(* did.  A call that fails is therefore a disabled action.  The token      *)
(* contract and the ledger clock are external and modelled from their use. *)
(***************************************************************************)
EXTENDS Integers, Sequences, FiniteSets

CONSTANTS
    Addr,             \* accounts that sign calls
    Admins, Depositors, Beneficiaries,  \* accounts named in those roles
    NoAddr,           \* value of an address entry that was never stored
    Contract,         \* the contract's own account at the token contract
    Token,            \* token contracts an escrow may be paid in
    BookingType,      \* keys of DisputeWindowConfig
    Unset,            \* a DisputeWindowConfig entry that was never stored
    Evidence,         \* evidence hashes
    ZeroHash,         \* BytesN<32> of zeroes
    ArbitratorLists,  \* lists an admin may register
    Windows,          \* dispute windows an admin may configure
    ReleaseTimes,     \* release times a depositor may choose
    Amounts,          \* amounts a depositor may offer (also refused ones)
    Supply,           \* tokens of each kind every account starts with
    DisputeTimeout,   \* DISPUTE_TIMEOUT_SECONDS
    U64Max,           \* overflow-checks are on: a larger sum panics
    MaxEscrows,       \* bound: escrows ever created
    MaxTime           \* bound: ledger time

ASSUME AddrAssumption ==
    /\ NoAddr \notin Addr /\ Contract \notin Addr /\ NoAddr \notin Token
    /\ Admins \subseteq Addr /\ Depositors \subseteq Addr /\ Beneficiaries \subseteq Addr
ASSUME TimeAssumption == /\ Windows \subseteq Nat
                         /\ ReleaseTimes \subseteq Nat
                         /\ DisputeTimeout \in Nat
                         /\ Unset \notin Nat
ASSUME AmountAssumption == Amounts \subseteq Int /\ Supply \in Nat
ASSUME BoundAssumption == MaxEscrows \in Nat /\ MaxTime \in Nat /\ U64Max \in Nat
ASSUME ArbitratorAssumption == ArbitratorLists \subseteq Seq(Addr)
ASSUME EvidenceAssumption == ZeroHash \notin Evidence

VARIABLES
    admin, paymentToken, disputeWindow,   \* written by initialize
    windowConfig,                         \* DisputeWindowConfig(booking_type)
    paused, arbitrators,
    escrowCount,
    escrow,                               \* Escrow(id)
    depositorEscrows, beneficiaryEscrows, \* the two id lists per account
    balance,                              \* external: balance[token][account]
    now,                                  \* external: env.ledger().timestamp()
    paid                                  \* history: who was paid out of escrow id

config == <<admin, paymentToken, disputeWindow, windowConfig, paused, arbitrators>>
lists  == <<depositorEscrows, beneficiaryEscrows>>
vars == <<config, escrowCount, escrow, lists, balance, now, paid>>

-----------------------------------------------------------------------------
(* Data *)

EscrowId == 1..MaxEscrows
EscrowStatus == {"Active", "Released", "Refunded", "Disputed"}
Final == {"Released", "Refunded"}
Resolution == {"Release", "Refund"}
ArbitrationVote == [arbitrator : Addr, decision : Resolution]
Account == Addr \cup {Contract}

EscrowRecord ==
    [depositor : Addr, beneficiary : Addr, payment_token : Token,
     amount : Nat \ {0}, status : EscrowStatus, release_time : Nat,
     dispute_window : Nat, dispute_timestamp : Nat,
     arbitration_votes : Seq(ArbitrationVote),
     depositor_evidence_hash : Evidence \cup {ZeroHash},
     beneficiary_evidence_hash : Evidence \cup {ZeroHash}]

\* Storage without an entry for the id: get(..).ok_or(EscrowNotFound).
NoEscrow == [status |-> "None"]
Exists(id) == escrow[id].status # "None"

\* Checked u64 addition: the call panics, and changes nothing, on overflow.
Reached(start, delay) == start + delay <= U64Max /\ now >= start + delay
NotPassed(start, delay) == start + delay <= U64Max /\ now <= start + delay

\* Mutant of Votes: every ballot counts for the decision asked about.
VotesCast(id, decision) == Len(escrow[id].arbitration_votes)

Votes(id, decision) ==
    Cardinality({k \in DOMAIN escrow[id].arbitration_votes :
                    escrow[id].arbitration_votes[k].decision = decision})

TypeOK ==
    /\ admin \in Addr \cup {NoAddr}
    /\ paymentToken \in Token \cup {NoAddr}
    /\ disputeWindow \in Nat \cup {Unset}
    /\ windowConfig \in [BookingType -> Nat \cup {Unset}]
    /\ paused \in BOOLEAN
    /\ arbitrators \in Seq(Addr)
    /\ escrowCount \in 0..MaxEscrows
    /\ escrow \in [EscrowId -> EscrowRecord \cup {NoEscrow}]
    /\ depositorEscrows \in [Addr -> Seq(EscrowId)]
    /\ beneficiaryEscrows \in [Addr -> Seq(EscrowId)]
    /\ balance \in [Token -> [Account -> Int]]
    /\ now \in Nat
    /\ paid \in [EscrowId -> Seq(Addr)]

Init ==
    /\ admin = NoAddr /\ paymentToken = NoAddr /\ disputeWindow = Unset
    /\ windowConfig = [b \in BookingType |-> Unset]
    /\ paused = FALSE
    /\ arbitrators = <<>>
    /\ escrowCount = 0
    /\ escrow = [i \in EscrowId |-> NoEscrow]
    /\ depositorEscrows = [a \in Addr |-> <<>>]
    /\ beneficiaryEscrows = [a \in Addr |-> <<>>]
    /\ balance = [t \in Token |-> [a \in Account |-> IF a = Contract THEN 0 ELSE Supply]]
    /\ now = 1
    /\ paid = [i \in EscrowId |-> <<>>]

-----------------------------------------------------------------------------
(* Configuration *)

\* Nothing stops a second call, and the caller only has to be the new admin.
Initialize(a, token, window) ==
    /\ admin' = a
    /\ paymentToken' = token
    /\ disputeWindow' = window
    /\ paused' = FALSE
    /\ arbitrators' = <<>>
    /\ UNCHANGED <<windowConfig, escrowCount, escrow, lists, balance, now, paid>>

SetArbitrators(a, list) ==
    /\ a = admin
    /\ arbitrators' = list
    /\ UNCHANGED <<admin, paymentToken, disputeWindow, windowConfig, paused,
                   escrowCount, escrow, lists, balance, now, paid>>

SetDisputeWindow(a, type, window) ==
    /\ a = admin
    /\ windowConfig' = [windowConfig EXCEPT ![type] = window]
    /\ UNCHANGED <<admin, paymentToken, disputeWindow, paused, arbitrators,
                   escrowCount, escrow, lists, balance, now, paid>>

\* pause and unpause
SetPaused(a, value) ==
    /\ a = admin
    /\ paused' = value
    /\ UNCHANGED <<admin, paymentToken, disputeWindow, windowConfig, arbitrators,
                   escrowCount, escrow, lists, balance, now, paid>>

-----------------------------------------------------------------------------
(* Taking money in *)

\* The token contract refuses, and so aborts, a transfer that is not covered.
\* The contract is always one end of it, so from # to.
Transfer(token, from, to, sum) ==
    LET row == balance[token]
    IN  /\ row[from] >= sum
        /\ balance' = [balance EXCEPT ![token] =
                         [row EXCEPT ![from] = row[from] - sum, ![to] = row[to] + sum]]

\* Mutant of WindowFor: no default.
WindowForUnset(type) == windowConfig[type]

\* The window that a new escrow keeps: per type, then default.  The code's last
\* resort of a day is dead: initialize stores the token and the default together.
WindowFor(type) ==
    IF windowConfig[type] # Unset THEN windowConfig[type] ELSE disputeWindow

CreateEscrow(dep, ben, amount, release, type) ==
    /\ ~paused
    /\ amount > 0
    /\ paymentToken # NoAddr
    /\ escrowCount < MaxEscrows
    /\ Transfer(paymentToken, dep, Contract, amount)
    /\ escrowCount' = escrowCount + 1
    /\ escrow' = [escrow EXCEPT ![escrowCount + 1] =
         [depositor |-> dep, beneficiary |-> ben, payment_token |-> paymentToken,
          amount |-> amount, status |-> "Active", release_time |-> release,
          dispute_window |-> WindowFor(type), dispute_timestamp |-> 0,
          arbitration_votes |-> <<>>,
          depositor_evidence_hash |-> ZeroHash,
          beneficiary_evidence_hash |-> ZeroHash]]
    /\ depositorEscrows' = [depositorEscrows EXCEPT ![dep] = Append(@, escrowCount + 1)]
    /\ beneficiaryEscrows' = [beneficiaryEscrows EXCEPT ![ben] = Append(@, escrowCount + 1)]
    /\ UNCHANGED <<config, now, paid>>

-----------------------------------------------------------------------------
(* Paying out *)

\* Mutant of PayOut: pays in the token configured now.
PayOutInCurrentToken(id, to, record) ==
    /\ Transfer(paymentToken, Contract, to, escrow[id].amount)
    /\ escrow' = [escrow EXCEPT ![id] = record]
    /\ paid' = [paid EXCEPT ![id] = Append(@, to)]

\* One transfer of the whole amount out of the contract, and the new record.
PayOut(id, to, record) ==
    /\ Transfer(escrow[id].payment_token, Contract, to, escrow[id].amount)
    /\ escrow' = [escrow EXCEPT ![id] = record]
    /\ paid' = [paid EXCEPT ![id] = Append(@, to)]

PayBeneficiary(id, record) ==
    PayOut(id, escrow[id].beneficiary, [record EXCEPT !.status = "Released"])

PayDepositor(id, record) ==
    PayOut(id, escrow[id].depositor, [record EXCEPT !.status = "Refunded"])

\* Mutant of Release: no look at an open dispute.
ReleaseThroughDispute(caller, id) ==
    /\ ~paused
    /\ Exists(id)
    /\ caller \in {escrow[id].beneficiary, admin}
    /\ escrow[id].status \notin Final
    /\ Reached(escrow[id].release_time, escrow[id].dispute_window)
    /\ PayBeneficiary(id, escrow[id])
    /\ UNCHANGED <<config, escrowCount, lists, now>>

Release(caller, id) ==
    /\ ~paused
    /\ Exists(id)
    /\ caller \in {escrow[id].beneficiary, admin}
    /\ escrow[id].status \notin Final \cup {"Disputed"}
    /\ Reached(escrow[id].release_time, escrow[id].dispute_window)
    /\ PayBeneficiary(id, escrow[id])
    /\ UNCHANGED <<config, escrowCount, lists, now>>

\* Mutant of Refund: a refunded escrow is not recognised as final.
RefundAgain(caller, id) ==
    /\ Exists(id)
    /\ caller \in {escrow[id].depositor, admin}
    /\ escrow[id].status # "Released"
    /\ PayDepositor(id, escrow[id])
    /\ UNCHANGED <<config, escrowCount, lists, now>>

\* No pause check, no time check, and an open dispute does not stop it.
Refund(caller, id) ==
    /\ Exists(id)
    /\ caller \in {escrow[id].depositor, admin}
    /\ escrow[id].status \notin Final
    /\ PayDepositor(id, escrow[id])
    /\ UNCHANGED <<config, escrowCount, lists, now>>

\* Mutant of TryAutoRelease: release_time is not looked at.
TryAutoReleaseEarly(caller, id) ==
    /\ caller \in Addr
    /\ Exists(id)
    /\ escrow[id].status = "Active"
    /\ PayBeneficiary(id, escrow[id])
    /\ UNCHANGED <<config, escrowCount, lists, now>>

\* No pause check, and the dispute window plays no part.
TryAutoRelease(caller, id) ==
    /\ caller \in Addr
    /\ Exists(id)
    /\ escrow[id].status = "Active"
    /\ now >= escrow[id].release_time
    /\ PayBeneficiary(id, escrow[id])
    /\ UNCHANGED <<config, escrowCount, lists, now>>

-----------------------------------------------------------------------------
(* Disputes *)

\* Mutant of Dispute: a paused contract still takes disputes.
DisputeWhilePaused(caller, id, hash) ==
    /\ Exists(id)
    /\ caller = escrow[id].depositor
    /\ escrow[id].status = "Active"
    /\ NotPassed(escrow[id].release_time, escrow[id].dispute_window)
    /\ escrow' = [escrow EXCEPT ![id] =
                    [@ EXCEPT !.status = "Disputed", !.dispute_timestamp = now,
                              !.depositor_evidence_hash = hash]]
    /\ UNCHANGED <<config, escrowCount, lists, balance, now, paid>>

Dispute(caller, id, hash) ==
    /\ ~paused
    /\ Exists(id)
    /\ caller = escrow[id].depositor
    /\ escrow[id].status = "Active"
    /\ NotPassed(escrow[id].release_time, escrow[id].dispute_window)
    /\ escrow' = [escrow EXCEPT ![id] =
                    [@ EXCEPT !.status = "Disputed", !.dispute_timestamp = now,
                              !.depositor_evidence_hash = hash]]
    /\ UNCHANGED <<config, escrowCount, lists, balance, now, paid>>

\* Mutant of SubmitEvidence: the dispute does not have to be open any more.
SubmitEvidenceLate(caller, id, hash) ==
    /\ ~paused
    /\ Exists(id)
    /\ escrow[id].status # "Active"
    /\ caller = escrow[id].depositor
    /\ escrow' = [escrow EXCEPT ![id].depositor_evidence_hash = hash]
    /\ UNCHANGED <<config, escrowCount, lists, balance, now, paid>>

\* A caller who is both parties files as the depositor.
SubmitEvidence(caller, id, hash) ==
    /\ ~paused
    /\ Exists(id)
    /\ escrow[id].status = "Disputed"
    /\ \/ /\ caller = escrow[id].depositor
          /\ escrow' = [escrow EXCEPT ![id].depositor_evidence_hash = hash]
       \/ /\ caller # escrow[id].depositor
          /\ caller = escrow[id].beneficiary
          /\ escrow' = [escrow EXCEPT ![id].beneficiary_evidence_hash = hash]
    /\ UNCHANGED <<config, escrowCount, lists, balance, now, paid>>

Registered(a) == \E k \in DOMAIN arbitrators : arbitrators[k] = a

\* Mutant of Voted: only the last ballot is compared.
VotedLast(a, id) ==
    LET votes == escrow[id].arbitration_votes
    IN  votes # <<>> /\ votes[Len(votes)].arbitrator = a

Voted(a, id) == \E k \in DOMAIN escrow[id].arbitration_votes :
                    escrow[id].arbitration_votes[k].arbitrator = a

\* More than half of the list registered now, as len / 2 + 1.
Majority == Len(arbitrators) \div 2 + 1

\* The vote that is being cast counts with those stored before it, and
\* release is looked at first.
VoteResolution(a, id, decision) ==
    LET ballot == [arbitrator |-> a, decision |-> decision]
        record == [escrow[id] EXCEPT !.arbitration_votes = Append(@, ballot)]
        count(d) == Votes(id, d) + (IF d = decision THEN 1 ELSE 0)
    IN  /\ ~paused
        /\ Exists(id)
        /\ escrow[id].status = "Disputed"
        /\ Registered(a)
        /\ ~Voted(a, id)
        /\ \/ /\ count("Release") >= Majority
              /\ PayBeneficiary(id, record)
           \/ /\ count("Release") < Majority
              /\ count("Refund") >= Majority
              /\ PayDepositor(id, record)
           \/ /\ count("Release") < Majority
              /\ count("Refund") < Majority
              /\ escrow' = [escrow EXCEPT ![id] = record]
              /\ UNCHANGED <<balance, paid>>
        /\ UNCHANGED <<config, escrowCount, lists, now>>

\* Mutant of ExpireDispute: waits for arbitrators to be registered.
ExpireDisputeWithArbitrators(id) ==
    /\ ~paused
    /\ Exists(id)
    /\ escrow[id].status = "Disputed"
    /\ arbitrators # <<>>
    /\ Reached(escrow[id].dispute_timestamp, DisputeTimeout)
    /\ PayDepositor(id, escrow[id])
    /\ UNCHANGED <<config, escrowCount, lists, now>>

ExpireDispute(id) ==
    /\ ~paused
    /\ Exists(id)
    /\ escrow[id].status = "Disputed"
    /\ Reached(escrow[id].dispute_timestamp, DisputeTimeout)
    /\ PayDepositor(id, escrow[id])
    /\ UNCHANGED <<config, escrowCount, lists, now>>

-----------------------------------------------------------------------------
(* The ledger clock *)

Tick ==
    /\ now < MaxTime
    /\ now' = now + 1
    /\ UNCHANGED <<config, escrowCount, escrow, lists, balance, paid>>

Configure ==
    \/ \E a \in Admins, t \in Token, w \in Windows : Initialize(a, t, w)
    \/ \E a \in Addr, l \in ArbitratorLists : SetArbitrators(a, l)
    \/ \E a \in Addr, b \in BookingType, w \in Windows : SetDisputeWindow(a, b, w)
    \/ \E a \in Addr, v \in BOOLEAN : SetPaused(a, v)

Create ==
    \E dep \in Depositors, ben \in Beneficiaries, n \in Amounts,
       r \in ReleaseTimes, b \in BookingType :
        CreateEscrow(dep, ben, n, r, b)

Operate(id) ==
    \/ \E a \in Addr : Release(a, id) \/ Refund(a, id) \/ TryAutoRelease(a, id)
    \/ \E a \in Addr, h \in Evidence : Dispute(a, id, h) \/ SubmitEvidence(a, id, h)
    \/ \E a \in Addr, d \in Resolution : VoteResolution(a, id, d)
    \/ ExpireDispute(id)

Next == Configure \/ Create \/ (\E id \in EscrowId : Operate(id)) \/ Tick

Spec == Init /\ [][Next]_vars

\* try_auto_release and expire_dispute ask nothing of their caller.  Somebody who
\* goes on calling them, and a clock that goes on, are all the fairness there is.
Keepers ==
    /\ WF_vars(Tick)
    /\ \A id \in EscrowId : /\ WF_vars(\E a \in Addr : TryAutoRelease(a, id))
                            /\ SF_vars(ExpireDispute(id))

KeptSpec == Spec /\ Keepers

-----------------------------------------------------------------------------
(* Properties *)

Open(id) == Exists(id) /\ escrow[id].status \notin Final
WasDisputed(id) == Exists(id) /\ escrow[id].dispute_timestamp > 0

\* The units of a token that belong to somebody: each open escrow paid in it owns as
\* many as its amount.
Owed(t) ==
    UNION {{id} \X (1..escrow[id].amount) :
              id \in {i \in EscrowId : Open(i) /\ escrow[i].payment_token = t}}

\* Whatever order creations, payouts and re-initializations with another token
\* come in, the contract holds of each token exactly what its open escrows own:
\* no payout takes the money of another escrow, and none is left behind.
Solvent == \A t \in Token : balance[t][Contract] = Cardinality(Owed(t))

\* Per token the contract holds what its open escrows are worth (lib.rs: every payout uses
\* the token stored with the escrow), and storage keeps its types.
MoneySafe == TypeOK /\ Solvent

\* Six operations pay an escrow out.  Between them they pay it once, in full, to
\* the party its final status names.
PaidOnce ==
    \A id \in EscrowId :
        paid[id] = IF ~Exists(id) \/ Open(id) THEN <<>>
                   ELSE IF escrow[id].status = "Released"
                        THEN <<escrow[id].beneficiary>>
                        ELSE <<escrow[id].depositor>>

\* An arbitrator has one ballot per escrow, also when he is dropped from the list
\* and registered again, and nobody votes on an escrow that was never disputed.
BallotsValid ==
    \A id \in EscrowId : Exists(id) =>
        LET votes == escrow[id].arbitration_votes
        IN  /\ \A j, k \in DOMAIN votes :
                  votes[j].arbitrator = votes[k].arbitrator => j = k
            /\ votes # <<>> => WasDisputed(id)

\* Once an escrow is paid out its whole file (status, ballots, evidence) is
\* closed: no later call by anybody touches it.
ResolutionIsFinal ==
    [][\A id \in EscrowId :
          Exists(id) /\ ~Open(id) => UNCHANGED <<escrow[id], paid[id]>>]_vars

\* A dispute takes the money out of the beneficiary's and the admin's reach: only a new
\* ballot, cast by somebody on the list of that moment, sends it to the beneficiary, and
\* then the file holds more Release ballots than half that list is long.  Ballots of
\* arbitrators who were taken off the list still count (vote_resolution, lib.rs:316).
DisputeShields ==
    [][\A id \in EscrowId :
          Open(id) /\ WasDisputed(id) /\ (Exists(id) /\ escrow[id].status = "Released")' =>
              /\ 2 * Votes(id, "Release")' > Len(arbitrators)
              /\ \E a \in Addr : Registered(a) /\ ~Voted(a, id) /\ Voted(a, id)']_vars

\* payment_escrow/README.md:8: an escrow is "Released to the beneficiary after
\* release_time + dispute_window elapses without a dispute", whoever calls.
\* try_auto_release (lib.rs:382) only waits for release_time.
WaitsOutTheWindow ==
    [][\A id \in EscrowId :
          Exists(id) /\ escrow[id].status = "Active" /\ (Exists(id) /\ escrow[id].status = "Released")'
              => Reached(escrow[id].release_time, escrow[id].dispute_window)]_vars

\* While the contract stays paused escrows can only be closed: nothing comes in,
\* no dispute is opened or voted on.
PausedOnlyExits ==
    [][paused /\ paused' =>
          \A id \in EscrowId : escrow'[id] # escrow[id] => Open(id) /\ ~Open(id)']_vars

\* What became of an escrow stays so, and a paused contract only lets money out: every
\* operation asks for the status, and all but two of the payouts for the pause.
ResolvedStays == ResolutionIsFinal /\ PausedOnlyExits

\* A disputed escrow that went to the beneficiary had more ballots for Release
\* than for Refund ("Auto-execute if majority reached", lib.rs:315).
OutcomeFollowsBallots ==
    \A id \in EscrowId :
        WasDisputed(id) /\ escrow[id].status = "Released" =>
            Votes(id, "Release") > Votes(id, "Refund")

\* vote_resolution: one ballot each, and a dispute ends as the ballots say while the list of
\* arbitrators stays.
PanelDecides == BallotsValid /\ OutcomeFollowsBallots

\* The promise to the parties: held, contested, paid and returned.
CustodyPhase ==
    [id \in EscrowId |->
        CASE escrow[id].status = "None" -> "none"
          [] escrow[id].status = "Active" -> "held"
          [] escrow[id].status = "Disputed" -> "contested"
          [] escrow[id].status = "Released" -> "paid"
          [] OTHER -> "returned"]

CustodyTerms ==
    [id \in EscrowId |->
        IF Exists(id)
        THEN [from |-> escrow[id].depositor, to |-> escrow[id].beneficiary,
              amount |-> escrow[id].amount, due |-> escrow[id].release_time]
        ELSE NoEscrow]

Custody ==
    INSTANCE EscrowCustody WITH
        Id <- EscrowId, Party <- Addr, Absent <- NoEscrow,
        phase <- CustodyPhase, terms <- CustodyTerms, clock <- now

\* The contract implements it: in particular no interleaving of the six payout
\* paths pays the beneficiary of an undisputed escrow before release_time.
CustodyKept == Custody!Spec

\* No escrow is stuck for good, whatever the admin and the parties do, unless the
\* contract stays paused from some point on.
EveryEscrowResolves ==
    \A id \in EscrowId : Exists(id) ~> ((Exists(id) /\ ~Open(id)) \/ []paused)
=============================================================================
