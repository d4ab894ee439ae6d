------------------------ MODULE PaymentEscrowProofs ------------------------
(***************************************************************************)
(* Theorems about PaymentEscrow, for every set of accounts, tokens, times  *)
(* and amounts and every bound.                                            *)
(***************************************************************************)
EXTENDS PaymentEscrow, FiniteSetTheorems, TLAPS

\* Ids are dense: there is an escrow for exactly the ids up to the counter.
IdsDense == \A id \in EscrowId : Exists(id) <=> id <= escrowCount

\* A token is configured together with a default window, so a new escrow always
\* has a window.
WindowConfigured == paymentToken # NoAddr => paymentToken \in Token /\ disputeWindow \in Nat

TypeInv == TypeOK /\ IdsDense /\ WindowConfigured

-----------------------------------------------------------------------------
(* Lemmas about the helpers *)

\* A stored escrow is a full record.
LEMMA ExistingRecord ==
    ASSUME TypeOK, NEW id \in EscrowId, Exists(id)
    PROVE  /\ escrow[id] \in EscrowRecord
           /\ escrow[id].status \in EscrowStatus
           /\ escrow[id].depositor \in Addr
           /\ escrow[id].beneficiary \in Addr
           /\ escrow[id].payment_token \in Token
           /\ escrow[id].amount \in Nat \ {0}
           /\ escrow[id].arbitration_votes \in Seq(ArbitrationVote)
<1>1. escrow[id] \in EscrowRecord \cup {NoEscrow}
  BY DEF TypeOK
<1>2. escrow[id] # NoEscrow
  BY DEF Exists, NoEscrow
<1>3. escrow[id] \in EscrowRecord
  BY <1>1, <1>2
<1> QED
  BY <1>3 DEF EscrowRecord

\* A transfer keeps balances well typed.
LEMMA TransferType ==
    ASSUME TypeOK, NEW t \in Token, NEW from \in Account, NEW to \in Account,
           NEW sum \in Int, Transfer(t, from, to, sum)
    PROVE  balance' \in [Token -> [Account -> Int]]
<1>1. balance \in [Token -> [Account -> Int]]
  BY DEF TypeOK
<1> DEFINE row == balance[t]
           new == [row EXCEPT ![from] = row[from] - sum, ![to] = row[to] + sum]
<1>2. row \in [Account -> Int]
  BY <1>1
<1>3. new \in [Account -> Int]
  BY <1>2
<1>4. balance' = [balance EXCEPT ![t] = new]
  BY DEF Transfer
<1> QED
  BY <1>1, <1>3, <1>4

\* A payout keeps the types and touches no other escrow.
LEMMA PayOutFacts ==
    ASSUME TypeOK, NEW id \in EscrowId, Exists(id), NEW to \in Addr,
           NEW record \in EscrowRecord, PayOut(id, to, record)
    PROVE  /\ balance' \in [Token -> [Account -> Int]]
           /\ escrow' \in [EscrowId -> EscrowRecord \cup {NoEscrow}]
           /\ paid' \in [EscrowId -> Seq(Addr)]
           /\ escrow' = [escrow EXCEPT ![id] = record]
           /\ paid' = [paid EXCEPT ![id] = Append(@, to)]
<1>1. escrow[id].payment_token \in Token /\ escrow[id].amount \in Int
  BY ExistingRecord
<1>2. to \in Account /\ Contract \in Account
  BY DEF Account
<1>3. balance' \in [Token -> [Account -> Int]]
  BY <1>1, <1>2, TransferType DEF PayOut
<1>4. /\ escrow' = [escrow EXCEPT ![id] = record]
      /\ paid' = [paid EXCEPT ![id] = Append(@, to)]
  BY DEF PayOut
<1>5. escrow' \in [EscrowId -> EscrowRecord \cup {NoEscrow}]
  BY <1>4 DEF TypeOK
<1>6. paid' \in [EscrowId -> Seq(Addr)]
  BY <1>4 DEF TypeOK
<1> QED
  BY <1>3, <1>4, <1>5, <1>6
\* Paying out an open escrow keeps the type invariant.
LEMMA PayOutTypeInv ==
    ASSUME TypeInv, NEW id \in EscrowId, Exists(id), NEW to \in Addr,
           NEW record \in EscrowRecord, PayOut(id, to, record),
           UNCHANGED <<config, escrowCount, lists, now>>
    PROVE  TypeInv'
<1> USE DEF TypeInv, config, lists
<1>1. TypeOK'
  BY PayOutFacts DEF TypeOK
<1>2. escrow' = [escrow EXCEPT ![id] = record]
  BY PayOutFacts
<1>3. IdsDense'
  <2>1. record.status # "None"
    BY DEF EscrowRecord, EscrowStatus
  <2> QED
    BY <1>2, <2>1 DEF IdsDense, Exists, TypeOK
<1>4. WindowConfigured'
  BY DEF WindowConfigured
<1> QED
  BY <1>1, <1>3, <1>4

\* The two outcomes of a payout, for a record that differs from the stored one
\* in nothing that matters here.
LEMMA SettleTypeInv ==
    ASSUME TypeInv, NEW id \in EscrowId, Exists(id), NEW record \in EscrowRecord,
           PayBeneficiary(id, record) \/ PayDepositor(id, record),
           UNCHANGED <<config, escrowCount, lists, now>>
    PROVE  TypeInv'
<1>1. escrow[id].depositor \in Addr /\ escrow[id].beneficiary \in Addr
  BY ExistingRecord DEF TypeInv
<1>2. [record EXCEPT !.status = "Released"] \in EscrowRecord
  BY DEF EscrowRecord, EscrowStatus
<1>3. [record EXCEPT !.status = "Refunded"] \in EscrowRecord
  BY DEF EscrowRecord, EscrowStatus
<1> QED
  BY <1>1, <1>2, <1>3, PayOutTypeInv DEF PayBeneficiary, PayDepositor

\* Changing the record of one escrow, and nothing else, keeps the invariant.
LEMMA UpdateTypeInv ==
    ASSUME TypeInv, NEW id \in EscrowId, Exists(id), NEW record \in EscrowRecord,
           escrow' = [escrow EXCEPT ![id] = record],
           UNCHANGED <<config, escrowCount, lists, balance, now, paid>>
    PROVE  TypeInv'
<1>1. record.status # "None"
  BY DEF EscrowRecord, EscrowStatus
<1> QED
  BY <1>1 DEF TypeInv, TypeOK, IdsDense, Exists, WindowConfigured, config, lists

\* Configuration calls touch no escrow.
LEMMA ConfigureTypeInv == TypeInv /\ Configure => TypeInv'
<1> SUFFICES ASSUME TypeInv, Configure
             PROVE  TypeInv'
  OBVIOUS
<1> USE AddrAssumption, TimeAssumption, ArbitratorAssumption
        DEF TypeInv, TypeOK, IdsDense, Exists, WindowConfigured, lists
<1>1. ASSUME NEW a \in Admins, NEW t \in Token, NEW w \in Windows, Initialize(a, t, w)
      PROVE  TypeInv'
  <2>1. a \in Addr /\ w \in Nat /\ <<>> \in Seq(Addr) /\ t \in Token
    OBVIOUS
  <2> QED
    BY <1>1, <2>1 DEF Initialize
<1>2. ASSUME NEW a \in Addr, NEW l \in ArbitratorLists, SetArbitrators(a, l)
      PROVE  TypeInv'
  BY <1>2 DEF SetArbitrators
<1>3. ASSUME NEW a \in Addr, NEW b \in BookingType, NEW w \in Windows,
             SetDisputeWindow(a, b, w)
      PROVE  TypeInv'
  BY <1>3 DEF SetDisputeWindow
<1>4. ASSUME NEW a \in Addr, NEW v \in BOOLEAN, SetPaused(a, v)
      PROVE  TypeInv'
  BY <1>4 DEF SetPaused
<1> QED
  BY <1>1, <1>2, <1>3, <1>4 DEF Configure

\* What create_escrow stores.
NewEscrow(dep, ben, amount, release, type) ==
    [depositor |-> dep, beneficiary |-> ben, payment_token |-> paymentToken,
     amount |-> amount, status |-> "Active", release_time |-> release,
     dispute_window |-> WindowFor(type), dispute_timestamp |-> 0,
     arbitration_votes |-> <<>>,
     depositor_evidence_hash |-> ZeroHash, beneficiary_evidence_hash |-> ZeroHash]

\* create_escrow stores a new, active, well-formed escrow under the next id.
LEMMA CreateEscrowFacts ==
    ASSUME TypeInv, NEW dep \in Depositors, NEW ben \in Beneficiaries,
           NEW amount \in Amounts, NEW release \in ReleaseTimes, NEW type \in BookingType,
           CreateEscrow(dep, ben, amount, release, type)
    PROVE  /\ escrowCount + 1 \in EscrowId
           /\ ~Exists(escrowCount + 1)
           /\ NewEscrow(dep, ben, amount, release, type) \in EscrowRecord
           /\ escrow' = [escrow EXCEPT ![escrowCount + 1] =
                           NewEscrow(dep, ben, amount, release, type)]
           /\ paid' = paid
           /\ balance' \in [Token -> [Account -> Int]]
<1>1. escrowCount + 1 \in EscrowId
  BY BoundAssumption DEF CreateEscrow, EscrowId, TypeInv, TypeOK
<1>2. ~Exists(escrowCount + 1)
  BY <1>1 DEF TypeInv, TypeOK, IdsDense
<1>3. dep \in Addr /\ ben \in Addr /\ amount \in Nat \ {0} /\ release \in Nat
  BY AddrAssumption, AmountAssumption, TimeAssumption DEF CreateEscrow
<1>4. paymentToken \in Token /\ WindowFor(type) \in Nat
  BY TimeAssumption DEF CreateEscrow, WindowFor, TypeInv, TypeOK, WindowConfigured
<1>5. <<>> \in Seq(ArbitrationVote)
  OBVIOUS
<1>6. NewEscrow(dep, ben, amount, release, type) \in EscrowRecord
  BY <1>3, <1>4, <1>5 DEF NewEscrow, EscrowRecord, EscrowStatus
<1>7. balance' \in [Token -> [Account -> Int]]
  <2>1. dep \in Account /\ Contract \in Account /\ amount \in Int
    BY <1>3 DEF Account
  <2>2. TypeOK /\ Transfer(paymentToken, dep, Contract, amount)
    BY DEF CreateEscrow, TypeInv
  <2> QED
    BY <1>4, <2>1, <2>2, TransferType
<1> QED
  BY <1>1, <1>2, <1>6, <1>7 DEF CreateEscrow, NewEscrow

\* create_escrow keeps the types, and the ids dense.
LEMMA CreateTypeInv == TypeInv /\ Create => TypeInv'
<1> SUFFICES ASSUME TypeInv, NEW dep \in Depositors, NEW ben \in Beneficiaries,
                    NEW amount \in Amounts, NEW release \in ReleaseTimes,
                    NEW type \in BookingType,
                    CreateEscrow(dep, ben, amount, release, type)
             PROVE  TypeInv'
  BY DEF Create
<1> DEFINE new == NewEscrow(dep, ben, amount, release, type)
<1>1. /\ escrowCount + 1 \in EscrowId
      /\ new \in EscrowRecord
      /\ escrow' = [escrow EXCEPT ![escrowCount + 1] = new]
      /\ balance' \in [Token -> [Account -> Int]]
  BY CreateEscrowFacts
<1>2. /\ escrowCount' = escrowCount + 1
      /\ UNCHANGED <<config, now, paid>>
  BY DEF CreateEscrow
<1>3. dep \in Addr /\ ben \in Addr
  BY AddrAssumption
<1> HIDE DEF new
<1>4. depositorEscrows' \in [Addr -> Seq(EscrowId)]
  BY <1>1, <1>3 DEF CreateEscrow, TypeInv, TypeOK
<1>5. beneficiaryEscrows' \in [Addr -> Seq(EscrowId)]
  BY <1>1, <1>3 DEF CreateEscrow, TypeInv, TypeOK
<1>6. TypeOK'
  <2>1. escrowCount' \in 0..MaxEscrows
    BY <1>1, <1>2 DEF EscrowId
  <2>2. escrow' \in [EscrowId -> EscrowRecord \cup {NoEscrow}]
    BY <1>1 DEF TypeInv, TypeOK
  <2> QED
    BY <1>1, <1>2, <1>4, <1>5, <2>1, <2>2 DEF TypeInv, TypeOK, config
<1>7. IdsDense'
  <2>1. new.status # "None"
    BY <1>1 DEF EscrowRecord, EscrowStatus
  <2> QED
    BY <1>1, <1>2, <2>1 DEF IdsDense, Exists, TypeInv, TypeOK, EscrowId
<1>8. WindowConfigured'
  BY <1>2 DEF TypeInv, WindowConfigured, config
<1> QED
  BY <1>6, <1>7, <1>8 DEF TypeInv
\* The terms a record was created with.
SameTerms(r, e) == /\ r.depositor = e.depositor /\ r.beneficiary = e.beneficiary
                   /\ r.amount = e.amount /\ r.release_time = e.release_time
                   /\ r.payment_token = e.payment_token

\* What an operation does with an open escrow: pay it out, or rewrite its record
\* as a disputed one.
Outcome(id, record) ==
    /\ SameTerms(record, escrow[id])
    /\ \/ /\ PayBeneficiary(id, record)
          /\ escrow[id].status = "Disputed" \/ now >= escrow[id].release_time
       \/ PayDepositor(id, record)
       \/ /\ record.status = "Disputed"
          /\ escrow' = [escrow EXCEPT ![id] = record]
          /\ UNCHANGED <<balance, paid>>

\* Every operation on an escrow finds it open and has such an outcome, with a
\* well-formed record; the theorems below rest on this.
LEMMA OperateFacts ==
    ASSUME TypeInv, NEW id \in EscrowId, Operate(id)
    PROVE  /\ Exists(id)
           /\ escrow[id].status \in {"Active", "Disputed"}
           /\ UNCHANGED <<config, escrowCount, lists, now>>
           /\ \E record \in EscrowRecord : Outcome(id, record)
<1> DEFINE Goal ==
             /\ Exists(id)
             /\ escrow[id].status \in {"Active", "Disputed"}
             /\ UNCHANGED <<config, escrowCount, lists, now>>
             /\ \E record \in EscrowRecord : Outcome(id, record)
<1>0. Exists(id) => /\ escrow[id] \in EscrowRecord
                    /\ escrow[id].status \in EscrowStatus
                    /\ escrow[id].arbitration_votes \in Seq(ArbitrationVote)
  BY ExistingRecord DEF TypeInv
<1> SUFFICES Goal
  OBVIOUS
<1>1. ASSUME NEW a \in Addr, Release(a, id) PROVE Goal
  <2>1. escrow[id] \in EscrowRecord /\ escrow[id].status \in EscrowStatus /\ now \in Nat
    BY <1>0, <1>1 DEF Release, TypeInv, TypeOK
  <2>2. escrow[id].release_time \in Nat /\ escrow[id].dispute_window \in Nat
    BY <2>1 DEF EscrowRecord
  <2>3. now >= escrow[id].release_time
    BY <1>1, <2>1, <2>2 DEF Release, Reached
  <2>4. Outcome(id, escrow[id])
    BY <1>1, <2>3 DEF Release, Outcome, SameTerms
  <2> QED
    BY <1>1, <2>1, <2>4 DEF Release, EscrowStatus, Final
<1>2. ASSUME NEW a \in Addr, Refund(a, id) PROVE Goal
  BY <1>0, <1>2 DEF Refund, EscrowStatus, Final, Outcome, SameTerms
<1>3. ASSUME NEW a \in Addr, TryAutoRelease(a, id) PROVE Goal
  BY <1>0, <1>3 DEF TryAutoRelease, Outcome, SameTerms
<1>4. ASSUME NEW a \in Addr, NEW h \in Evidence, Dispute(a, id, h) PROVE Goal
  <2> DEFINE record == [escrow[id] EXCEPT !.status = "Disputed", !.dispute_timestamp = now,
                                          !.depositor_evidence_hash = h]
  <2>1. escrow[id] \in EscrowRecord /\ now \in Nat
    BY <1>0, <1>4 DEF Dispute, TypeInv, TypeOK
  <2>2. record \in EscrowRecord
    BY <2>1 DEF EscrowRecord, EscrowStatus
  <2>3. escrow' = [escrow EXCEPT ![id] = record]
    BY <1>4 DEF Dispute
  <2>4. SameTerms(record, escrow[id]) /\ record.status = "Disputed"
    BY <2>1 DEF SameTerms, EscrowRecord
  <2> HIDE DEF record
  <2>5. Outcome(id, record)
    BY <1>4, <2>3, <2>4 DEF Dispute, Outcome
  <2> QED
    BY <1>4, <2>2, <2>5 DEF Dispute
<1>5. ASSUME NEW a \in Addr, NEW h \in Evidence, SubmitEvidence(a, id, h) PROVE Goal
  <2> DEFINE r1 == [escrow[id] EXCEPT !.depositor_evidence_hash = h]
             r2 == [escrow[id] EXCEPT !.beneficiary_evidence_hash = h]
  <2>1. escrow[id] \in EscrowRecord
    BY <1>0, <1>5 DEF SubmitEvidence
  <2>2. r1 \in EscrowRecord /\ r2 \in EscrowRecord
    BY <2>1 DEF EscrowRecord
  <2>3. \/ escrow' = [escrow EXCEPT ![id] = r1]
        \/ escrow' = [escrow EXCEPT ![id] = r2]
    BY <1>5 DEF SubmitEvidence
  <2>4. /\ SameTerms(r1, escrow[id]) /\ r1.status = "Disputed"
        /\ SameTerms(r2, escrow[id]) /\ r2.status = "Disputed"
    BY <1>5, <2>1 DEF SameTerms, EscrowRecord, SubmitEvidence
  <2> HIDE DEF r1, r2
  <2>5. Outcome(id, r1) \/ Outcome(id, r2)
    BY <1>5, <2>3, <2>4 DEF SubmitEvidence, Outcome
  <2> QED
    BY <1>5, <2>2, <2>5 DEF SubmitEvidence
<1>6. ASSUME NEW a \in Addr, NEW d \in Resolution, VoteResolution(a, id, d) PROVE Goal
  <2> DEFINE ballot == [arbitrator |-> a, decision |-> d]
             record == [escrow[id] EXCEPT !.arbitration_votes = Append(@, ballot)]
  <2>1. escrow[id] \in EscrowRecord /\ escrow[id].arbitration_votes \in Seq(ArbitrationVote)
    BY <1>0, <1>6 DEF VoteResolution
  <2>2. ballot \in ArbitrationVote
    BY DEF ArbitrationVote
  <2>3. Append(escrow[id].arbitration_votes, ballot) \in Seq(ArbitrationVote)
    BY <2>1, <2>2
  <2>4. record \in EscrowRecord
    BY <2>1, <2>3 DEF EscrowRecord
  <2>5. \/ PayBeneficiary(id, record)
        \/ PayDepositor(id, record)
        \/ /\ escrow' = [escrow EXCEPT ![id] = record]
           /\ UNCHANGED <<balance, paid>>
    BY <1>6 DEF VoteResolution
  <2>6. /\ Exists(id) /\ escrow[id].status = "Disputed"
        /\ UNCHANGED <<config, escrowCount, lists, now>>
    BY <1>6 DEF VoteResolution
  <2>7. SameTerms(record, escrow[id]) /\ record.status = "Disputed"
    BY <2>1, <2>6 DEF SameTerms, EscrowRecord
  <2> HIDE DEF record
  <2>8. Outcome(id, record)
    BY <2>5, <2>6, <2>7 DEF Outcome
  <2> QED
    BY <2>4, <2>6, <2>8
<1>7. ASSUME ExpireDispute(id) PROVE Goal
  BY <1>0, <1>7 DEF ExpireDispute, Outcome, SameTerms
<1> HIDE DEF Goal
<1> QED
  BY <1>1, <1>2, <1>3, <1>4, <1>5, <1>6, <1>7 DEF Operate

\* So does every call on an existing escrow.
LEMMA OperateTypeInv == ASSUME TypeInv, NEW id \in EscrowId, Operate(id) PROVE TypeInv'
<1>1. /\ Exists(id)
      /\ UNCHANGED <<config, escrowCount, lists, now>>
  BY OperateFacts
<1>2. PICK record \in EscrowRecord : Outcome(id, record)
  BY OperateFacts
<1>3. CASE PayBeneficiary(id, record) \/ PayDepositor(id, record)
  BY <1>1, <1>3, SettleTypeInv
<1>4. CASE /\ escrow' = [escrow EXCEPT ![id] = record]
           /\ UNCHANGED <<balance, paid>>
  BY <1>1, <1>4, UpdateTypeInv
<1> QED
  BY <1>2, <1>3, <1>4 DEF Outcome

\* Time only moves the clock.
LEMMA TickTypeInv == TypeInv /\ Tick => TypeInv'
  BY DEF TypeInv, TypeOK, Tick, IdsDense, Exists, WindowConfigured, config, lists

\* A step of another contract changes nothing here.
LEMMA StutterTypeInv == TypeInv /\ UNCHANGED vars => TypeInv'
  BY DEF TypeInv, TypeOK, vars, IdsDense, Exists, WindowConfigured, config, lists

\* The empty contract is well typed.
LEMMA InitTypeInv == Init => TypeInv
<1> SUFFICES ASSUME Init PROVE TypeInv
  OBVIOUS
<1>1. \A t \in Token, a \in Account :
         (IF a = Contract THEN 0 ELSE Supply) \in Int
  BY AmountAssumption
<1>2. balance \in [Token -> [Account -> Int]]
  BY <1>1 DEF Init
<1>3. depositorEscrows \in [Addr -> Seq(EscrowId)] /\ beneficiaryEscrows \in [Addr -> Seq(EscrowId)]
  BY DEF Init
<1>4. paid \in [EscrowId -> Seq(Addr)] /\ arbitrators \in Seq(Addr)
  BY DEF Init
<1>5. escrowCount = 0 /\ escrowCount \in 0..MaxEscrows
  BY BoundAssumption DEF Init
<1>6. TypeOK
  BY <1>2, <1>3, <1>4, <1>5 DEF Init, TypeOK
<1>7. IdsDense
  BY <1>5, BoundAssumption DEF Init, IdsDense, Exists, NoEscrow, EscrowId
<1>8. WindowConfigured
  BY DEF Init, WindowConfigured
<1> QED
  BY <1>6, <1>7, <1>8 DEF TypeInv

\* Every reachable state is well typed, escrow ids are dense (create_escrow is the
\* only writer of EscrowCount) and a configured token comes with a window.
LEMMA TypeInvariant == Spec => []TypeInv
<1>1. TypeInv /\ [Next]_vars => TypeInv'
  BY ConfigureTypeInv, CreateTypeInv, OperateTypeInv, TickTypeInv, StutterTypeInv DEF Next
<1> QED
  BY InitTypeInv, <1>1, PTL DEF Spec

\* Type correctness of the contract's storage under every operation.
THEOREM TypeCorrect == Spec => []TypeOK
<1>1. TypeInv => TypeOK
  BY DEF TypeInv
<1> QED
  BY TypeInvariant, <1>1, PTL

-----------------------------------------------------------------------------
(* One payout, to the party the status names *)

\* What one operation leaves of the escrow it names and of its payments.
Settled(id) ==
    /\ SameTerms(escrow'[id], escrow[id])
    /\ \/ /\ escrow'[id].status = "Released"
          /\ paid'[id] = Append(paid[id], escrow[id].beneficiary)
          /\ escrow[id].status = "Disputed" \/ now >= escrow[id].release_time
       \/ /\ escrow'[id].status = "Refunded"
          /\ paid'[id] = Append(paid[id], escrow[id].depositor)
       \/ /\ escrow'[id].status = "Disputed"
          /\ paid'[id] = paid[id]

\* What a call on one open escrow does to its record and its payments.
LEMMA OperateSettles ==
    ASSUME TypeInv, NEW id \in EscrowId, Operate(id)
    PROVE  /\ Open(id)
           /\ Settled(id)
           /\ \A other \in EscrowId \ {id} :
                 escrow'[other] = escrow[other] /\ paid'[other] = paid[other]
<1>1. Open(id)
  BY OperateFacts DEF Open, Final
<1>2. PICK record \in EscrowRecord : Outcome(id, record)
  BY OperateFacts
<1>3. /\ escrow \in [EscrowId -> EscrowRecord \cup {NoEscrow}]
      /\ paid \in [EscrowId -> Seq(Addr)]
  BY DEF TypeInv, TypeOK
<1> DEFINE Paid(to, r) == /\ escrow' = [escrow EXCEPT ![id] = r]
                          /\ paid' = [paid EXCEPT ![id] = Append(paid[id], to)]
<1>4. CASE /\ PayBeneficiary(id, record)
           /\ escrow[id].status = "Disputed" \/ now >= escrow[id].release_time
  <2>1. Paid(escrow[id].beneficiary, [record EXCEPT !.status = "Released"])
    BY <1>4 DEF PayBeneficiary, PayOut
  <2> QED
    BY <1>1, <1>2, <1>3, <1>4, <2>1 DEF Outcome, Settled, SameTerms, EscrowRecord
<1>5. CASE PayDepositor(id, record)
  <2>1. Paid(escrow[id].depositor, [record EXCEPT !.status = "Refunded"])
    BY <1>5 DEF PayDepositor, PayOut
  <2> QED
    BY <1>1, <1>2, <1>3, <2>1 DEF Outcome, Settled, SameTerms, EscrowRecord
<1>6. CASE /\ record.status = "Disputed"
           /\ escrow' = [escrow EXCEPT ![id] = record]
           /\ UNCHANGED <<balance, paid>>
  BY <1>1, <1>2, <1>3, <1>6 DEF Outcome, Settled, SameTerms
<1> QED
  BY <1>2, <1>4, <1>5, <1>6 DEF Outcome
PaidInv == TypeInv /\ PaidOnce

\* The other steps: configuration and the clock leave escrows and payments alone,
\* and a creation adds one escrow, which is open.
LEMMA QuietSteps ==
    ASSUME Configure \/ Tick \/ UNCHANGED vars
    PROVE  UNCHANGED <<escrow, paid, escrowCount>>
  BY DEF Configure, Initialize, SetArbitrators, SetDisputeWindow, SetPaused, Tick, vars

\* Creating an escrow leaves every existing one, and its payments, alone.
LEMMA CreateStep ==
    ASSUME TypeInv, Create
    PROVE  \E id \in EscrowId, new \in EscrowRecord :
              /\ ~Exists(id)
              /\ new.status = "Active"
              /\ new.arbitration_votes = <<>>
              /\ new.dispute_timestamp = 0
              /\ escrow' = [escrow EXCEPT ![id] = new]
              /\ paid' = paid
              /\ now' = now
<1>1. PICK dep \in Depositors, ben \in Beneficiaries, amount \in Amounts,
           release \in ReleaseTimes, type \in BookingType :
              CreateEscrow(dep, ben, amount, release, type)
  BY DEF Create
<1> DEFINE new == NewEscrow(dep, ben, amount, release, type)
<1>2. /\ new.status = "Active"
      /\ new.arbitration_votes = <<>>
      /\ new.dispute_timestamp = 0
  BY DEF NewEscrow
<1>3. now' = now
  BY <1>1 DEF CreateEscrow
<1>4. /\ escrowCount + 1 \in EscrowId
      /\ ~Exists(escrowCount + 1)
      /\ new \in EscrowRecord
      /\ escrow' = [escrow EXCEPT ![escrowCount + 1] = new]
      /\ paid' = paid
  BY <1>1, CreateEscrowFacts
<1> HIDE DEF new
<1> QED
  BY <1>2, <1>3, <1>4

\* The empty contract has paid nobody.
LEMMA InitPaid == Init => PaidOnce
  BY DEF Init, PaidOnce, Exists, NoEscrow, Open

\* No step pays an escrow a second time.
LEMMA StepPaid == PaidInv /\ [Next]_vars => PaidOnce'
<1> SUFFICES ASSUME PaidInv, [Next]_vars PROVE PaidOnce'
  OBVIOUS
<1>0. escrow \in [EscrowId -> EscrowRecord \cup {NoEscrow}] /\ paid \in [EscrowId -> Seq(Addr)]
  BY DEF PaidInv, TypeInv, TypeOK
<1>1. CASE Configure \/ Tick \/ UNCHANGED vars
  BY <1>1, QuietSteps DEF PaidInv, PaidOnce, Exists, Open
<1>2. CASE Create
  <2>1. PICK id \in EscrowId, new \in EscrowRecord :
              /\ ~Exists(id)
              /\ new.status = "Active"
              /\ escrow' = [escrow EXCEPT ![id] = new]
              /\ paid' = paid
    BY <1>2, CreateStep DEF PaidInv
  <2> QED
    BY <1>0, <2>1 DEF PaidInv, PaidOnce, Exists, Open, Final
<1>3. ASSUME NEW id \in EscrowId, Operate(id) PROVE PaidOnce'
  <2>1. /\ Open(id)
        /\ Settled(id)
        /\ \A other \in EscrowId \ {id} :
              escrow'[other] = escrow[other] /\ paid'[other] = paid[other]
    BY <1>3, OperateSettles DEF PaidInv
  <2>2. /\ paid[id] = <<>>
        /\ escrow[id].depositor \in Addr /\ escrow[id].beneficiary \in Addr
    BY <2>1, ExistingRecord DEF PaidInv, PaidOnce, TypeInv, Open
  <2>3. /\ Append(<<>>, escrow[id].beneficiary) = <<escrow[id].beneficiary>>
        /\ Append(<<>>, escrow[id].depositor) = <<escrow[id].depositor>>
    BY <2>2
  <2>4. ASSUME NEW i \in EscrowId
        PROVE  paid'[i] = IF ~Exists(i)' \/ Open(i)' THEN <<>>
                          ELSE IF escrow'[i].status = "Released"
                               THEN <<escrow'[i].beneficiary>>
                               ELSE <<escrow'[i].depositor>>
    <3>1. CASE i = id
      BY <2>1, <2>2, <2>3, <3>1 DEF Settled, SameTerms, Exists, Open, Final
    <3>2. CASE i # id
      BY <2>1, <3>2 DEF PaidInv, PaidOnce, Exists, Open
    <3> QED
      BY <3>1, <3>2
  <2> QED
    BY <2>4 DEF PaidOnce
<1> QED
  BY <1>1, <1>2, <1>3 DEF Next

\* However the calls interleave, an escrow is paid out at most once, and to the
\* party its final status names (release, refund, try_auto_release,
\* vote_resolution and expire_dispute together).
THEOREM OnePayout == Spec => []PaidOnce
<1>1. PaidInv /\ [Next]_vars => PaidInv'
  <2>1. TypeInv /\ [Next]_vars => TypeInv'
    BY ConfigureTypeInv, CreateTypeInv, OperateTypeInv, TickTypeInv, StutterTypeInv DEF Next
  <2> QED
    BY <2>1, StepPaid DEF PaidInv
<1>2. Init => PaidInv
  BY InitTypeInv, InitPaid DEF PaidInv
<1>3. PaidInv => PaidOnce
  BY DEF PaidInv
<1> QED
  BY <1>1, <1>2, <1>3, PTL DEF Spec

\* A paid-out escrow is closed: no call of anybody changes its record or pays
\* from it again.
THEOREM ResolutionFinal == Spec => ResolutionIsFinal
<1>1. ASSUME TypeInv, Next
      PROVE  \A id \in EscrowId :
                Exists(id) /\ ~Open(id) => UNCHANGED <<escrow[id], paid[id]>>
  <2>0. escrow \in [EscrowId -> EscrowRecord \cup {NoEscrow}]
    BY <1>1 DEF TypeInv, TypeOK
  <2>1. CASE Configure \/ Tick
    BY <2>1, QuietSteps
  <2>2. CASE Create
    <3>1. PICK id \in EscrowId, new \in EscrowRecord :
                /\ ~Exists(id)
                /\ escrow' = [escrow EXCEPT ![id] = new]
                /\ paid' = paid
      BY <1>1, <2>2, CreateStep
    <3> QED
      BY <2>0, <3>1
  <2>3. ASSUME NEW id \in EscrowId, Operate(id)
        PROVE  \A i \in EscrowId :
                  Exists(i) /\ ~Open(i) => UNCHANGED <<escrow[i], paid[i]>>
    BY <1>1, <2>3, OperateSettles
  <2> QED
    BY <1>1, <2>1, <2>2, <2>3 DEF Next
<1>2. TypeInv /\ [Next]_vars =>
         [\A id \in EscrowId :
             Exists(id) /\ ~Open(id) => UNCHANGED <<escrow[id], paid[id]>>]_vars
  BY <1>1
<1> QED
  BY <1>2, TypeInvariant, PTL DEF Spec, ResolutionIsFinal

\* Refund and TryAutoRelease are the only calls on an escrow that a pause lets through.
LEMMA PausedExit ==
    ASSUME TypeInv, paused, NEW id \in EscrowId, Operate(id)
    PROVE  Open(id) /\ ~Open(id)' /\ \A i \in EscrowId \ {id} : escrow'[i] = escrow[i]
<1>0. /\ Open(id) /\ escrow \in [EscrowId -> EscrowRecord \cup {NoEscrow}]
      /\ escrow[id] \in EscrowRecord
  BY OperateSettles, ExistingRecord DEF TypeInv, TypeOK, Open
<1>1. PICK a \in Addr : Refund(a, id) \/ TryAutoRelease(a, id)
  BY DEF Operate, Release, Dispute, SubmitEvidence, VoteResolution, ExpireDispute
<1>2. PICK status \in Final : escrow' = [escrow EXCEPT ![id] = [escrow[id] EXCEPT !.status = status]]
  BY <1>1 DEF Refund, TryAutoRelease, PayDepositor, PayBeneficiary, PayOut, Final
<1>3. escrow'[id].status = status
  BY <1>0, <1>2 DEF EscrowRecord
<1> QED
  BY <1>0, <1>2, <1>3 DEF Open

\* A paid-out escrow is closed, and while the contract is paused an escrow only changes by
\* being paid out.
THEOREM ResolvedForGood == Spec => ResolvedStays
<1>1. ASSUME TypeInv, Next, paused, paused'
      PROVE  \A id \in EscrowId : escrow'[id] # escrow[id] => Open(id) /\ ~Open(id)'
  <2>1. CASE Configure \/ Tick
    BY <2>1, QuietSteps
  <2>2. ~Create
    BY <1>1 DEF Create, CreateEscrow
  <2>3. ASSUME NEW id \in EscrowId, Operate(id)
        PROVE  \A i \in EscrowId : escrow'[i] # escrow[i] => Open(i) /\ ~Open(i)'
    BY <1>1, <2>3, PausedExit
  <2> QED
    BY <1>1, <2>1, <2>2, <2>3 DEF Next
<1>2. TypeInv /\ [Next]_vars =>
         [paused /\ paused' =>
             \A id \in EscrowId : escrow'[id] # escrow[id] => Open(id) /\ ~Open(id)']_vars
  BY <1>1
<1>3. Spec => PausedOnlyExits
  BY <1>2, TypeInvariant, PTL DEF Spec, PausedOnlyExits
<1> QED
  BY <1>3, ResolutionFinal DEF ResolvedStays
-----------------------------------------------------------------------------
(* The contract implements the custody promise *)

\* The empty contract is an empty custody.
LEMMA CustodyInit == Init => Custody!Init
<1> SUFFICES ASSUME Init PROVE Custody!Init
  OBVIOUS
<1>1. CustodyPhase = [id \in EscrowId |-> "none"]
  BY DEF Init, CustodyPhase, NoEscrow
<1>2. CustodyTerms = [id \in EscrowId |-> NoEscrow]
  BY DEF Init, CustodyTerms, NoEscrow, Exists
<1>3. now \in Nat
  BY DEF Init
<1> QED
  BY <1>1, <1>2, <1>3 DEF Custody!Init

\* Both mapped functions look at nothing but the record of the id.
LEMMA CustodyFrame ==
    ASSUME NEW id \in EscrowId,
           \A other \in EscrowId \ {id} : escrow'[other] = escrow[other]
    PROVE  /\ CustodyPhase' = [CustodyPhase EXCEPT ![id] = CustodyPhase'[id]]
           /\ CustodyTerms' = [CustodyTerms EXCEPT ![id] = CustodyTerms'[id]]
  BY DEF CustodyPhase, CustodyTerms, Exists

\* create_escrow is a deposit.
LEMMA CustodyCreate == ASSUME TypeInv, Create PROVE [Custody!Next]_(Custody!vars)
<1>1. PICK id \in EscrowId, new \in EscrowRecord :
            /\ ~Exists(id)
            /\ new.status = "Active"
            /\ escrow' = [escrow EXCEPT ![id] = new]
            /\ now' = now
  BY CreateStep
<1>2. escrow \in [EscrowId -> EscrowRecord \cup {NoEscrow}]
  BY DEF TypeInv, TypeOK
<1>3. /\ CustodyPhase' = [CustodyPhase EXCEPT ![id] = CustodyPhase'[id]]
      /\ CustodyTerms' = [CustodyTerms EXCEPT ![id] = CustodyTerms'[id]]
  BY <1>1, <1>2, CustodyFrame
<1>4. escrow'[id] = new
  BY <1>1, <1>2
<1>5. CustodyPhase[id] = "none" /\ CustodyPhase'[id] = "held"
  BY <1>1, <1>4 DEF CustodyPhase, Exists
<1>6. CustodyTerms'[id] \in Custody!Terms
  <2>1. CustodyTerms'[id] = [from |-> new.depositor, to |-> new.beneficiary,
                             amount |-> new.amount, due |-> new.release_time]
    BY <1>1, <1>4 DEF CustodyTerms, Exists
  <2>2. /\ new.depositor \in Addr /\ new.beneficiary \in Addr
        /\ new.amount \in Nat \ {0} /\ new.release_time \in Nat
    BY DEF EscrowRecord
  <2> QED
    BY <2>1, <2>2 DEF Custody!Terms
<1>7. Custody!Deposit(id)
  BY <1>1, <1>3, <1>5, <1>6 DEF Custody!Deposit
<1> QED
  BY <1>7 DEF Custody!Next

\* A call on one escrow is a payout of it, a dispute of it, or a stutter.
LEMMA CustodyOperate ==
    ASSUME TypeInv, NEW id \in EscrowId, Operate(id)
    PROVE  [Custody!Next]_(Custody!vars)
<1>1. /\ Exists(id)
      /\ escrow[id].status \in {"Active", "Disputed"}
      /\ now' = now
  BY OperateFacts
<1>2. /\ Settled(id)
      /\ \A other \in EscrowId \ {id} : escrow'[other] = escrow[other]
  BY OperateSettles
<1>3. /\ CustodyPhase' = [CustodyPhase EXCEPT ![id] = CustodyPhase'[id]]
      /\ CustodyTerms' = [CustodyTerms EXCEPT ![id] = CustodyTerms'[id]]
  BY <1>2, CustodyFrame
<1>4. CustodyTerms' = CustodyTerms
  <2>1. Exists(id)'
    BY <1>2 DEF Settled, Exists
  <2>2. CustodyTerms'[id] = CustodyTerms[id]
    BY <1>1, <1>2, <2>1 DEF Settled, SameTerms, CustodyTerms
  <2> QED
    BY <1>3, <2>2 DEF CustodyTerms
<1>5. CustodyTerms[id].due = escrow[id].release_time
  BY <1>1 DEF CustodyTerms
<1>6. CASE escrow'[id].status = "Released"
  <2>1. /\ CustodyPhase[id] = "contested" \/
              (CustodyPhase[id] = "held" /\ now >= CustodyTerms[id].due)
        /\ CustodyPhase'[id] = "paid"
    BY <1>1, <1>2, <1>5, <1>6 DEF Settled, CustodyPhase
  <2>2. Custody!Pay(id)
    BY <1>1, <1>3, <1>4, <2>1 DEF Custody!Pay
  <2> QED
    BY <2>2 DEF Custody!Next
<1>7. CASE escrow'[id].status = "Refunded"
  <2>1. /\ CustodyPhase[id] \in {"held", "contested"}
        /\ CustodyPhase'[id] = "returned"
    BY <1>1, <1>7 DEF CustodyPhase
  <2>2. Custody!Return(id)
    BY <1>1, <1>3, <1>4, <2>1 DEF Custody!Return
  <2> QED
    BY <2>2 DEF Custody!Next
<1>8. CASE escrow'[id].status = "Disputed"
  <2>1. CustodyPhase'[id] = "contested"
    BY <1>8 DEF CustodyPhase
  <2>2. CASE escrow[id].status = "Active"
    <3>1. CustodyPhase[id] = "held"
      BY <2>2 DEF CustodyPhase
    <3>2. Custody!Contest(id)
      BY <1>1, <1>3, <1>4, <2>1, <3>1 DEF Custody!Contest
    <3> QED
      BY <3>2 DEF Custody!Next
  <2>3. CASE escrow[id].status = "Disputed"
    <3>1. CustodyPhase[id] = "contested"
      BY <2>3 DEF CustodyPhase
    <3>2. CustodyPhase' = CustodyPhase
      BY <1>3, <2>1, <3>1 DEF CustodyPhase
    <3> QED
      BY <1>1, <1>4, <3>2 DEF Custody!vars
  <2> QED
    BY <1>1, <2>2, <2>3
<1> QED
  BY <1>2, <1>6, <1>7, <1>8 DEF Settled

\* Configuration and time are stutters or ticks of the custody.
LEMMA CustodyQuiet ==
    ASSUME TypeInv, Configure \/ Tick \/ UNCHANGED vars
    PROVE  [Custody!Next]_(Custody!vars)
<1>1. CustodyPhase' = CustodyPhase /\ CustodyTerms' = CustodyTerms
  BY QuietSteps DEF CustodyPhase, CustodyTerms, Exists
<1>2. CASE Tick
  <2>1. Custody!Pass
    BY <1>1, <1>2 DEF Tick, Custody!Pass
  <2> QED
    BY <2>1 DEF Custody!Next
<1>3. CASE Configure \/ UNCHANGED vars
  <2>1. now' = now
    BY <1>3 DEF Configure, Initialize, SetArbitrators, SetDisputeWindow, SetPaused, vars
  <2> QED
    BY <1>1, <2>1 DEF Custody!vars
<1> QED
  BY <1>2, <1>3

\* The contract implements EscrowCustody: money is held for fixed terms, leaves
\* once, and reaches the beneficiary of an uncontested escrow only when due.
THEOREM ImplementsCustody == Spec => CustodyKept
<1>1. TypeInv /\ [Next]_vars => [Custody!Next]_(Custody!vars)
  BY CustodyCreate, CustodyOperate, CustodyQuiet DEF Next
<1> QED
  BY CustodyInit, <1>1, TypeInvariant, PTL DEF Spec, CustodyKept, Custody!Spec
-----------------------------------------------------------------------------
(* Disputes and ballots *)

BallotCount(votes, d) == Cardinality({k \in DOMAIN votes : votes[k].decision = d})

\* The count is a number.
LEMMA BallotCounted ==
    ASSUME NEW votes \in Seq(ArbitrationVote), NEW d
    PROVE  /\ IsFiniteSet({k \in DOMAIN votes : votes[k].decision = d})
           /\ BallotCount(votes, d) \in Nat
<1> DEFINE S == {k \in DOMAIN votes : votes[k].decision = d}
<1>1. Len(votes) \in Nat /\ DOMAIN votes = 1..Len(votes)
  OBVIOUS
<1>2. IsFiniteSet(S)
  <2>1. IsFiniteSet(1..Len(votes))
    BY <1>1, FS_Interval
  <2> QED
    BY <1>1, <2>1, FS_Subset
<1>3. Cardinality(S) \in Nat
  BY <1>2, FS_CardinalityType
<1> QED
  BY <1>2, <1>3 DEF BallotCount

\* Casting a ballot adds one to the count of its decision and to no other.
LEMMA BallotAppended ==
    ASSUME NEW votes \in Seq(ArbitrationVote), NEW b \in ArbitrationVote, NEW d
    PROVE  /\ BallotCount(votes, d) \in Nat
           /\ BallotCount(Append(votes, b), d) =
                 BallotCount(votes, d) + (IF d = b.decision THEN 1 ELSE 0)
<1> DEFINE n == Len(votes)
           S == {k \in DOMAIN votes : votes[k].decision = d}
           T == {k \in DOMAIN Append(votes, b) : Append(votes, b)[k].decision = d}
<1>1. n \in Nat /\ DOMAIN votes = 1..n /\ DOMAIN Append(votes, b) = 1..(n + 1)
  OBVIOUS
<1>2. IsFiniteSet(S) /\ Cardinality(S) \in Nat
  BY BallotCounted DEF BallotCount
<1>3. n + 1 \notin S
  BY <1>1
<1>4. \A k \in 1..n : Append(votes, b)[k] = votes[k]
  OBVIOUS
<1>5. Append(votes, b)[n + 1] = b
  OBVIOUS
<1>6. T = IF d = b.decision THEN S \cup {n + 1} ELSE S
  BY <1>1, <1>4, <1>5
<1>7. Cardinality(S \cup {n + 1}) = Cardinality(S) + 1
  BY <1>2, <1>3, FS_AddElement
<1> HIDE DEF S, T
<1>8. Cardinality(T) = Cardinality(S) + (IF d = b.decision THEN 1 ELSE 0)
  BY <1>2, <1>6, <1>7
<1> QED
  BY <1>2, <1>8 DEF BallotCount, S, T

\* What an operation does to the dispute part of the record.
DisputePart(id) == <<escrow[id].arbitration_votes, escrow[id].dispute_timestamp>>

Undisturbed(id) ==
    /\ DisputePart(id)' = DisputePart(id)
    /\ \/ escrow[id].status = "Active" /\ escrow'[id].status \in Final
       \/ escrow[id].status = "Disputed" /\ escrow'[id].status \in {"Disputed", "Refunded"}

Opened(id) ==
    /\ escrow[id].status = "Active" /\ escrow'[id].status = "Disputed"
    /\ DisputePart(id)' = <<escrow[id].arbitration_votes, now>>

VotedOn(id) ==
    /\ escrow[id].status = "Disputed"
    /\ \E a \in Addr, d \in Resolution :
          /\ Registered(a) /\ ~Voted(a, id)
          /\ DisputePart(id)' =
                <<Append(escrow[id].arbitration_votes, [arbitrator |-> a, decision |-> d]),
                  escrow[id].dispute_timestamp>>
          /\ escrow'[id].status = "Released" =>
                Votes(id, "Release") + (IF "Release" = d THEN 1 ELSE 0) >= Majority

\* A call on one escrow leaves its dispute alone, opens one, or adds a ballot.
LEMMA OperateDispute ==
    ASSUME TypeInv, NEW id \in EscrowId, Operate(id)
    PROVE  Undisturbed(id) \/ Opened(id) \/ VotedOn(id)
<1>0. /\ escrow \in [EscrowId -> EscrowRecord \cup {NoEscrow}]
      /\ escrow[id] \in EscrowRecord
      /\ escrow[id].status \in {"Active", "Disputed"}
  BY OperateFacts, ExistingRecord DEF TypeInv, TypeOK
<1>1. ASSUME NEW record \in EscrowRecord, PayBeneficiary(id, record)
      PROVE  /\ escrow'[id].status = "Released"
             /\ escrow'[id].arbitration_votes = record.arbitration_votes
             /\ escrow'[id].dispute_timestamp = record.dispute_timestamp
  <2>1. escrow' = [escrow EXCEPT ![id] = [record EXCEPT !.status = "Released"]]
    BY <1>1 DEF PayBeneficiary, PayOut
  <2> QED
    BY <1>0, <2>1 DEF EscrowRecord
<1>2. ASSUME NEW record \in EscrowRecord, PayDepositor(id, record)
      PROVE  /\ escrow'[id].status = "Refunded"
             /\ escrow'[id].arbitration_votes = record.arbitration_votes
             /\ escrow'[id].dispute_timestamp = record.dispute_timestamp
  <2>1. escrow' = [escrow EXCEPT ![id] = [record EXCEPT !.status = "Refunded"]]
    BY <1>2 DEF PayDepositor, PayOut
  <2> QED
    BY <1>0, <2>1 DEF EscrowRecord
<1>3. ASSUME NEW a \in Addr, Release(a, id) \/ TryAutoRelease(a, id) PROVE Undisturbed(id)
  <2>1. PayBeneficiary(id, escrow[id]) /\ escrow[id].status = "Active"
    BY <1>0, <1>3 DEF Release, TryAutoRelease
  <2> QED
    BY <1>0, <1>1, <2>1 DEF Undisturbed, DisputePart, Final
<1>4. ASSUME (\E a \in Addr : Refund(a, id)) \/ ExpireDispute(id) PROVE Undisturbed(id)
  <2>1. PayDepositor(id, escrow[id])
    BY <1>4 DEF Refund, ExpireDispute
  <2> QED
    BY <1>0, <1>2, <2>1 DEF Undisturbed, DisputePart, Final
<1>5. ASSUME NEW a \in Addr, NEW h \in Evidence, Dispute(a, id, h) PROVE Opened(id)
  BY <1>0, <1>5 DEF Dispute, Opened, DisputePart, EscrowRecord
<1>6. ASSUME NEW a \in Addr, NEW h \in Evidence, SubmitEvidence(a, id, h) PROVE Undisturbed(id)
  BY <1>0, <1>6 DEF SubmitEvidence, Undisturbed, DisputePart, EscrowRecord
<1>7. ASSUME NEW a \in Addr, NEW d \in Resolution, VoteResolution(a, id, d) PROVE VotedOn(id)
  <2> DEFINE ballot == [arbitrator |-> a, decision |-> d]
             record == [escrow[id] EXCEPT !.arbitration_votes = Append(@, ballot)]
  <2>1. escrow[id].status = "Disputed" /\ Registered(a) /\ ~Voted(a, id)
    BY <1>7 DEF VoteResolution
  <2>2. ballot \in ArbitrationVote /\ escrow[id].arbitration_votes \in Seq(ArbitrationVote)
    BY <1>0 DEF ArbitrationVote, EscrowRecord
  <2>3. Append(escrow[id].arbitration_votes, ballot) \in Seq(ArbitrationVote)
    BY <2>2
  <2>4. /\ record \in EscrowRecord
        /\ record.status = "Disputed"
        /\ record.arbitration_votes = Append(escrow[id].arbitration_votes, ballot)
        /\ record.dispute_timestamp = escrow[id].dispute_timestamp
    BY <1>0, <2>1, <2>3 DEF EscrowRecord
  <2>5. \/ /\ Votes(id, "Release") + (IF "Release" = d THEN 1 ELSE 0) >= Majority
           /\ PayBeneficiary(id, record)
        \/ PayDepositor(id, record)
        \/ escrow' = [escrow EXCEPT ![id] = record]
    BY <1>7 DEF VoteResolution
  <2> HIDE DEF record
  <2>6. /\ escrow'[id].arbitration_votes = record.arbitration_votes
        /\ escrow'[id].dispute_timestamp = record.dispute_timestamp
        /\ escrow'[id].status = "Released" =>
              Votes(id, "Release") + (IF "Release" = d THEN 1 ELSE 0) >= Majority
    BY <1>0, <1>1, <1>2, <2>4, <2>5
  <2> QED
    BY <2>1, <2>4, <2>6 DEF VotedOn, DisputePart
<1> QED
  BY <1>3, <1>4, <1>5, <1>6, <1>7 DEF Operate
\* The strengthening of BallotsValid: the timestamp says whether a dispute was
\* opened (the ledger clock never reads 0), and ballots come after it.
DisputeInv ==
    /\ TypeInv
    /\ BallotsValid
    /\ now > 0
    /\ \A id \in EscrowId : Exists(id) =>
          /\ escrow[id].status = "Active" =>
                escrow[id].dispute_timestamp = 0 /\ escrow[id].arbitration_votes = <<>>
          /\ escrow[id].status = "Disputed" => escrow[id].dispute_timestamp > 0

\* DisputeInv as a statement about one record.
RecordInv(e) ==
    /\ \A j, k \in DOMAIN e.arbitration_votes :
          e.arbitration_votes[j].arbitrator = e.arbitration_votes[k].arbitrator => j = k
    /\ e.arbitration_votes # <<>> => e.dispute_timestamp > 0
    /\ e.status = "Active" => e.dispute_timestamp = 0 /\ e.arbitration_votes = <<>>
    /\ e.status = "Disputed" => e.dispute_timestamp > 0

\* The dispute invariant speaks of one escrow at a time.
LEMMA DisputeInvByRecord ==
    DisputeInv <=> TypeInv /\ now > 0 /\ \A id \in EscrowId : Exists(id) => RecordInv(escrow[id])
  BY DEF DisputeInv, BallotsValid, RecordInv, WasDisputed

\* There are no ballots at first.
LEMMA InitDispute == Init => DisputeInv
  BY InitTypeInv DEF Init, DisputeInv, BallotsValid, Exists, NoEscrow

\* A ballot is only added for an arbitrator who has none.
LEMMA BallotsStayDistinct ==
    ASSUME NEW votes \in Seq(ArbitrationVote), NEW b \in ArbitrationVote,
           \A j, k \in DOMAIN votes : votes[j].arbitrator = votes[k].arbitrator => j = k,
           \A k \in DOMAIN votes : votes[k].arbitrator # b.arbitrator
    PROVE  \A j, k \in DOMAIN Append(votes, b) :
              Append(votes, b)[j].arbitrator = Append(votes, b)[k].arbitrator => j = k
<1> DEFINE n == Len(votes)
<1>1. n \in Nat /\ DOMAIN votes = 1..n /\ DOMAIN Append(votes, b) = 1..(n + 1)
  OBVIOUS
<1>2. \A k \in 1..n : Append(votes, b)[k] = votes[k]
  OBVIOUS
<1>3. Append(votes, b)[n + 1] = b
  OBVIOUS
<1> QED
  BY <1>1, <1>2, <1>3

\* A call on one escrow keeps the invariant of that escrow.
LEMMA OperateRecordInv ==
    ASSUME DisputeInv, NEW id \in EscrowId, Operate(id)
    PROVE  RecordInv(escrow'[id])
<1>0. /\ TypeInv /\ Exists(id) /\ now > 0 /\ RecordInv(escrow[id])
      /\ escrow[id] \in EscrowRecord
  BY OperateFacts, ExistingRecord, DisputeInvByRecord DEF DisputeInv, TypeInv
<1>1. CASE Undisturbed(id)
  BY <1>0, <1>1 DEF Undisturbed, DisputePart, RecordInv, Final
<1>2. CASE Opened(id)
  BY <1>0, <1>2 DEF Opened, DisputePart, RecordInv
<1>3. CASE VotedOn(id)
  <2>1. PICK a \in Addr, d \in Resolution :
           /\ ~Voted(a, id)
           /\ DisputePart(id)' =
                <<Append(escrow[id].arbitration_votes, [arbitrator |-> a, decision |-> d]),
                  escrow[id].dispute_timestamp>>
    BY <1>3 DEF VotedOn
  <2> DEFINE votes == escrow[id].arbitration_votes
             b == [arbitrator |-> a, decision |-> d]
  <2>2. votes \in Seq(ArbitrationVote) /\ b \in ArbitrationVote
    BY <1>0 DEF EscrowRecord, ArbitrationVote
  <2>3. \A k \in DOMAIN votes : votes[k].arbitrator # b.arbitrator
    BY <2>1 DEF Voted
  <2>4. \A j, k \in DOMAIN Append(votes, b) :
           Append(votes, b)[j].arbitrator = Append(votes, b)[k].arbitrator => j = k
    BY <1>0, <2>2, <2>3, BallotsStayDistinct DEF RecordInv
  <2>5. escrow[id].dispute_timestamp > 0
    BY <1>0, <1>3 DEF VotedOn, RecordInv
  <2>6. /\ escrow'[id].arbitration_votes = Append(votes, b)
        /\ escrow'[id].dispute_timestamp = escrow[id].dispute_timestamp
    BY <2>1 DEF DisputePart
  <2>7. escrow'[id].status # "Active"
    BY <1>0, OperateSettles DEF Settled
  <2> HIDE DEF votes, b
  <2> QED
    BY <2>4, <2>5, <2>6, <2>7 DEF RecordInv
<1> QED
  BY <1>0, <1>1, <1>2, <1>3, OperateDispute

\* Every step keeps the dispute invariant.
LEMMA StepDispute == DisputeInv /\ [Next]_vars => DisputeInv'
<1> SUFFICES ASSUME DisputeInv, [Next]_vars PROVE DisputeInv'
  OBVIOUS
<1>0. /\ TypeInv /\ TypeInv'
      /\ now > 0 /\ now \in Nat
      /\ escrow \in [EscrowId -> EscrowRecord \cup {NoEscrow}]
      /\ \A id \in EscrowId : Exists(id) => RecordInv(escrow[id])
  <2>1. TypeInv
    BY DEF DisputeInv
  <2>2. TypeInv'
    BY <2>1, ConfigureTypeInv, CreateTypeInv, OperateTypeInv, TickTypeInv, StutterTypeInv DEF Next
  <2> QED
    BY <2>1, <2>2, DisputeInvByRecord DEF TypeInv, TypeOK
<1>1. now' > 0
  <2>1. CASE Configure \/ UNCHANGED vars
    BY <1>0, <2>1 DEF Configure, Initialize, SetArbitrators, SetDisputeWindow, SetPaused, vars
  <2>2. CASE Create
    BY <1>0, <2>2, CreateStep
  <2>3. ASSUME NEW id \in EscrowId, Operate(id) PROVE now' > 0
    BY <1>0, <2>3, OperateFacts
  <2>4. CASE Tick
    BY <1>0, <2>4 DEF Tick
  <2> QED
    BY <2>1, <2>2, <2>3, <2>4 DEF Next
<1>2. \A id \in EscrowId : Exists(id)' => RecordInv(escrow'[id])
  <2>1. CASE Configure \/ Tick \/ UNCHANGED vars
    BY <1>0, <2>1, QuietSteps DEF Exists
  <2>2. CASE Create
    <3>1. PICK new \in EscrowRecord, id \in EscrowId :
                /\ new.status = "Active"
                /\ new.arbitration_votes = <<>>
                /\ new.dispute_timestamp = 0
                /\ escrow' = [escrow EXCEPT ![id] = new]
      BY <1>0, <2>2, CreateStep
    <3>2. RecordInv(new)
      BY <3>1 DEF RecordInv
    <3> QED
      BY <1>0, <3>1, <3>2 DEF Exists
  <2>3. ASSUME NEW id \in EscrowId, Operate(id)
        PROVE  \A i \in EscrowId : Exists(i)' => RecordInv(escrow'[i])
    <3>1. \A i \in EscrowId \ {id} : escrow'[i] = escrow[i]
      BY <1>0, <2>3, OperateSettles
    <3>2. RecordInv(escrow'[id])
      BY <2>3, OperateRecordInv
    <3> QED
      BY <1>0, <3>1, <3>2 DEF Exists
  <2> QED
    BY <2>1, <2>2, <2>3 DEF Next
<1>3. DisputeInv' <=> TypeInv' /\ now' > 0 /\ \A id \in EscrowId : Exists(id)' => RecordInv(escrow'[id])
  BY DEF DisputeInv, BallotsValid, RecordInv, WasDisputed, Exists
<1> QED
  BY <1>0, <1>1, <1>2, <1>3

\* One ballot per arbitrator and escrow, and only on disputed escrows, however
\* the list of arbitrators changes.
THEOREM BallotsAreValid == Spec => []BallotsValid
<1>1. DisputeInv => BallotsValid
  BY DEF DisputeInv
<1> QED
  BY InitDispute, StepDispute, <1>1, PTL DEF Spec

\* A disputed escrow goes to the beneficiary only by a new ballot of somebody on the list
\* of that moment, with more Release ballots in the file than half that list is long,
\* those of arbitrators who left the list included.
THEOREM DisputesShield == Spec => DisputeShields
<1> DEFINE Shield == \A id \in EscrowId :
              Open(id) /\ WasDisputed(id) /\ (Exists(id) /\ escrow[id].status = "Released")' =>
                  /\ 2 * Votes(id, "Release")' > Len(arbitrators)
                  /\ \E a \in Addr : Registered(a) /\ ~Voted(a, id) /\ Voted(a, id)'
<1>1. ASSUME DisputeInv, Next, NEW id \in EscrowId,
             Open(id), WasDisputed(id), escrow'[id].status = "Released"
      PROVE  /\ 2 * Votes(id, "Release")' > Len(arbitrators)
             /\ \E a \in Addr : Registered(a) /\ ~Voted(a, id) /\ Voted(a, id)'
  <2>0. /\ TypeInv /\ escrow[id] \in EscrowRecord
        /\ escrow[id].status = "Disputed"
        /\ escrow \in [EscrowId -> EscrowRecord \cup {NoEscrow}]
    <3>1. TypeInv /\ TypeOK /\ Exists(id)
      BY <1>1 DEF DisputeInv, TypeInv, Open
    <3>2. escrow[id] \in EscrowRecord /\ escrow[id].status \in EscrowStatus
      BY <3>1, ExistingRecord
    <3>3. escrow[id].status # "Active"
      BY <1>1, <3>1, <3>2 DEF DisputeInv, WasDisputed
    <3> QED
      BY <1>1, <3>1, <3>2, <3>3 DEF EscrowStatus, Open, Final, TypeOK
  <2>1. Operate(id)
    <3>1. ~(Configure \/ Tick)
      BY <1>1, <2>0, QuietSteps
    <3>2. ~Create
      BY <1>1, <2>0, CreateStep DEF Exists
    <3>3. ASSUME NEW i \in EscrowId \ {id}, Operate(i) PROVE FALSE
      BY <1>1, <2>0, <3>3, OperateSettles
    <3> QED
      BY <1>1, <3>1, <3>2, <3>3 DEF Next
  <2>2. VotedOn(id)
    BY <1>1, <2>0, <2>1, OperateDispute DEF Undisturbed, Opened
  <2>3. PICK a \in Addr, d \in Resolution :
           /\ Registered(a) /\ ~Voted(a, id)
           /\ DisputePart(id)' =
                <<Append(escrow[id].arbitration_votes, [arbitrator |-> a, decision |-> d]),
                  escrow[id].dispute_timestamp>>
           /\ Votes(id, "Release") + (IF "Release" = d THEN 1 ELSE 0) >= Majority
    BY <1>1, <2>2 DEF VotedOn
  <2> DEFINE votes == escrow[id].arbitration_votes
             b == [arbitrator |-> a, decision |-> d]
  <2>4. votes \in Seq(ArbitrationVote) /\ b \in ArbitrationVote
    BY <2>0 DEF EscrowRecord, ArbitrationVote
  <2>5. escrow'[id].arbitration_votes = Append(votes, b)
    BY <2>3 DEF DisputePart
  <2>6. Votes(id, "Release") = BallotCount(votes, "Release")
    BY DEF Votes, BallotCount
  <2>7. Votes(id, "Release")' = BallotCount(Append(votes, b), "Release")
    BY <2>5 DEF Votes, BallotCount
  <2>8. Len(arbitrators) \in Nat
    BY <2>0 DEF TypeInv, TypeOK
  <2>9. /\ BallotCount(votes, "Release") \in Nat
        /\ BallotCount(Append(votes, b), "Release") =
              BallotCount(votes, "Release") + (IF "Release" = d THEN 1 ELSE 0)
    BY <2>4, BallotAppended
  <2>10. BallotCount(Append(votes, b), "Release") >= Len(arbitrators) \div 2 + 1
    BY <2>3, <2>6, <2>9 DEF Majority
  <2>11. 2 * BallotCount(Append(votes, b), "Release") > Len(arbitrators)
    <3> DEFINE c == BallotCount(Append(votes, b), "Release")
               n == Len(arbitrators)
    <3>1. c \in Nat /\ n \in Nat /\ c >= n \div 2 + 1
      BY <2>8, <2>9, <2>10
    <3> HIDE DEF c, n
    <3>2. 2 * c > n
      BY <3>1
    <3> QED
      BY <3>2 DEF c, n
  <2>12. Voted(a, id)'
    <3>1. Len(votes) + 1 \in DOMAIN Append(votes, b) /\ Append(votes, b)[Len(votes) + 1] = b
      BY <2>4
    <3>2. \E k \in DOMAIN escrow'[id].arbitration_votes :
             escrow'[id].arbitration_votes[k].arbitrator = a
      BY <2>5, <3>1
    <3> QED
      BY <3>2 DEF Voted
  <2> QED
    BY <2>3, <2>7, <2>11, <2>12
<1>2. DisputeInv /\ [Next]_vars => [Shield]_vars
  BY <1>1 DEF Exists
<1> QED
  BY InitDispute, StepDispute, <1>2, PTL DEF Spec, DisputeShields
-----------------------------------------------------------------------------
(* The money of the open escrows *)

\* The units of one escrow, and how many there are.
Units(id, n) == {id} \X (1..n)

LEMMA UnitsCount ==
    ASSUME NEW id, NEW n \in Nat
    PROVE  IsFiniteSet(Units(id, n)) /\ Cardinality(Units(id, n)) = n
<1>1. IsFiniteSet({id}) /\ Cardinality({id}) = 1
  BY FS_Singleton
<1>2. IsFiniteSet(1..n) /\ Cardinality(1..n) = n
  BY FS_Interval
<1>3. /\ IsFiniteSet({id} \X (1..n))
      /\ Cardinality({id} \X (1..n)) = Cardinality({id}) * Cardinality(1..n)
  BY <1>1, <1>2, FS_Product
<1> QED
  BY <1>1, <1>2, <1>3 DEF Units

\* The inductive form of Solvent: what is owed is also finite, so that taking
\* units in or out changes its cardinality by their number.
SolventInv ==
    /\ TypeInv
    /\ \A t \in Token : IsFiniteSet(Owed(t)) /\ balance[t][Contract] = Cardinality(Owed(t))

\* A transfer moves the contract's balance of that token, and of no other.
LEMMA TransferMoves ==
    ASSUME TypeOK, NEW token \in Token, NEW from \in Account, NEW to \in Account,
           NEW sum \in Int, Transfer(token, from, to, sum), from # to
    PROVE  /\ to = Contract => balance'[token][Contract] = balance[token][Contract] + sum
           /\ from = Contract => balance'[token][Contract] = balance[token][Contract] - sum
           /\ \A t \in Token \ {token} : balance'[t] = balance[t]
<1>1. balance \in [Token -> [Account -> Int]]
  BY DEF TypeOK
<1> DEFINE row == balance[token]
           new == [row EXCEPT ![from] = row[from] - sum, ![to] = row[to] + sum]
<1>2. row \in [Account -> Int]
  BY <1>1
<1>3. new[from] = row[from] - sum /\ new[to] = row[to] + sum
  BY <1>2
<1>4. balance' = [balance EXCEPT ![token] = new]
  BY DEF Transfer
<1> HIDE DEF new
<1>5. balance'[token] = new /\ \A t \in Token \ {token} : balance'[t] = balance[t]
  BY <1>1, <1>4
<1> QED
  BY <1>3, <1>5

\* Only the record, the openness and the token of an escrow decide what it owns.
LEMMA OwedSame ==
    ASSUME NEW id \in EscrowId,
           \A other \in EscrowId \ {id} : escrow'[other] = escrow[other],
           Open(id), Open(id)',
           escrow'[id].amount = escrow[id].amount,
           escrow'[id].payment_token = escrow[id].payment_token,
           NEW t \in Token
    PROVE  Owed(t)' = Owed(t)
<1>1. \A i \in EscrowId : /\ Open(i)' = Open(i)
                          /\ Open(i) => /\ escrow'[i].amount = escrow[i].amount
                                        /\ escrow'[i].payment_token = escrow[i].payment_token
  BY DEF Open, Exists
<1>2. {i \in EscrowId : Open(i) /\ escrow[i].payment_token = t}
        = {i \in EscrowId : Open(i)' /\ escrow'[i].payment_token = t}
  BY <1>1
<1> QED
  BY <1>1, <1>2 DEF Owed

\* A new open escrow adds its units, all new, to what is owed in its token.
LEMMA OwedGrows ==
    ASSUME NEW id \in EscrowId,
           \A other \in EscrowId \ {id} : escrow'[other] = escrow[other],
           ~Open(id), Open(id)', NEW t \in Token
    PROVE  LET U == Units(id, escrow'[id].amount)
           IN  IF escrow'[id].payment_token = t
               THEN Owed(t)' = Owed(t) \cup U /\ Owed(t) \cap U = {}
               ELSE Owed(t)' = Owed(t)
<1> DEFINE Of(i) == {i} \X (1..escrow[i].amount)
           OfNext(i) == {i} \X (1..escrow'[i].amount)
           S == {i \in EscrowId : Open(i) /\ escrow[i].payment_token = t}
           T == {i \in EscrowId : Open(i)' /\ escrow'[i].payment_token = t}
<1>1. \A i \in EscrowId \ {id} : Open(i)' = Open(i) /\ OfNext(i) = Of(i)
  BY DEF Open, Exists
<1>2. id \notin S /\ T = IF escrow'[id].payment_token = t THEN S \cup {id} ELSE S
  BY <1>1
<1>3. Owed(t) = UNION {Of(i) : i \in S} /\ Owed(t)' = UNION {OfNext(i) : i \in T}
  BY DEF Owed
<1>4. \A i \in S : OfNext(i) = Of(i)
  BY <1>1, <1>2
<1>5. OfNext(id) = Units(id, escrow'[id].amount)
  BY DEF Units
<1>6. \A i \in S : Of(i) \cap OfNext(id) = {}
  BY <1>2
<1> HIDE DEF Of, OfNext, S, T
<1>7. UNION {OfNext(i) : i \in S} = UNION {Of(i) : i \in S}
  BY <1>4
<1>8. UNION {OfNext(i) : i \in S \cup {id}} = (UNION {OfNext(i) : i \in S}) \cup OfNext(id)
  OBVIOUS
<1>9. (UNION {Of(i) : i \in S}) \cap OfNext(id) = {}
  BY <1>6
<1> QED
  BY <1>2, <1>3, <1>5, <1>7, <1>8, <1>9

\* An escrow that is closed takes its own units, and no other, out of what is owed.
LEMMA OwedShrinks ==
    ASSUME NEW id \in EscrowId,
           \A other \in EscrowId \ {id} : escrow'[other] = escrow[other],
           Open(id), ~Open(id)', NEW t \in Token
    PROVE  LET U == Units(id, escrow[id].amount)
           IN  IF escrow[id].payment_token = t
               THEN Owed(t)' = Owed(t) \ U /\ U \subseteq Owed(t)
               ELSE Owed(t)' = Owed(t)
<1> DEFINE Of(i) == {i} \X (1..escrow[i].amount)
           OfNext(i) == {i} \X (1..escrow'[i].amount)
           S == {i \in EscrowId : Open(i) /\ escrow[i].payment_token = t}
           T == {i \in EscrowId : Open(i)' /\ escrow'[i].payment_token = t}
<1>1. \A i \in EscrowId \ {id} : Open(i)' = Open(i) /\ OfNext(i) = Of(i)
  BY DEF Open, Exists
<1>2. id \notin T /\ S = IF escrow[id].payment_token = t THEN T \cup {id} ELSE T
  BY <1>1
<1>3. Owed(t) = UNION {Of(i) : i \in S} /\ Owed(t)' = UNION {OfNext(i) : i \in T}
  BY DEF Owed
<1>4. \A i \in T : OfNext(i) = Of(i)
  BY <1>1, <1>2
<1>5. Of(id) = Units(id, escrow[id].amount)
  BY DEF Units
<1>6. \A i \in T : Of(i) \cap Of(id) = {}
  BY <1>2
<1> HIDE DEF Of, OfNext, S, T
<1>7. UNION {OfNext(i) : i \in T} = UNION {Of(i) : i \in T}
  BY <1>4
<1>8. UNION {Of(i) : i \in T \cup {id}} = (UNION {Of(i) : i \in T}) \cup Of(id)
  OBVIOUS
<1>9. (UNION {Of(i) : i \in T}) \cap Of(id) = {}
  BY <1>6
<1>10. CASE escrow[id].payment_token = t
  <2>1. Owed(t) = Owed(t)' \cup Of(id) /\ Owed(t)' \cap Of(id) = {}
    BY <1>2, <1>3, <1>7, <1>8, <1>9, <1>10
  <2> QED
    BY <1>5, <1>10, <2>1
<1>11. CASE escrow[id].payment_token # t
  BY <1>2, <1>3, <1>7, <1>11
<1> QED
  BY <1>10, <1>11

\* Money comes in together with the escrow it is for.
LEMMA CreateSolvent == ASSUME SolventInv, Create PROVE SolventInv'
<1>1. PICK dep \in Depositors, ben \in Beneficiaries, amount \in Amounts,
           release \in ReleaseTimes, type \in BookingType :
              CreateEscrow(dep, ben, amount, release, type)
  BY DEF Create
<1>2. /\ TypeInv /\ TypeOK
      /\ escrow \in [EscrowId -> EscrowRecord \cup {NoEscrow}]
      /\ balance \in [Token -> [Account -> Int]]
  BY DEF SolventInv, TypeInv, TypeOK
<1>3. PICK id \in EscrowId, new \in EscrowRecord :
            /\ ~Exists(id)
            /\ new = NewEscrow(dep, ben, amount, release, type)
            /\ escrow' = [escrow EXCEPT ![id] = new]
  BY <1>1, <1>2, CreateEscrowFacts
<1> DEFINE U == Units(id, amount)
<1>4. /\ new.amount = amount /\ new.payment_token = paymentToken /\ new.status = "Active"
      /\ amount \in Nat /\ paymentToken \in Token
  <2>1. new.amount = amount /\ new.payment_token = paymentToken /\ new.status = "Active"
    BY <1>3 DEF NewEscrow
  <2> QED
    BY <1>3, <2>1 DEF EscrowRecord
<1>5. /\ balance'[paymentToken][Contract] = balance[paymentToken][Contract] + amount
      /\ \A t \in Token \ {paymentToken} : balance'[t] = balance[t]
  <2>1. Transfer(paymentToken, dep, Contract, amount)
    BY <1>1 DEF CreateEscrow
  <2>2. dep \in Account /\ Contract \in Account /\ dep # Contract /\ amount \in Int
    BY <1>4, AddrAssumption DEF Account
  <2> QED
    BY <1>2, <1>4, <2>1, <2>2, TransferMoves
<1>6. TypeInv'
  BY <1>1, <1>2, CreateTypeInv DEF Create
<1>7. /\ ~Open(id) /\ Open(id)' /\ escrow'[id] = new
      /\ \A other \in EscrowId \ {id} : escrow'[other] = escrow[other]
  BY <1>2, <1>3, <1>4 DEF Open, Exists, Final
<1>8. ASSUME NEW t \in Token
      PROVE  IsFiniteSet(Owed(t)') /\ balance'[t][Contract] = Cardinality(Owed(t)')
  <2>1. IsFiniteSet(Owed(t)) /\ balance[t][Contract] = Cardinality(Owed(t))
    BY DEF SolventInv
  <2>2. CASE paymentToken = t
    <3>1. Owed(t)' = Owed(t) \cup U /\ Owed(t) \cap U = {}
      BY <1>3, <1>4, <1>7, <2>2, OwedGrows
    <3>2. IsFiniteSet(U) /\ Cardinality(U) = amount
      BY <1>4, UnitsCount
    <3>3. Cardinality(Owed(t) \cap U) = 0
      BY <3>1, FS_EmptySet
    <3>4. Cardinality(Owed(t)) \in Nat
      BY <2>1, FS_CardinalityType
    <3>5. IsFiniteSet(Owed(t)') /\ Cardinality(Owed(t)') = Cardinality(Owed(t)) + amount
      <4> HIDE DEF U
      <4>1. /\ IsFiniteSet(Owed(t) \cup U)
            /\ Cardinality(Owed(t) \cup U)
                  = Cardinality(Owed(t)) + Cardinality(U) - Cardinality(Owed(t) \cap U)
        BY <2>1, <3>2, FS_Union
      <4> QED
        BY <1>4, <3>1, <3>2, <3>3, <3>4, <4>1
    <3> QED
      BY <1>5, <2>1, <2>2, <3>5
  <2>3. CASE paymentToken # t
    BY <1>3, <1>4, <1>5, <1>7, <2>1, <2>3, OwedGrows
  <2> QED
    BY <2>2, <2>3
<1>9. SolventInv' <=> /\ TypeInv'
                      /\ \A t \in Token : /\ IsFiniteSet(Owed(t)')
                                           /\ balance'[t][Contract] = Cardinality(Owed(t)')
  BY DEF SolventInv
<1> QED
  BY <1>6, <1>8, <1>9

\* A payout takes out the money of the escrow it closes; every other call leaves
\* what the escrow owns as it is.
LEMMA OperateSolvent == ASSUME SolventInv, NEW id \in EscrowId, Operate(id) PROVE SolventInv'
<1>1. /\ TypeInv /\ TypeOK /\ TypeInv'
      /\ balance \in [Token -> [Account -> Int]]
  BY OperateTypeInv DEF SolventInv, TypeInv, TypeOK
<1>2. /\ Open(id) /\ Settled(id)
      /\ \A other \in EscrowId \ {id} : escrow'[other] = escrow[other]
  BY <1>1, OperateSettles
<1>3. PICK record \in EscrowRecord : Outcome(id, record)
  BY <1>1, OperateFacts
<1> DEFINE token == escrow[id].payment_token
           amount == escrow[id].amount
           U == Units(id, amount)
<1>4. /\ token \in Token /\ amount \in Nat
      /\ escrow[id].depositor \in Addr /\ escrow[id].beneficiary \in Addr
  BY <1>1, <1>2, ExistingRecord DEF Open
<1>5. SolventInv' <=> /\ TypeInv'
                      /\ \A t \in Token : /\ IsFiniteSet(Owed(t)')
                                           /\ balance'[t][Contract] = Cardinality(Owed(t)')
  BY DEF SolventInv
<1>6. CASE PayBeneficiary(id, record) \/ PayDepositor(id, record)
  <2>1. PICK to \in Addr, closed \in {"Released", "Refunded"} :
           /\ Transfer(token, Contract, to, amount)
           /\ escrow' = [escrow EXCEPT ![id] = [record EXCEPT !.status = closed]]
    BY <1>4, <1>6 DEF PayBeneficiary, PayDepositor, PayOut
  <2>2. to \in Account /\ Contract \in Account /\ to # Contract /\ amount \in Int
    BY <1>4, AddrAssumption DEF Account
  <2>3. /\ balance'[token][Contract] = balance[token][Contract] - amount
        /\ \A t \in Token \ {token} : balance'[t] = balance[t]
    BY <1>1, <1>4, <2>1, <2>2, TransferMoves
  <2>4. ~Open(id)'
    <3>1. escrow'[id].status = closed
      BY <1>1, <2>1 DEF TypeOK, EscrowRecord
    <3> QED
      BY <3>1 DEF Open, Final
  <2>5. ASSUME NEW t \in Token
        PROVE  IsFiniteSet(Owed(t)') /\ balance'[t][Contract] = Cardinality(Owed(t)')
    <3>1. IsFiniteSet(Owed(t)) /\ balance[t][Contract] = Cardinality(Owed(t))
      BY DEF SolventInv
    <3>2. CASE token = t
      <4>1. Owed(t)' = Owed(t) \ U /\ U \subseteq Owed(t)
        BY <1>2, <2>4, <3>2, OwedShrinks
      <4>2. Cardinality(U) = amount
        BY <1>4, UnitsCount
      <4> HIDE DEF U, token, amount
      <4>3. Owed(t) \cap U = U
        BY <4>1
      <4>4. /\ IsFiniteSet(Owed(t) \ U)
            /\ Cardinality(Owed(t) \ U) = Cardinality(Owed(t)) - Cardinality(Owed(t) \cap U)
        BY <3>1, FS_Difference
      <4>5. IsFiniteSet(Owed(t)') /\ Cardinality(Owed(t)') = Cardinality(Owed(t)) - amount
        BY <4>1, <4>2, <4>3, <4>4
      <4> QED
        BY <2>3, <3>1, <3>2, <4>5
    <3>3. CASE token # t
      BY <1>2, <2>3, <2>4, <3>1, <3>3, OwedShrinks
    <3> QED
      BY <3>2, <3>3
  <2> QED
    BY <1>1, <1>5, <2>5
<1>7. CASE /\ record.status = "Disputed"
           /\ escrow' = [escrow EXCEPT ![id] = record]
           /\ UNCHANGED <<balance, paid>>
  <2>1. escrow'[id] = record
    BY <1>1, <1>7 DEF TypeOK
  <2>2. Open(id)' /\ escrow'[id].amount = amount /\ escrow'[id].payment_token = token
    BY <1>3, <1>7, <2>1 DEF Open, Exists, Final, Outcome, SameTerms
  <2>3. \A t \in Token : Owed(t)' = Owed(t)
    BY <1>2, <2>2, OwedSame
  <2> QED
    BY <1>1, <1>5, <1>7, <2>3 DEF SolventInv
<1> QED
  BY <1>3, <1>6, <1>7 DEF Outcome

\* The empty contract holds and owes nothing.
LEMMA InitSolvent == Init => SolventInv
<1> SUFFICES ASSUME Init PROVE SolventInv
  OBVIOUS
<1>1. ASSUME NEW t \in Token
      PROVE  IsFiniteSet(Owed(t)) /\ balance[t][Contract] = Cardinality(Owed(t))
  <2>1. \A id \in EscrowId : ~Open(id)
    BY DEF Init, Open, Exists, NoEscrow
  <2>2. Owed(t) = {}
    BY <2>1 DEF Owed
  <2>3. balance[t][Contract] = 0
    BY DEF Init, Account
  <2> QED
    BY <2>2, <2>3, FS_EmptySet
<1> QED
  BY <1>1, InitTypeInv DEF SolventInv

\* The contract holds of each token exactly what its open escrows own, whatever
\* order deposits, payouts and re-initializations with another token come in.
THEOREM MoneyIsSafe == Spec => []MoneySafe
<1>1. SolventInv /\ [Next]_vars => SolventInv'
  <2> SUFFICES ASSUME SolventInv, [Next]_vars PROVE SolventInv'
    OBVIOUS
  <2>1. CASE Configure \/ Tick \/ UNCHANGED vars
    <3>1. TypeInv'
      BY <2>1, ConfigureTypeInv, TickTypeInv, StutterTypeInv DEF SolventInv
    <3>2. escrow' = escrow
      BY <2>1, QuietSteps
    <3>3. balance' = balance
      BY <2>1 DEF Configure, Initialize, SetArbitrators, SetDisputeWindow, SetPaused, Tick, vars
    <3> QED
      BY <3>1, <3>2, <3>3 DEF SolventInv, Owed, Open, Exists
  <2> QED
    BY <2>1, CreateSolvent, OperateSolvent DEF Next
<1>2. SolventInv => MoneySafe
  BY DEF SolventInv, MoneySafe, Solvent, TypeInv
<1> QED
  BY InitSolvent, <1>1, <1>2, PTL DEF Spec
-----------------------------------------------------------------------------
(* What the panel decides *)

\* All the lists an admin registers are the same.
OnePanel == \A l, m \in ArbitratorLists : l = m

\* Ballots without repetition, all by members of a panel, are no more than its seats.
LEMMA BallotsWithinPanel ==
    ASSUME NEW votes \in Seq(ArbitrationVote), NEW panel \in Seq(Addr),
           \A j, k \in DOMAIN votes : votes[j].arbitrator = votes[k].arbitrator => j = k,
           \A k \in DOMAIN votes : \E j \in DOMAIN panel : panel[j] = votes[k].arbitrator
    PROVE  BallotCount(votes, "Release") + BallotCount(votes, "Refund") <= Len(panel)
<1> DEFINE S == {k \in DOMAIN votes : votes[k].decision = "Release"}
           T == {k \in DOMAIN votes : votes[k].decision = "Refund"}
           seat == [k \in DOMAIN votes |-> CHOOSE j \in DOMAIN panel : panel[j] = votes[k].arbitrator]
<1>1. /\ Len(votes) \in Nat /\ DOMAIN votes = 1..Len(votes)
      /\ Len(panel) \in Nat /\ DOMAIN panel = 1..Len(panel)
  OBVIOUS
<1>2. /\ IsFiniteSet(DOMAIN votes)
      /\ IsFiniteSet(DOMAIN panel) /\ Cardinality(DOMAIN panel) = Len(panel)
  <2>1. \A n \in Nat : IsFiniteSet(1..n) /\ Cardinality(1..n) = n
    BY FS_Interval
  <2> QED
    BY <1>1, <2>1
<1>3. \A k \in DOMAIN votes : seat[k] \in DOMAIN panel /\ panel[seat[k]] = votes[k].arbitrator
  OBVIOUS
<1>4. seat \in Injection(DOMAIN votes, DOMAIN panel)
  <2>1. seat \in [DOMAIN votes -> DOMAIN panel]
    BY <1>3
  <2> HIDE DEF seat
  <2>2. \A j, k \in DOMAIN votes : seat[j] = seat[k] => j = k
    BY <1>3
  <2> QED
    BY <2>1, <2>2 DEF Injection, IsInjective
<1>5. S \in SUBSET (DOMAIN votes) /\ T \in SUBSET (DOMAIN votes) /\ S \cap T = {}
  OBVIOUS
<1>6. BallotCount(votes, "Release") = Cardinality(S) /\ BallotCount(votes, "Refund") = Cardinality(T)
  BY DEF BallotCount
<1> HIDE DEF S, T, seat
<1>7. Cardinality(DOMAIN votes) <= Len(panel)
  BY <1>2, <1>4, FS_Injection
<1>8. IsFiniteSet(S) /\ IsFiniteSet(T)
  BY <1>2, <1>5, FS_Subset
<1>9. Cardinality(S \cup T) <= Cardinality(DOMAIN votes)
  <2>1. S \cup T \in SUBSET (DOMAIN votes)
    BY <1>5
  <2> QED
    BY <1>2, <2>1, FS_Subset
<1>10. Cardinality(S) \in Nat /\ Cardinality(T) \in Nat /\ Cardinality(DOMAIN votes) \in Nat
  BY <1>2, <1>8, FS_CardinalityType
<1>11. Cardinality(S \cup T) = Cardinality(S) + Cardinality(T)
  <2>1. Cardinality(S \cap T) = 0
    BY <1>5, FS_EmptySet
  <2>2. Cardinality(S \cup T) = Cardinality(S) + Cardinality(T) - Cardinality(S \cap T)
    BY <1>8, FS_Union
  <2> QED
    BY <1>10, <2>1, <2>2
<1> QED
  BY <1>1, <1>6, <1>7, <1>9, <1>10, <1>11

\* What is known of one escrow: its ballots are by members of a panel, and if it was
\* released from a dispute a majority of a panel voted for that.
PanelRecord(e) ==
    /\ \A k \in DOMAIN e.arbitration_votes :
          \E l \in ArbitratorLists : \E j \in DOMAIN l : l[j] = e.arbitration_votes[k].arbitrator
    /\ e.status = "Released" /\ e.dispute_timestamp > 0 =>
          \E l \in ArbitratorLists :
              BallotCount(e.arbitration_votes, "Release") >= Len(l) \div 2 + 1

\* initialize empties the list of arbitrators and set_arbitrators stores one again.
PanelInv ==
    /\ DisputeInv
    /\ arbitrators = <<>> \/ arbitrators \in ArbitratorLists
    /\ \A id \in EscrowId : Exists(id) => PanelRecord(escrow[id])

\* Every call on an escrow keeps this of it.
LEMMA OperatePanel ==
    ASSUME PanelInv, NEW id \in EscrowId, Operate(id)
    PROVE  PanelRecord(escrow'[id])
<1>0. /\ DisputeInv /\ TypeInv /\ Exists(id) /\ RecordInv(escrow[id]) /\ PanelRecord(escrow[id])
      /\ escrow[id] \in EscrowRecord
  BY OperateFacts, ExistingRecord, DisputeInvByRecord DEF PanelInv, DisputeInv, TypeInv
<1>1. CASE Undisturbed(id)
  BY <1>0, <1>1 DEF Undisturbed, DisputePart, RecordInv, PanelRecord
<1>2. CASE Opened(id)
  BY <1>0, <1>2 DEF Opened, DisputePart, RecordInv, PanelRecord
<1>3. CASE VotedOn(id)
  <2>1. PICK a \in Addr, d \in Resolution :
           /\ Registered(a)
           /\ DisputePart(id)' =
                <<Append(escrow[id].arbitration_votes, [arbitrator |-> a, decision |-> d]),
                  escrow[id].dispute_timestamp>>
           /\ escrow'[id].status = "Released" =>
                Votes(id, "Release") + (IF "Release" = d THEN 1 ELSE 0) >= Majority
    BY <1>3 DEF VotedOn
  <2> DEFINE votes == escrow[id].arbitration_votes
             b == [arbitrator |-> a, decision |-> d]
  <2>2. votes \in Seq(ArbitrationVote) /\ b \in ArbitrationVote
    BY <1>0 DEF EscrowRecord, ArbitrationVote
  <2>3. escrow'[id].arbitration_votes = Append(votes, b)
    BY <2>1 DEF DisputePart
  <2>4. arbitrators \in ArbitratorLists /\ \E j \in DOMAIN arbitrators : arbitrators[j] = a
    BY <2>1 DEF Registered, PanelInv
  <2>5. \A k \in DOMAIN Append(votes, b) :
           \E l \in ArbitratorLists : \E j \in DOMAIN l : l[j] = Append(votes, b)[k].arbitrator
    <3>1. /\ Len(votes) \in Nat /\ DOMAIN votes = 1..Len(votes)
          /\ DOMAIN Append(votes, b) = 1..(Len(votes) + 1)
          /\ \A k \in 1..Len(votes) : Append(votes, b)[k] = votes[k]
          /\ Append(votes, b)[Len(votes) + 1] = b
      BY <2>2
    <3>2. \A k \in DOMAIN votes :
             \E l \in ArbitratorLists : \E j \in DOMAIN l : l[j] = votes[k].arbitrator
      BY <1>0 DEF PanelRecord
    <3>3. b.arbitrator = a
      OBVIOUS
    <3> HIDE DEF votes, b
    <3> QED
      BY <2>4, <3>1, <3>2, <3>3
  <2>6. escrow'[id].status = "Released" =>
           BallotCount(Append(votes, b), "Release") >= Len(arbitrators) \div 2 + 1
    <3>1. Votes(id, "Release") = BallotCount(votes, "Release")
      BY DEF Votes, BallotCount
    <3>2. BallotCount(Append(votes, b), "Release") =
             BallotCount(votes, "Release") + (IF "Release" = d THEN 1 ELSE 0)
      BY <2>2, BallotAppended
    <3> QED
      BY <2>1, <3>1, <3>2 DEF Majority
  <2> HIDE DEF votes, b
  <2> QED
    BY <2>3, <2>4, <2>5, <2>6 DEF PanelRecord
<1> QED
  BY <1>0, <1>1, <1>2, <1>3, OperateDispute

\* So does every other step.
LEMMA StepPanel == PanelInv /\ [Next]_vars => PanelInv'
<1> SUFFICES ASSUME PanelInv, [Next]_vars PROVE PanelInv'
  OBVIOUS
<1>0. /\ DisputeInv /\ TypeInv /\ DisputeInv'
      /\ escrow \in [EscrowId -> EscrowRecord \cup {NoEscrow}]
      /\ \A id \in EscrowId : Exists(id) => PanelRecord(escrow[id])
  BY StepDispute DEF PanelInv, DisputeInv, TypeInv, TypeOK
<1>1. arbitrators' = <<>> \/ arbitrators' \in ArbitratorLists
  <2>1. CASE Configure \/ Tick \/ UNCHANGED vars
    BY <2>1 DEF PanelInv, Configure, Initialize, SetArbitrators, SetDisputeWindow, SetPaused,
                Tick, vars, config
  <2>2. CASE Create
    BY <2>2 DEF PanelInv, Create, CreateEscrow, config
  <2>3. ASSUME NEW id \in EscrowId, Operate(id) PROVE arbitrators' = arbitrators
    BY <1>0, <2>3, OperateFacts DEF config
  <2> QED
    BY <2>1, <2>2, <2>3 DEF Next, PanelInv
<1>2. \A id \in EscrowId : Exists(id)' => PanelRecord(escrow'[id])
  <2>1. CASE Configure \/ Tick \/ UNCHANGED vars
    BY <1>0, <2>1, QuietSteps DEF Exists
  <2>2. CASE Create
    <3>1. PICK new \in EscrowRecord, id \in EscrowId :
                /\ new.status = "Active"
                /\ new.arbitration_votes = <<>>
                /\ escrow' = [escrow EXCEPT ![id] = new]
      BY <1>0, <2>2, CreateStep
    <3>2. PanelRecord(new)
      BY <3>1 DEF PanelRecord
    <3> QED
      BY <1>0, <3>1, <3>2 DEF Exists
  <2>3. ASSUME NEW id \in EscrowId, Operate(id)
        PROVE  \A i \in EscrowId : Exists(i)' => PanelRecord(escrow'[i])
    <3>1. \A i \in EscrowId \ {id} : escrow'[i] = escrow[i]
      BY <1>0, <2>3, OperateSettles
    <3>2. PanelRecord(escrow'[id])
      BY <2>3, OperatePanel
    <3> QED
      BY <1>0, <3>1, <3>2 DEF Exists
  <2> QED
    BY <2>1, <2>2, <2>3 DEF Next
<1>3. PanelInv' <=> /\ DisputeInv'
                    /\ arbitrators' = <<>> \/ arbitrators' \in ArbitratorLists
                    /\ \A id \in EscrowId : Exists(id)' => PanelRecord(escrow'[id])
  BY DEF PanelInv, Exists
<1> QED
  BY <1>0, <1>1, <1>2, <1>3

\* With one panel the majority that released an escrow outnumbers everybody else
\* who can have voted.
LEMMA PanelOutcome == OnePanel /\ PanelInv => PanelDecides
<1> SUFFICES ASSUME OnePanel, PanelInv, NEW id \in EscrowId,
                    WasDisputed(id), escrow[id].status = "Released"
             PROVE  Votes(id, "Release") > Votes(id, "Refund")
  BY DEF PanelDecides, OutcomeFollowsBallots, PanelInv, DisputeInv
<1> DEFINE votes == escrow[id].arbitration_votes
           a == BallotCount(votes, "Release")
           b == BallotCount(votes, "Refund")
<1>1. /\ PanelRecord(escrow[id]) /\ RecordInv(escrow[id]) /\ Exists(id)
      /\ votes \in Seq(ArbitrationVote)
  BY DisputeInvByRecord, ExistingRecord DEF PanelInv, WasDisputed, DisputeInv, TypeInv
<1>2. PICK panel \in ArbitratorLists : a >= Len(panel) \div 2 + 1
  BY <1>1 DEF PanelRecord, WasDisputed
<1>3. panel \in Seq(Addr)
  BY ArbitratorAssumption
<1>4. a + b <= Len(panel)
  <2>1. \A k \in DOMAIN votes : \E j \in DOMAIN panel : panel[j] = votes[k].arbitrator
    BY <1>1 DEF PanelRecord, OnePanel
  <2>2. \A j, k \in DOMAIN votes : votes[j].arbitrator = votes[k].arbitrator => j = k
    BY <1>1 DEF RecordInv
  <2> QED
    BY <1>1, <1>3, <2>1, <2>2, BallotsWithinPanel
<1>5. a \in Nat /\ b \in Nat /\ Len(panel) \in Nat
  <2> HIDE DEF votes
  <2>1. \A d : BallotCount(votes, d) \in Nat
    BY <1>1, BallotCounted
  <2> QED
    BY <1>3, <2>1
<1>6. Votes(id, "Release") = a /\ Votes(id, "Refund") = b
  BY DEF Votes, BallotCount
<1> HIDE DEF a, b
<1>7. a > b
  BY <1>2, <1>4, <1>5
<1> QED
  BY <1>6, <1>7

\* While the registered panel stays the same, a dispute that ends in a release had more
\* ballots for it than against, one per arbitrator.
THEOREM PanelRules == OnePanel => (Spec => []PanelDecides)
<1>1. Init => PanelInv
  BY InitDispute DEF PanelInv, Init, Exists, NoEscrow
<1> SUFFICES ASSUME OnePanel PROVE Spec => []PanelDecides
  OBVIOUS
<1>2. PanelInv => PanelDecides
  BY PanelOutcome
<1> QED
  BY <1>1, StepPanel, <1>2, PTL DEF Spec
=============================================================================
