------------------------ MODULE AccessControlProofs ------------------------
(***************************************************************************)
(* Theorems about AccessControl for every set of users, every choice of    *)
(* actions and configurations and every bound.                             *)
(***************************************************************************)
EXTENDS AccessControl, FiniteSetTheorems, TLAPS

\* approve_proposal refuses a second approval, so a list of approvals names nobody
\* twice.
Distinct(list) == \A i, j \in DOMAIN list : list[i] = list[j] => i = j

ApprovalsDistinct == \A id \in ProposalId : Open(id) => Distinct(proposal[id].approvals)

\* Before initialize there is no admin, and nobody may do anything.
Seated == inits = 0 => /\ admin = NoUser /\ pendingAdmin = NoTransfer
                       /\ proposalCount = 0 /\ role = [u \in Users |-> NoRole]

\* The inductive invariant.
AccessInv == TypeOK /\ ExecutedOnce /\ ApprovalsDistinct /\ Seated

-----------------------------------------------------------------------------
(* Lists of approvals *)

\* A list that names nobody twice has as many entries as people.
LEMMA DistinctCount ==
    ASSUME NEW S, NEW list \in Seq(S), Distinct(list)
    PROVE  Cardinality({list[k] : k \in DOMAIN list}) = Len(list)
<1> DEFINE R == {list[k] : k \in DOMAIN list}
           f == [k \in 1..Len(list) |-> list[k]]
<1>1. Len(list) \in Nat /\ DOMAIN list = 1..Len(list)
  OBVIOUS
<1>2. f \in Bijection(1..Len(list), R)
  BY <1>1 DEF Bijection, Injection, IsInjective, Surjection, Distinct
<1>3. IsFiniteSet(1..Len(list)) /\ Cardinality(1..Len(list)) = Len(list)
  BY <1>1, FS_Interval
<1>4. Cardinality(R) = Cardinality(1..Len(list))
  <2>1. ExistsBijection(1..Len(list), R)
    BY <1>2 DEF ExistsBijection
  <2> QED
    BY <2>1, <1>3, FS_Bijection
<1> QED
  BY <1>3, <1>4

\* Approving adds a new name at the end.
LEMMA ApprovalAdded ==
    ASSUME NEW S, NEW list \in Seq(S), Distinct(list), NEW u \in S,
           u \notin {list[k] : k \in DOMAIN list}
    PROVE  Append(list, u) \in Seq(S) /\ Distinct(Append(list, u))
BY DEF Distinct

\* A stored proposal is a full record.
LEMMA OpenProposal ==
    ASSUME TypeOK, NEW id \in ProposalId, Open(id)
    PROVE  /\ proposal[id] \in PendingProposal
           /\ proposal[id].action \in Actions
           /\ proposal[id].approvals \in Seq(Users)
           /\ proposal[id].execution_time \in Nat
<1>1. proposal[id] \in PendingProposal
  BY DEF TypeOK, Open
<1> QED
  BY <1>1 DEF PendingProposal

\* An open proposal has an id that was handed out, and was never executed.
LEMMA OpenIsNew ==
    ASSUME TypeOK, ExecutedOnce, NEW id \in ProposalId, Open(id)
    PROVE  id <= proposalCount /\ executions[id] = 0
BY NumbersAssumption DEF TypeOK, ExecutedOnce, ProposalId

\* An id above the counter was never used.
LEMMA NextIsUnused ==
    ASSUME TypeOK, ExecutedOnce, proposalCount < MaxProposals
    PROVE  /\ proposalCount + 1 \in ProposalId
           /\ ~Open(proposalCount + 1) /\ executions[proposalCount + 1] = 0
<1>1. proposalCount + 1 \in ProposalId
  BY NumbersAssumption DEF TypeOK, ProposalId
<1>2. executions[proposalCount + 1] \in Nat /\ ~(proposalCount + 1 <= proposalCount)
  BY <1>1 DEF TypeOK
<1> QED
  BY <1>1, <1>2 DEF ExecutedOnce

\* A tag distinguishes a stored proposal from none.
LEMMA ActionIsReal ==
    ASSUME NEW p \in PendingProposal PROVE p # NoProposal
<1>1. p.action \in ProposalAction
  BY DataAssumption DEF PendingProposal
<1>2. p.action.kind # "None"
  BY <1>1 DEF ProposalAction
<1> QED
  BY <1>2 DEF NoProposal

\* The actions an instance proposes only name its users.
LEMMA ApplyTypes ==
    ASSUME TypeOK, NEW action \in Actions, Apply(action)
    PROVE  role' \in [Users -> Role \cup {NoRole}] /\ admin' \in Users \cup {NoUser}
<1>1. action \in ProposalAction
  BY DataAssumption
<1>2. Admin \in Role
  BY DEF Admin, Role, Guest
<1>3. CASE action.kind = "SetRole"
  <2>1. action.user \in Users /\ action.role \in Role
    BY <1>1, <1>3 DEF ProposalAction
  <2> QED
    BY <2>1, <1>3 DEF Apply, TypeOK
<1>4. CASE action.kind = "RemoveRole"
  BY <1>4 DEF Apply, TypeOK
<1>5. CASE action.kind = "SetAdmin"
  <2>1. action.user \in Users
    BY <1>1, <1>5 DEF ProposalAction
  <2> QED
    BY <2>1, <1>2, <1>5 DEF Apply, TypeOK
<1>6. CASE action.kind = "ScheduleUpgrade"
  BY <1>6 DEF Apply, TypeOK
<1> QED
  BY <1>1, <1>3, <1>4, <1>5, <1>6 DEF ProposalAction

-----------------------------------------------------------------------------
(* The inductive invariant *)

\* Nothing is set up before initialize.
LEMMA InitAccess == Init => AccessInv
<1> SUFFICES ASSUME Init PROVE AccessInv
  OBVIOUS
<1>1. TypeOK
  <2>1. /\ [u \in Users |-> NoRole] \in [Users -> Role \cup {NoRole}]
        /\ [id \in ProposalId |-> NoProposal] \in [ProposalId -> PendingProposal \cup {NoProposal}]
        /\ [id \in ProposalId |-> 0] \in [ProposalId -> Nat]
        /\ [id \in ProposalId |-> <<>>] \in [ProposalId -> Seq(Nat)]
    OBVIOUS
  <2>2. 0 \in 0..MaxProposals /\ 0 \in 0..MaxInits
    BY NumbersAssumption
  <2> HIDE DEF NoProposal
  <2> QED
    BY <2>1, <2>2 DEF Init, TypeOK
<1>2. ExecutedOnce
  BY NumbersAssumption DEF Init, ExecutedOnce, Open, ProposalId
<1>3. ApprovalsDistinct /\ Seated
  BY DEF Init, ApprovalsDistinct, Open, Seated
<1> QED
  BY <1>1, <1>2, <1>3 DEF AccessInv

\* The operations that leave the proposals alone.
LEMMA AdministerAccess == AccessInv /\ (Administer \/ Transfer \/ Tick) => AccessInv'
<1> SUFFICES ASSUME AccessInv, Administer \/ Transfer \/ Tick PROVE AccessInv'
  OBVIOUS
<1> USE NumbersAssumption, NamesAssumption, DataAssumption
<1>1. UNCHANGED proposals => (ExecutedOnce /\ ApprovalsDistinct)' /\ proposalCount' = proposalCount
  BY DEF AccessInv, proposals, ExecutedOnce, ApprovalsDistinct, Open
<1>2. Admin \in Role
  BY DEF Admin, Role, Guest
<1>3. ASSUME NEW u \in Users, NEW c \in Configs, Initialize(u, c) PROVE AccessInv'
  <2>1. role' \in [Users -> Role \cup {NoRole}] /\ inits' \in 0..MaxInits /\ inits' # 0
    BY <1>2, <1>3 DEF Initialize, AccessInv, TypeOK
  <2> QED
    BY <1>1, <1>3, <2>1 DEF AccessInv, TypeOK, Seated, Initialize, proposals
<1>4. ASSUME NEW a \in Users, NEW u \in Users, NEW r \in Assigned, SetRole(a, u, r)
      PROVE AccessInv'
  <2>1. role' \in [Users -> Role \cup {NoRole}]
    BY <1>4 DEF SetRole, AccessInv, TypeOK
  <2> QED
    BY <1>1, <1>4, <2>1 DEF AccessInv, TypeOK, Seated, SetRole, seat, config, proposals
<1>5. ASSUME NEW a \in Users, NEW u \in Users, RemoveRole(a, u) PROVE AccessInv'
  <2>1. role' \in [Users -> Role \cup {NoRole}]
    BY <1>5 DEF RemoveRole, AccessInv, TypeOK
  <2> QED
    BY <1>1, <1>5, <2>1 DEF AccessInv, TypeOK, Seated, RemoveRole, seat, config, proposals
<1>6. ASSUME NEW a \in Users, NEW c \in Configs, NEW p \in BOOLEAN, UpdateConfig(a, c, p)
      PROVE AccessInv'
  BY <1>1, <1>6 DEF AccessInv, TypeOK, Seated, UpdateConfig, seat, proposals
<1>7. ASSUME NEW a \in Users, NEW p \in BOOLEAN, SetPaused(a, p) PROVE AccessInv'
  BY <1>1, <1>7 DEF AccessInv, TypeOK, Seated, SetPaused, seat, proposals
<1>8. ASSUME NEW a \in Users, MigrateRolesV2(a) PROVE AccessInv'
  BY <1>1, <1>8 DEF AccessInv, TypeOK, Seated, MigrateRolesV2, seat, config, proposals
<1>9. ASSUME NEW a \in Users, NEW u \in Users, ProposeAdminTransfer(a, u) PROVE AccessInv'
  <2>1. pendingAdmin' \in [address : Users, proposed_at : Nat]
    BY <1>9 DEF ProposeAdminTransfer, AccessInv, TypeOK
  <2> QED
    BY <1>1, <1>9, <2>1 DEF AccessInv, TypeOK, Seated, ProposeAdminTransfer, config, proposals
<1>10. ASSUME NEW u \in Users, AcceptAdminTransfer(u) PROVE AccessInv'
  <2>1. role' \in [Users -> Role \cup {NoRole}]
    BY <1>2, <1>10 DEF AcceptAdminTransfer, AccessInv, TypeOK
  <2>2. admin' \in Users /\ inits' = inits /\ inits # 0
    BY <1>10 DEF AcceptAdminTransfer, AccessInv, Seated
  <2>3. Seated'
    BY <2>2 DEF Seated
  <2> QED
    BY <1>1, <1>10, <2>1, <2>2, <2>3 DEF AccessInv, TypeOK, AcceptAdminTransfer, config, proposals
<1>11. ASSUME NEW a \in Users, CancelAdminTransfer(a) PROVE AccessInv'
  BY <1>1, <1>11 DEF AccessInv, TypeOK, Seated, CancelAdminTransfer, config, proposals
<1>12. CASE Tick
  BY <1>1, <1>12 DEF AccessInv, TypeOK, Seated, Tick, seat, config, proposals
<1> QED
  BY <1>3, <1>4, <1>5, <1>6, <1>7, <1>8, <1>9, <1>10, <1>11, <1>12 DEF Administer, Transfer

\* The operations on proposals: an id is handed out once, gains names it does not
\* hold and is closed for good.
LEMMA GovernAccess == AccessInv /\ Govern => AccessInv'
<1> SUFFICES ASSUME AccessInv, Govern PROVE AccessInv'
  OBVIOUS
<1> USE NumbersAssumption, NamesAssumption, DataAssumption
<1>0. TypeOK /\ ExecutedOnce /\ ApprovalsDistinct /\ Seated
  BY DEF AccessInv
<1>1. ASSUME NEW u \in Users, NEW action \in Actions, CreateProposal(u, action)
      PROVE AccessInv'
  <2> DEFINE n == proposalCount + 1
             p == [action |-> action, approvals |-> <<u>>,
                   execution_time |-> now + multisig.time_lock_duration]
  <2>1. n \in ProposalId /\ ~Open(n) /\ executions[n] = 0
    BY <1>0, <1>1, NextIsUnused DEF CreateProposal
  <2>2. multisig.time_lock_duration \in Nat
    BY <1>0 DEF TypeOK, MultiSigConfig, DefaultConfig
  <2>3. p \in PendingProposal
    BY <1>0, <2>2 DEF TypeOK, PendingProposal
  <2>4. p # NoProposal
    BY <2>3, ActionIsReal
  <2>5. /\ proposal' = [proposal EXCEPT ![n] = p] /\ proposalCount' = n
        /\ executions' = executions /\ inits' = inits
    BY <1>1 DEF CreateProposal
  <2>6. Distinct(p.approvals)
    BY DEF Distinct
  <2> HIDE DEF p
  <2>7. TypeOK'
    <3>1. approvedAt' \in [ProposalId -> Seq(Nat)]
      <4>1. <<now>> \in Seq(Nat)
        BY <1>0 DEF TypeOK
      <4>2. approvedAt' = [approvedAt EXCEPT ![n] = <<now>>]
        BY <1>1 DEF CreateProposal
      <4>3. approvedAt \in [ProposalId -> Seq(Nat)]
        BY <1>0 DEF TypeOK
      <4> HIDE DEF n
      <4> QED
        BY <4>1, <4>2, <4>3
    <3>2. proposal' \in [ProposalId -> PendingProposal \cup {NoProposal}]
      BY <1>0, <2>3, <2>5 DEF TypeOK
    <3>3. proposalCount' \in 0..MaxProposals
      BY <1>0, <1>1 DEF TypeOK, CreateProposal
    <3> QED
      BY <1>0, <1>1, <3>1, <3>2, <3>3 DEF TypeOK, CreateProposal, seat, config
  <2>8. ExecutedOnce'
    <3> SUFFICES ASSUME NEW id \in ProposalId
                 PROVE executions[id] + (IF proposal'[id] # NoProposal THEN 1 ELSE 0)
                          = (IF id <= n THEN 1 ELSE 0)
      BY <2>5 DEF ExecutedOnce, Open
    <3>1. CASE id = n
      BY <1>0, <2>1, <2>4, <2>5, <3>1 DEF TypeOK
    <3>2. CASE id # n
      BY <1>0, <2>5, <3>2 DEF TypeOK, ExecutedOnce, Open, ProposalId
    <3> QED
      BY <3>1, <3>2
  <2>9. ApprovalsDistinct'
    BY <1>0, <2>5, <2>6 DEF ApprovalsDistinct, Open, TypeOK
  <2>10. inits # 0
    BY <1>0, <1>1 DEF Seated, CreateProposal, HasAccess, Guest, Staff
  <2> QED
    BY <2>5, <2>7, <2>8, <2>9, <2>10 DEF AccessInv, Seated
<1>2. ASSUME NEW u \in Users, NEW id \in ProposalId, ApproveProposal(u, id) PROVE AccessInv'
  <2> DEFINE old == proposal[id]
             p == [old EXCEPT !.approvals = Append(old.approvals, u)]
  <2>1. /\ old \in PendingProposal /\ old.approvals \in Seq(Users)
        /\ id <= proposalCount /\ executions[id] = 0
    BY <1>0, <1>2, OpenProposal, OpenIsNew DEF ApproveProposal
  <2>2. p.approvals \in Seq(Users) /\ Distinct(p.approvals)
    <3>1. Distinct(old.approvals) /\ u \notin {old.approvals[k] : k \in DOMAIN old.approvals}
      BY <1>0, <1>2 DEF ApprovalsDistinct, ApproveProposal, Approvers
    <3> QED
      BY <2>1, <3>1, ApprovalAdded DEF PendingProposal
  <2>3. p \in PendingProposal
    BY <2>1, <2>2 DEF PendingProposal
  <2>4. p # NoProposal
    BY <2>3, ActionIsReal
  <2>5. /\ proposal' = [proposal EXCEPT ![id] = p] /\ proposalCount' = proposalCount
        /\ executions' = executions
    BY <1>2 DEF ApproveProposal
  <2> HIDE DEF p
  <2>6. TypeOK'
    <3>1. approvedAt' \in [ProposalId -> Seq(Nat)]
      <4>1. Append(approvedAt[id], now) \in Seq(Nat)
        BY <1>0 DEF TypeOK
      <4> QED
        BY <1>0, <1>2, <4>1 DEF TypeOK, ApproveProposal
    <3>2. proposal' \in [ProposalId -> PendingProposal \cup {NoProposal}]
      BY <1>0, <2>3, <2>5 DEF TypeOK
    <3> QED
      BY <1>0, <1>2, <3>1, <3>2 DEF TypeOK, ApproveProposal, seat, config
  <2>7. ExecutedOnce'
    BY <1>0, <1>2, <2>4, <2>5 DEF TypeOK, ExecutedOnce, Open, ApproveProposal
  <2>8. ApprovalsDistinct'
    BY <1>0, <2>2, <2>5 DEF ApprovalsDistinct, Open, TypeOK
  <2>9. Seated'
    BY <1>0, <1>2, <2>5 DEF Seated, ApproveProposal, seat
  <2> QED
    BY <2>6, <2>7, <2>8, <2>9 DEF AccessInv
<1>3. ASSUME NEW u \in Users, NEW id \in ProposalId, ExecuteProposal(u, id) PROVE AccessInv'
  <2>1. /\ proposal[id].action \in Actions
        /\ id <= proposalCount /\ executions[id] = 0
    BY <1>0, <1>3, OpenProposal, OpenIsNew DEF ExecuteProposal
  <2>2. role' \in [Users -> Role \cup {NoRole}] /\ admin' \in Users \cup {NoUser}
    BY <1>0, <1>3, <2>1, ApplyTypes DEF ExecuteProposal
  <2>3. /\ proposal' = [proposal EXCEPT ![id] = NoProposal] /\ proposalCount' = proposalCount
        /\ executions' = [executions EXCEPT ![id] = executions[id] + 1] /\ inits' = inits
    BY <1>3 DEF ExecuteProposal
  <2> HIDE DEF NoProposal
  <2>4. TypeOK'
    <3>1. proposal' \in [ProposalId -> PendingProposal \cup {NoProposal}]
      BY <1>0, <2>3 DEF TypeOK
    <3>2. executions' \in [ProposalId -> Nat]
      BY <1>0, <2>3 DEF TypeOK
    <3> QED
      BY <1>0, <1>3, <2>2, <3>1, <3>2 DEF TypeOK, ExecuteProposal, config
  <2>5. ExecutedOnce'
    BY <1>0, <2>1, <2>3 DEF TypeOK, ExecutedOnce, Open
  <2>6. ApprovalsDistinct'
    BY <1>0, <2>3 DEF ApprovalsDistinct, Open, TypeOK
  <2>7. inits # 0
    BY <1>0, <2>1 DEF Seated, ProposalId
  <2> QED
    BY <2>3, <2>4, <2>5, <2>6, <2>7 DEF AccessInv, Seated
<1> QED
  BY <1>1, <1>2, <1>3 DEF Govern

\* Every step keeps the invariant.
LEMMA StepAccess == AccessInv /\ [Next]_vars => AccessInv'
<1> SUFFICES ASSUME AccessInv, [Next]_vars PROVE AccessInv'
  OBVIOUS
<1>1. CASE UNCHANGED vars
  BY <1>1 DEF vars, seat, config, proposals, AccessInv, TypeOK, ExecutedOnce,
              ApprovalsDistinct, Seated, Open
<1> QED
  BY <1>1, AdministerAccess, GovernAccess DEF Next

\* Storage keeps its types under every operation.
THEOREM TypeCorrect == Spec => []TypeOK
<1>1. AccessInv => TypeOK
  BY DEF AccessInv
<1> QED
  BY InitAccess, StepAccess, <1>1, PTL DEF Spec

\* A proposal is executed at most once and its id is never handed out again.
THEOREM OneExecution == Spec => []ExecutedOnce
<1>1. AccessInv => ExecutedOnce
  BY DEF AccessInv
<1> QED
  BY InitAccess, StepAccess, <1>1, PTL DEF Spec

-----------------------------------------------------------------------------
(* What a step may do *)

\* Only execute_proposal counts an execution.
LEMMA ExecutionStep ==
    ASSUME AccessInv, [Next]_vars, NEW id \in ProposalId, Executed(id)
    PROVE  \E u \in Users : ExecuteProposal(u, id)
<1>1. executions[id] \in Nat
  BY DEF AccessInv, TypeOK
<1>2. executions' # executions
  BY <1>1 DEF Executed
<1>3. ~(Administer \/ Transfer \/ Tick \/ UNCHANGED vars)
  BY <1>2 DEF Administer, Initialize, SetRole, RemoveRole, UpdateConfig, SetPaused,
              MigrateRolesV2, Transfer, ProposeAdminTransfer, AcceptAdminTransfer,
              CancelAdminTransfer, Tick, proposals, vars
<1>4. PICK u \in Users, i \in ProposalId : ExecuteProposal(u, i)
  BY <1>2, <1>3 DEF Next, Govern, CreateProposal, ApproveProposal
<1>5. i = id
  BY <1>1, <1>4 DEF Executed, ExecuteProposal, AccessInv, TypeOK
<1> QED
  BY <1>4, <1>5

\* An executed proposal had as many different approvers as the list has entries.
LEMMA EnoughApprovers ==
    ASSUME AccessInv, [Next]_vars, NEW id \in ProposalId, Executed(id)
    PROVE  /\ Open(id) /\ proposal[id].action \in Actions
           /\ Cardinality(Approvers(id)) \in Nat
           /\ Cardinality(Approvers(id)) >= Required(proposal[id].action)
<1>1. PICK u \in Users : ExecuteProposal(u, id)
  BY ExecutionStep
<1>2. Open(id) /\ Len(proposal[id].approvals) >= Required(proposal[id].action)
  BY <1>1 DEF ExecuteProposal
<1>3. proposal[id].approvals \in Seq(Users) /\ proposal[id].action \in Actions
  BY <1>2, OpenProposal DEF AccessInv
<1>4. Distinct(proposal[id].approvals)
  BY <1>2 DEF AccessInv, ApprovalsDistinct
<1>5. Cardinality(Approvers(id)) = Len(proposal[id].approvals)
  BY <1>3, <1>4, DistinctCount DEF Approvers
<1> QED
  BY <1>2, <1>3, <1>5

\* execute_proposal never runs on fewer different approvers than the threshold.
THEOREM EnoughApprovals == Spec => ExecutedOnlyApproved
<1>1. AccessInv /\ [Next]_vars
        => [\A id \in ProposalId :
               Executed(id) => Cardinality(Approvers(id)) >= Required(proposal[id].action)]_vars
  BY EnoughApprovers
<1> QED
  BY InitAccess, StepAccess, <1>1, PTL DEF Spec, ExecutedOnlyApproved

\* Where every configuration asks for two approvals of a critical action, no single
\* person changes the admin or the code.
THEOREM TwoForCritical ==
    ASSUME \A c \in Configs : c.critical_threshold >= 2
    PROVE  Spec => CriticalNeedsTwo
<1>1. AccessInv /\ [Next]_vars
        => [\A id \in ProposalId : Executed(id) /\ IsCritical(proposal[id].action)
               => Cardinality(Approvers(id)) >= 2]_vars
  <2> SUFFICES ASSUME AccessInv, [Next]_vars, NEW id \in ProposalId, Executed(id),
                      IsCritical(proposal[id].action)
               PROVE Cardinality(Approvers(id)) >= 2
    OBVIOUS
  <2>1. /\ Cardinality(Approvers(id)) \in Nat
        /\ Cardinality(Approvers(id)) >= multisig.critical_threshold
    BY EnoughApprovers DEF Required
  <2>2. multisig.critical_threshold >= 2 /\ multisig.critical_threshold \in Nat
    BY DataAssumption DEF AccessInv, TypeOK, DefaultConfig, MultiSigConfig
  <2> QED
    BY <2>1, <2>2
<1> QED
  BY InitAccess, StepAccess, <1>1, PTL DEF Spec, CriticalNeedsTwo

\* While the contract is paused and stays so, roles, proposals and the admin seat
\* do not move.
THEOREM PauseFreezes == Spec => PausedFreezes
<1>1. [Next]_vars
        => [paused /\ paused' => UNCHANGED <<role, proposals, admin>>
                                 /\ pendingAdmin' \in {pendingAdmin, NoTransfer}]_vars
  <2> SUFFICES ASSUME Next, paused, paused'
               PROVE UNCHANGED <<role, proposals, admin>>
                        /\ pendingAdmin' \in {pendingAdmin, NoTransfer}
    OBVIOUS
  <2>1. ~Govern
    BY DEF Govern, CreateProposal, ApproveProposal, ExecuteProposal
  <2>2. CASE Administer
    BY <2>2 DEF Administer, Initialize, SetRole, RemoveRole, UpdateConfig, SetPaused,
                MigrateRolesV2, seat, proposals
  <2>3. CASE Transfer \/ Tick
    BY <2>3 DEF Transfer, ProposeAdminTransfer, AcceptAdminTransfer, CancelAdminTransfer,
                Tick, seat, proposals
  <2> QED
    BY <2>1, <2>2, <2>3 DEF Next
<1> QED
  BY <1>1, PTL DEF Spec, PausedFreezes

\* Apart from initialize, which anybody may call again, the seat only changes hands by
\* a transfer that waited for the lock or by a SetAdmin proposal with enough approvers.
THEOREM SeatChangesHands == Spec => AdminHandover
<1>1. AccessInv /\ [Next]_vars
        => [admin' # admin =>
              \/ inits' = inits + 1
              \/ pendingAdmin.address = admin' /\ now >= pendingAdmin.proposed_at + Lock
              \/ \E id \in ProposalId :
                    /\ Executed(id) /\ proposal[id].action = [kind |-> "SetAdmin", user |-> admin']
                    /\ Cardinality(Approvers(id)) >= multisig.critical_threshold]_vars
  <2> SUFFICES ASSUME AccessInv, Next, admin' # admin, inits' # inits + 1
               PROVE \/ pendingAdmin.address = admin' /\ now >= pendingAdmin.proposed_at + Lock
                     \/ \E id \in ProposalId :
                           /\ Executed(id)
                           /\ proposal[id].action = [kind |-> "SetAdmin", user |-> admin']
                           /\ Cardinality(Approvers(id)) >= multisig.critical_threshold
    OBVIOUS
  <2>1. ~Administer /\ ~Tick
    BY DEF Administer, Initialize, SetRole, RemoveRole, UpdateConfig, SetPaused,
           MigrateRolesV2, Tick, seat
  <2>2. CASE Govern
    <3>1. PICK u \in Users, id \in ProposalId : ExecuteProposal(u, id)
      BY <2>2 DEF Govern, CreateProposal, ApproveProposal, seat
    <3>2. Executed(id)
      BY <3>1 DEF ExecuteProposal, Executed, AccessInv, TypeOK
    <3>3. proposal[id].action.kind = "SetAdmin" /\ proposal[id].action.user = admin'
      BY <3>1 DEF ExecuteProposal, Apply
    <3>4. /\ proposal[id].action \in ProposalAction
          /\ Cardinality(Approvers(id)) >= Required(proposal[id].action)
      BY <3>2, EnoughApprovers, DataAssumption
    <3>5. proposal[id].action = [kind |-> "SetAdmin", user |-> admin']
      BY <3>3, <3>4 DEF ProposalAction
    <3>6. Required(proposal[id].action) = multisig.critical_threshold
      BY <3>3 DEF Required, IsCritical
    <3> QED
      BY <3>2, <3>4, <3>5, <3>6
  <2>3. CASE Transfer
    BY <2>3 DEF Transfer, ProposeAdminTransfer, AcceptAdminTransfer, CancelAdminTransfer
  <2> QED
    BY <2>1, <2>2, <2>3 DEF Next
<1> QED
  BY InitAccess, StepAccess, <1>1, PTL DEF Spec, AdminHandover

\* Where every configuration asks for two approvals of a critical action, the seat is
\* safe, however often initialize is called.
THEOREM SeatIsSafe ==
    ASSUME \A c \in Configs : c.critical_threshold >= 2
    PROVE  Spec => SeatSafe
<1>1. Spec => AdminHandover
  BY SeatChangesHands
<1>2. Spec => CriticalNeedsTwo
  BY TwoForCritical
<1> QED
  BY <1>1, <1>2, TypeCorrect, PauseFreezes DEF SeatSafe
=============================================================================
