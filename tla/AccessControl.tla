---------------------------- MODULE AccessControl ----------------------------
(***************************************************************************)
(* The access_control Soroban contract: roles, multi-signature proposals,  *)
(* pausing, and the two-step transfer of the admin seat                    *)
(* (contracts/access_control/src/access_control.rs).  A call is one atomic *)
(* step and a failing call is a disabled action.  The caller of each       *)
(* operation is its first argument: require_auth makes him that user.      *)
(***************************************************************************)
EXTENDS Integers, Sequences, FiniteSets

CONSTANTS
    Users,
    NoUser,         \* no admin yet, no nominee
    Actions,        \* the actions users propose in this instance
    Configs,        \* the multi-signature configurations in use
    Assigned,       \* the roles the admin assigns
    Lock,           \* ADMIN_TRANSFER_LOCK
    MaxInits,       \* bound: calls of initialize
    MaxProposals,   \* bound: proposals ever made
    MaxTime         \* bound: ledger time

\* UserRole, ordered as the enum is.
Guest == 0
Member == 1
Staff == 2
Admin == 3
Role == Guest..Admin
NoRole == -1        \* no entry

ProposalAction ==
    [kind : {"SetRole"}, user : Users, role : Role]
    \cup [kind : {"RemoveRole", "SetAdmin"}, user : Users]
    \cup [kind : {"ScheduleUpgrade"}]

MultiSigConfig == [threshold : Nat, critical_threshold : Nat, time_lock_duration : Nat]
DefaultConfig == [threshold |-> 1, critical_threshold |-> 2, time_lock_duration |-> 0]

ASSUME NamesAssumption == NoUser \notin Users
ASSUME DataAssumption == /\ Actions \subseteq ProposalAction
                         /\ Configs \subseteq MultiSigConfig
                         /\ Assigned \subseteq Role
ASSUME NumbersAssumption == {Lock, MaxInits, MaxProposals, MaxTime} \subseteq Nat

VARIABLES
    admin,
    multisig, paused,       \* the two fields of Config
    role,
    proposalCount, proposal,
    pendingAdmin,           \* [address, proposed_at]
    storageVersion,
    now,                    \* external: env.ledger().timestamp()
    inits,                  \* bound: calls of initialize so far
    executions,             \* history: how often a proposal was executed
    approvedAt              \* history: when each approval of a proposal came

seat == <<admin, pendingAdmin>>
config == <<multisig, paused>>
proposals == <<proposalCount, proposal, executions, approvedAt>>
vars == <<seat, config, role, proposals, storageVersion, now, inits>>

-----------------------------------------------------------------------------
ProposalId == 1..MaxProposals
NoProposal == [action |-> [kind |-> "None"]]
Open(id) == proposal[id] # NoProposal

PendingProposal == [action : Actions, approvals : Seq(Users), execution_time : Nat]
NoTransfer == [address |-> NoUser, proposed_at |-> 0]

TypeOK ==
    /\ admin \in Users \cup {NoUser}
    /\ multisig \in Configs \cup {DefaultConfig}
    /\ paused \in BOOLEAN
    /\ role \in [Users -> Role \cup {NoRole}]
    /\ proposalCount \in 0..MaxProposals
    /\ proposal \in [ProposalId -> PendingProposal \cup {NoProposal}]
    /\ pendingAdmin \in [address : Users, proposed_at : Nat] \cup {NoTransfer}
    /\ storageVersion \in {1, 2}
    /\ now \in Nat
    /\ inits \in 0..MaxInits
    /\ executions \in [ProposalId -> Nat]
    /\ approvedAt \in [ProposalId -> Seq(Nat)]

Init ==
    /\ admin = NoUser
    /\ multisig = DefaultConfig
    /\ paused = FALSE
    /\ role = [u \in Users |-> NoRole]
    /\ proposalCount = 0
    /\ proposal = [id \in ProposalId |-> NoProposal]
    /\ pendingAdmin = NoTransfer
    /\ storageVersion = 1
    /\ now = 0
    /\ inits = 0
    /\ executions = [id \in ProposalId |-> 0]
    /\ approvedAt = [id \in ProposalId |-> <<>>]

\* check_access: no entry counts as Guest.
HasAccess(u, required) == (IF role[u] = NoRole THEN Guest ELSE role[u]) >= required

-----------------------------------------------------------------------------
(* The admin's operations *)

Initialize(u, cfg) ==
    /\ inits < MaxInits
    /\ inits' = inits + 1
    /\ admin' = u
    /\ multisig' = cfg
    /\ paused' = FALSE
    /\ role' = [role EXCEPT ![u] = Admin]
    /\ UNCHANGED <<pendingAdmin, proposals, storageVersion, now>>

SetRole(caller, u, r) ==
    /\ ~paused
    /\ caller = admin
    /\ role' = [role EXCEPT ![u] = r]
    /\ UNCHANGED <<seat, config, proposals, storageVersion, now, inits>>

RemoveRole(caller, u) ==
    /\ ~paused
    /\ caller = admin
    /\ role[u] # NoRole
    /\ role' = [role EXCEPT ![u] = NoRole]
    /\ UNCHANGED <<seat, config, proposals, storageVersion, now, inits>>

\* The new configuration brings its own paused flag and is not validated.
UpdateConfig(caller, cfg, p) ==
    /\ caller = admin
    /\ multisig' = cfg
    /\ paused' = p
    /\ UNCHANGED <<seat, role, proposals, storageVersion, now, inits>>

SetPaused(caller, p) ==
    /\ caller = admin
    /\ paused' = p
    /\ UNCHANGED <<seat, multisig, role, proposals, storageVersion, now, inits>>

MigrateRolesV2(caller) ==
    /\ caller = admin
    /\ storageVersion' = 2
    /\ UNCHANGED <<seat, config, role, proposals, now, inits>>

-----------------------------------------------------------------------------
(* Proposals *)

IsCritical(action) == action.kind \in {"SetAdmin", "ScheduleUpgrade"}

\* Mutant of Required: every action counts as a normal one.
RequiredNormal(action) == multisig.threshold

Required(action) == IF IsCritical(action) THEN multisig.critical_threshold
                                          ELSE multisig.threshold

\* The time lock runs from here, not from the last approval.
CreateProposal(proposer, action) ==
    /\ ~paused
    /\ HasAccess(proposer, Staff)
    /\ proposalCount < MaxProposals
    /\ proposalCount' = proposalCount + 1
    /\ proposal' = [proposal EXCEPT ![proposalCount + 1] =
                      [action |-> action, approvals |-> <<proposer>>,
                       execution_time |-> now + multisig.time_lock_duration]]
    /\ approvedAt' = [approvedAt EXCEPT ![proposalCount + 1] = <<now>>]
    /\ UNCHANGED <<seat, config, role, executions, storageVersion, now, inits>>

Approvers(id) == {proposal[id].approvals[k] : k \in DOMAIN proposal[id].approvals}

\* Mutant of ApproveProposal: an approver may approve again.
ApproveAgain(approver, id) ==
    /\ ~paused
    /\ HasAccess(approver, Staff)
    /\ Open(id)
    /\ proposal' = [proposal EXCEPT ![id].approvals = Append(@, approver)]
    /\ approvedAt' = [approvedAt EXCEPT ![id] = Append(@, now)]
    /\ UNCHANGED <<seat, config, role, proposalCount, executions, storageVersion, now, inits>>

ApproveProposal(approver, id) ==
    /\ ~paused
    /\ HasAccess(approver, Staff)
    /\ Open(id)
    /\ approver \notin Approvers(id)
    /\ proposal' = [proposal EXCEPT ![id].approvals = Append(@, approver)]
    /\ approvedAt' = [approvedAt EXCEPT ![id] = Append(@, now)]
    /\ UNCHANGED <<seat, config, role, proposalCount, executions, storageVersion, now, inits>>

\* A pending transfer survives a SetAdmin.  ScheduleUpgrade swaps the code of the
\* contract; the model goes on with the same code.
Apply(action) ==
    /\ role' = CASE action.kind = "SetRole"    -> [role EXCEPT ![action.user] = action.role]
                 [] action.kind = "RemoveRole" -> [role EXCEPT ![action.user] = NoRole]
                 [] action.kind = "SetAdmin"   -> [role EXCEPT ![action.user] = Admin]
                 [] OTHER                      -> role
    /\ admin' = IF action.kind = "SetAdmin" THEN action.user ELSE admin

\* Mutant of ExecuteProposal: a paused contract executes.
ExecuteWhilePaused(executor, id) ==
    /\ executor \in Users
    /\ Open(id)
    /\ Len(proposal[id].approvals) >= Required(proposal[id].action)
    /\ now >= proposal[id].execution_time
    /\ Apply(proposal[id].action)
    /\ proposal' = [proposal EXCEPT ![id] = NoProposal]
    /\ executions' = [executions EXCEPT ![id] = @ + 1]
    /\ UNCHANGED <<pendingAdmin, config, proposalCount, approvedAt,
                   storageVersion, now, inits>>

\* Mutant of ExecuteProposal: the proposal is left in storage.
ExecuteKept(executor, id) ==
    /\ ~paused
    /\ executor \in Users
    /\ Open(id)
    /\ Len(proposal[id].approvals) >= Required(proposal[id].action)
    /\ now >= proposal[id].execution_time
    /\ Apply(proposal[id].action)
    /\ executions' = [executions EXCEPT ![id] = @ + 1]
    /\ UNCHANGED <<pendingAdmin, config, proposalCount, proposal, approvedAt,
                   storageVersion, now, inits>>

\* Anybody may execute.  Thresholds are those of now, the time lock that of creation.
ExecuteProposal(executor, id) ==
    /\ ~paused
    /\ executor \in Users
    /\ Open(id)
    /\ Len(proposal[id].approvals) >= Required(proposal[id].action)
    /\ now >= proposal[id].execution_time
    /\ Apply(proposal[id].action)
    /\ proposal' = [proposal EXCEPT ![id] = NoProposal]
    /\ executions' = [executions EXCEPT ![id] = @ + 1]
    /\ UNCHANGED <<pendingAdmin, config, proposalCount, approvedAt,
                   storageVersion, now, inits>>

-----------------------------------------------------------------------------
(* The two-step transfer of the admin seat *)

\* A new nomination overwrites the pending one and restarts the lock.
ProposeAdminTransfer(caller, nominee) ==
    /\ ~paused
    /\ caller = admin
    /\ pendingAdmin' = [address |-> nominee, proposed_at |-> now]
    /\ UNCHANGED <<admin, config, role, proposals, storageVersion, now, inits>>

\* Mutant of AcceptAdminTransfer: the lock is not looked at.
AcceptEarly(nominee) ==
    /\ ~paused
    /\ pendingAdmin # NoTransfer
    /\ nominee = pendingAdmin.address
    /\ admin' = nominee
    /\ role' = [role EXCEPT ![nominee] = Admin]
    /\ pendingAdmin' = NoTransfer
    /\ UNCHANGED <<config, proposals, storageVersion, now, inits>>

\* The role entry of the former admin is left as it is.
AcceptAdminTransfer(nominee) ==
    /\ ~paused
    /\ pendingAdmin # NoTransfer
    /\ nominee = pendingAdmin.address
    /\ now >= pendingAdmin.proposed_at + Lock
    /\ admin' = nominee
    /\ role' = [role EXCEPT ![nominee] = Admin]
    /\ pendingAdmin' = NoTransfer
    /\ UNCHANGED <<config, proposals, storageVersion, now, inits>>

\* Mutant of CancelAdminTransfer: the entry stays, without a nominee.
CancelNominee(caller) ==
    /\ caller = admin
    /\ pendingAdmin # NoTransfer
    /\ pendingAdmin' = [pendingAdmin EXCEPT !.address = NoUser]
    /\ UNCHANGED <<admin, config, role, proposals, storageVersion, now, inits>>

CancelAdminTransfer(caller) ==
    /\ caller = admin
    /\ pendingAdmin # NoTransfer
    /\ pendingAdmin' = NoTransfer
    /\ UNCHANGED <<admin, config, role, proposals, storageVersion, now, inits>>

-----------------------------------------------------------------------------
Tick == /\ now < MaxTime
        /\ now' = now + 1
        /\ UNCHANGED <<seat, config, role, proposals, storageVersion, inits>>

Administer ==
    \/ \E u \in Users, c \in Configs : Initialize(u, c)
    \/ \E a, u \in Users, r \in Assigned : SetRole(a, u, r)
    \/ \E a, u \in Users : RemoveRole(a, u)
    \/ \E a \in Users, c \in Configs, p \in BOOLEAN : UpdateConfig(a, c, p)
    \/ \E a \in Users, p \in BOOLEAN : SetPaused(a, p)
    \/ \E a \in Users : MigrateRolesV2(a)

Govern ==
    \/ \E u \in Users, action \in Actions : CreateProposal(u, action)
    \/ \E u \in Users, id \in ProposalId : ApproveProposal(u, id)
    \/ \E u \in Users, id \in ProposalId : ExecuteProposal(u, id)

Transfer ==
    \/ \E a, u \in Users : ProposeAdminTransfer(a, u)
    \/ \E u \in Users : AcceptAdminTransfer(u)
    \/ \E a \in Users : CancelAdminTransfer(a)

Next == Administer \/ Govern \/ Transfer \/ Tick

Spec == Init /\ [][Next]_vars

-----------------------------------------------------------------------------
(* Properties *)

Executed(id) == executions'[id] = executions[id] + 1

\* A proposal takes effect at most once, and its id is never used for another one:
\* an id is open, executed once, or not handed out yet.
ExecutedOnce ==
    \A id \in ProposalId :
        executions[id] + (IF Open(id) THEN 1 ELSE 0) = (IF id <= proposalCount THEN 1 ELSE 0)

\* execute_proposal counts entries of a list: at execution there are as many
\* different approvers as the threshold of that moment asks for.
ExecutedOnlyApproved ==
    [][\A id \in ProposalId :
          Executed(id) => Cardinality(Approvers(id)) >= Required(proposal[id].action)]_vars

\* "critical_threshold must be >= 2 for security" (README.md:29): no single person
\* changes the admin or the code.
CriticalNeedsTwo ==
    [][\A id \in ProposalId : Executed(id) /\ IsCritical(proposal[id].action)
          => Cardinality(Approvers(id)) >= 2]_vars

\* A paused contract changes no role, no proposal and no admin: only the admin's
\* own configuration and cancellation go through until it is unpaused.
PausedFreezes ==
    [][paused /\ paused' => UNCHANGED <<role, proposals, admin>>
                            /\ pendingAdmin' \in {pendingAdmin, NoTransfer}]_vars

\* initialize may be called at any time and by anybody.  Apart from that the seat
\* changes hands in two ways: the nominee of a transfer that has been pending for the
\* whole lock takes it, or a SetAdmin proposal that as many different people approved
\* as a critical action needs is executed (accept_admin_transfer, execute_proposal).
AdminHandover ==
    [][admin' # admin =>
          \/ inits' = inits + 1
          \/ pendingAdmin.address = admin' /\ now >= pendingAdmin.proposed_at + Lock
          \/ \E id \in ProposalId :
                /\ Executed(id) /\ proposal[id].action = [kind |-> "SetAdmin", user |-> admin']
                /\ Cardinality(Approvers(id)) >= multisig.critical_threshold]_vars

\* The admin changes only by initialize and the two ways, a critical proposal needs two
\* people, a paused contract stands still (approve_proposal, execute_proposal,
\* accept_admin_transfer), and storage keeps its types.
SeatSafe == []TypeOK /\ AdminHandover /\ CriticalNeedsTwo /\ PausedFreezes

\* contracts/README.md:112 calls initialize a "One-time setup. Sets admin and multi-sig
\* thresholds.": once it has run, the seat changes only by a transfer that was pending
\* or by an executed proposal.
OneTimeSetup ==
    [][inits > 0 /\ admin' # admin =>
          pendingAdmin' # pendingAdmin \/ \E id \in ProposalId : Executed(id)]_vars

\* types.rs:19: the time lock is "seconds to wait after approval before execution":
\* it has passed since the approval that reached the threshold.
TimeLockAfterApproval ==
    [][\A id \in ProposalId : Executed(id) =>
          LET n == Required(proposal[id].action)
          IN  n \in DOMAIN approvedAt[id]
                  => now >= approvedAt[id][n] + multisig.time_lock_duration]_vars

=============================================================================
