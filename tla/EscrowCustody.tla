--------------------------- MODULE EscrowCustody ---------------------------
(***************************************************************************)
(* What an escrow promises its two parties, with no mention of how the     *)
(* contract decides.  Money that is taken in is held for the parties it    *)
(* was taken for, leaves once and only once, and reaches the beneficiary   *)
(* before the agreed release time only if a dispute was opened and         *)
(* arbitrated in his favour.  PaymentEscrow implements this specification. *)
(***************************************************************************)
EXTENDS Naturals

CONSTANTS
    Id,         \* escrow identifiers
    Party,      \* parties that pay and are paid
    Absent      \* the terms of an escrow that does not exist yet

VARIABLES
    phase,      \* phase[i] : "none", "held", "contested", "paid", "returned"
    terms,      \* terms[i] : [from, to, amount, due] agreed when money came in
    clock

vars == <<phase, terms, clock>>

Terms == [from : Party, to : Party, amount : Nat \ {0}, due : Nat]

Init == /\ phase = [i \in Id |-> "none"]
        /\ terms = [i \in Id |-> Absent]
        /\ clock \in Nat

\* Money comes in and the terms are fixed.
Deposit(i) ==
    /\ phase[i] = "none"
    /\ phase' = [phase EXCEPT ![i] = "held"]
    /\ terms'[i] \in Terms
    /\ terms' = [terms EXCEPT ![i] = terms'[i]]
    /\ UNCHANGED clock

\* The depositor contests the payment.
Contest(i) ==
    /\ phase[i] = "held"
    /\ phase' = [phase EXCEPT ![i] = "contested"]
    /\ UNCHANGED <<terms, clock>>

\* The beneficiary is paid: when due, or by the arbitrators.
Pay(i) ==
    /\ \/ phase[i] = "held" /\ clock >= terms[i].due
       \/ phase[i] = "contested"
    /\ phase' = [phase EXCEPT ![i] = "paid"]
    /\ UNCHANGED <<terms, clock>>

\* The depositor gets his money back.
Return(i) ==
    /\ phase[i] \in {"held", "contested"}
    /\ phase' = [phase EXCEPT ![i] = "returned"]
    /\ UNCHANGED <<terms, clock>>

Pass == /\ clock' = clock + 1
        /\ UNCHANGED <<phase, terms>>

Next == \/ \E i \in Id : Deposit(i) \/ Contest(i) \/ Pay(i) \/ Return(i)
        \/ Pass

Spec == Init /\ [][Next]_vars
=============================================================================
