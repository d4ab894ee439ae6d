-------------------------- MODULE MCPaymentEscrow --------------------------
(* Small instances of PaymentEscrow for TLC. *)
EXTENDS PaymentEscrow

CONSTANTS adm, dep, ben, arb1, arb2, arb3

\* Arbitration plays a small part: one list of one.
OneArbitrator == {<<arb1>>}
FixedLists == {<<arb1, arb2, arb3>>}
\* The list may shrink while ballots are in, and grow again.
ChangingLists == {<<arb1, arb2, arb3>>, <<arb3>>}

\* A disputed escrow is only released by a majority, and every escrow is paid out in the end
\* (expire_dispute, try_auto_release) unless the contract stays paused.
DisputesEnd == DisputeShields /\ EveryEscrowResolves
=============================================================================
