------------------------ MODULE MCIntentPreparation ------------------------
(* Finite instances of IntentPreparation.                                   *)
EXTENDS IntentPreparation

CONSTANTS UserFunds

MCInitialUsdc == [u \in Users |-> UserFunds]
=============================================================================
