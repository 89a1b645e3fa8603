------------------------- MODULE MCLifecycleRunner -------------------------
(* Finite instances of LifecycleRunner.                                     *)
EXTENDS LifecycleRunner

CONSTANTS WalletFunds, StrangerFunds

MCInitialUsdc == [u \in Users |-> IF u = Wallet THEN WalletFunds
                                  ELSE IF u = Stranger THEN StrangerFunds ELSE 0]
=============================================================================
