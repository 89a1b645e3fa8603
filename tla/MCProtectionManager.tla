------------------------ MODULE MCProtectionManager ------------------------
(* Finite instances of ProtectionManager.  A user starts with UserFunds.    *)
EXTENDS ProtectionManager

CONSTANTS UserFunds

MCInitialUsdc == [u \in Users |-> UserFunds]
=============================================================================
