-------------------------- MODULE MCGuardedManager --------------------------
(* Finite instances of GuardedManager.  A user starts with UserFunds.       *)
EXTENDS GuardedManager

CONSTANTS UserFunds

MCInitialUsdc == [u \in Users |-> UserFunds]
=============================================================================
