-------------------------- MODULE PolicyLifecycle --------------------------
(***************************************************************************)
(* What ProtectionManager promises about one policy, without saying how    *)
(* assets and shares move.  A policy is opened once, keeps the terms it    *)
(* was opened with, and leaves the active state exactly once, by the exit  *)
(* the clock and the vault's value allow.                                  *)
(*                                                                         *)
(* A policy is a record with the fields of the contract's Policy struct.   *)
(* The initial record has no owner (the struct's zero value), which is how *)
(* the contract tells that the policy does not exist.                      *)
(***************************************************************************)
EXTENDS Integers

CONSTANTS PolicyIds,   \* the identifiers a policy may have, 1, 2, ...
          NoPolicy     \* the zero value of the Policy struct

VARIABLES policies,    \* policy identifier -> Policy record
          now          \* block.timestamp

vars == <<policies, now>>

Exists(id) == policies[id] # NoPolicy
IsActive(id) == Exists(id) /\ policies[id].status = "Active"

Init == /\ policies = [id \in PolicyIds |-> NoPolicy]
        /\ now \in Nat

\* The next identifier receives a policy whose window starts now, whose
\* trigger is a real loss on the principal and whose beneficiary is not the
\* vault that has to pay it.
Open(id) ==
    /\ ~ Exists(id)
    /\ \A i \in PolicyIds : i < id => Exists(i)
    /\ \E p \in {policies'[id]} :
          /\ p.status = "Active"
          /\ p.assetsReturned = 0
          /\ p.openedAt = now
          /\ now < p.expiresAt
          /\ 0 < p.triggerAssets
          /\ p.triggerAssets < p.principalAssets
          /\ 0 < p.shares
          /\ p.beneficiary # p.vault
          /\ policies' = [policies EXCEPT ![id] = p]
    /\ UNCHANGED now

\* Only the status and the proceeds of a policy change when it is settled.
Settle(id, outcome) ==
    /\ IsActive(id)
    /\ \E assets \in {policies'[id].assetsReturned} :
          /\ 0 <= assets
          /\ outcome = "Executed" => assets <= policies[id].triggerAssets
          /\ policies' = [policies EXCEPT ![id].status = outcome,
                                          ![id].assetsReturned = assets]
    /\ IF outcome = "Expired" THEN policies[id].expiresAt <= now
                              ELSE now < policies[id].expiresAt
    /\ UNCHANGED now

Advance == now < now' /\ UNCHANGED policies

Next == \/ \E id \in PolicyIds : Open(id)
        \/ \E id \in PolicyIds, outcome \in {"Executed", "Cancelled", "Expired"} :
              Settle(id, outcome)
        \/ Advance

Spec == Init /\ [][Next]_vars
=============================================================================
