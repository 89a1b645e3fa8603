------------------------- MODULE ProtectionManager -------------------------
(***************************************************************************)
(* ProtectionManager.sol over a USDC ledger and a set of ERC-4626 vaults.  *)
(*                                                                         *)
(* Every external call of the contract is one action: nonReentrant and the *)
(* EVM make it atomic, and a revert (which restores the whole state) is a  *)
(* disabled action.  The admin actions are the owner's.  Events, the       *)
(* allowance that is granted and reset inside openPolicy, and the          *)
(* lossLimitBps copy kept for display are left out.                        *)
(***************************************************************************)
EXTENDS DemoRiskVault

CONSTANTS ZeroAddress,
          ProtectionFee, MaxPrincipal, MinDuration, MaxDuration,
          MinLossLimit, MaxLossLimit,   \* the constructor's immutables
          FirstTreasury,                \* the constructor's treasury
          MaxPolicies,                  \* bound: policies ever opened
          Horizon,                      \* bound: last timestamp
          Principals, LossLimits, Durations, Minimums,
          Beneficiaries, Treasuries     \* bounds: the inputs enumerated

BpsDenominator == 10000
PolicyIds == 1..MaxPolicies

ASSUME ManagerAssumption ==
    /\ ZeroAddress \notin Accounts
    /\ ProtectionFee \in Nat
    /\ MaxPrincipal \in Nat \ {0}
    /\ MinDuration \in Nat \ {0} /\ MaxDuration \in Nat /\ MinDuration <= MaxDuration
    /\ MinLossLimit \in Nat \ {0} /\ MaxLossLimit \in Nat
    /\ MinLossLimit <= MaxLossLimit /\ MaxLossLimit < BpsDenominator
    /\ FirstTreasury \in Accounts \ {Manager}
    /\ MaxPolicies \in Nat /\ Horizon \in Nat
    /\ Principals \cup LossLimits \cup Durations \cup Minimums \subseteq Nat
    /\ Beneficiaries \cup Treasuries \subseteq Accounts

VARIABLES policies,              \* _policies: identifier -> Policy struct
          nextPolicyId,
          activeSharesByVault,
          isVaultAllowed,
          treasury,
          paused,                \* Pausable's flag: openings only
          now                    \* block.timestamp

managerVars == <<policies, nextPolicyId, activeSharesByVault>>
adminVars == <<isVaultAllowed, treasury, paused>>
vars == <<vaultVars, managerVars, adminVars, now>>

Statuses == {"Active", "Executed", "Cancelled", "Expired"}

Policy == [owner : Users \cup {ZeroAddress}, beneficiary : Accounts \cup {ZeroAddress},
           vault : Vaults \cup {ZeroAddress}, principalAssets : Nat, shares : Nat,
           triggerAssets : Nat, assetsReturned : Nat, openedAt : Nat, expiresAt : Nat,
           status : Statuses]

\* The zero value of the struct.  Its status reads Active: only the owner
\* tells that no such policy was opened.
NoPolicy == [owner |-> ZeroAddress, beneficiary |-> ZeroAddress, vault |-> ZeroAddress,
             principalAssets |-> 0, shares |-> 0, triggerAssets |-> 0,
             assetsReturned |-> 0, openedAt |-> 0, expiresAt |-> 0, status |-> "Active"]

Exists(id) == policies[id].owner # ZeroAddress
IsActive(id) == Exists(id) /\ policies[id].status = "Active"

PolicyValue(id) == PreviewRedeem(policies[id].vault, policies[id].shares)

Init == /\ VaultInit
        /\ policies = [id \in PolicyIds |-> NoPolicy]
        /\ nextPolicyId = 1
        /\ activeSharesByVault = [v \in Vaults |-> 0]
        /\ isVaultAllowed = [v \in Vaults |-> FALSE]
        /\ treasury = FirstTreasury
        /\ paused = FALSE
        /\ now = 0

\* Mutant: the beneficiary is not checked.
AnyBeneficiary(vault, beneficiary, principal, lossLimit, duration, minimumShares) ==
    /\ isVaultAllowed[vault]
    /\ 0 < principal /\ principal <= MaxPrincipal
    /\ MinDuration <= duration /\ duration <= MaxDuration
    /\ MinLossLimit <= lossLimit /\ lossLimit <= MaxLossLimit
    /\ minimumShares # 0

\* _validatePolicyRequest.
ValidRequest(vault, beneficiary, principal, lossLimit, duration, minimumShares) ==
    /\ isVaultAllowed[vault]
    /\ beneficiary \notin {Manager, vault}
    /\ 0 < principal /\ principal <= MaxPrincipal
    /\ MinDuration <= duration /\ duration <= MaxDuration
    /\ MinLossLimit <= lossLimit /\ lossLimit <= MaxLossLimit
    /\ minimumShares # 0

\* The ledger after the sender's principal and fee came in and the fee went
\* out: the vault quotes the deposit on this ledger, so a treasury that is
\* itself the vault raises the price the deposit pays.
CollectFee(sender, principal) ==
    Move(Move(usdc, sender, Manager, principal + ProtectionFee),
         Manager, treasury, ProtectionFee)

\* Mutant: the fee is credited like principal.
EntrySharesWithFee(principal, ledger, vault) ==
    ToShares(principal + ProtectionFee, ledger[vault], supply[vault])

\* What the vault issues for the principal.
EntryShares(principal, ledger, vault) == ToShares(principal, ledger[vault], supply[vault])

TriggerAssets(principal, lossLimit) ==
    (principal * (BpsDenominator - lossLimit)) \div BpsDenominator

\* _assertShareCoverage, on the state the transaction leaves.
SharesCovered(v) == activeSharesByVault'[v] <= shareOf'[v][Manager]

OpenPolicy(sender, vault, beneficiary, principal, lossLimit, duration, minimumShares) ==
    LET ledger == CollectFee(sender, principal)
        shares == EntryShares(principal, ledger, vault)
        trigger == TriggerAssets(principal, lossLimit)
    IN /\ ~ paused
       /\ nextPolicyId <= MaxPolicies /\ now + duration <= Horizon
       /\ ValidRequest(vault, beneficiary, principal, lossLimit, duration, minimumShares)
       /\ principal + ProtectionFee <= usdc[sender]
       /\ principal <= MaxDeposit(ledger[vault])
       /\ minimumShares <= shares
       /\ trigger # 0
       /\ usdc' = Move(ledger, Manager, vault, principal)
       /\ MintTo(vault, Manager, shares)
       /\ policies' = [policies EXCEPT ![nextPolicyId] =
             [owner |-> sender, beneficiary |-> beneficiary, vault |-> vault,
              principalAssets |-> principal, shares |-> shares,
              triggerAssets |-> trigger, assetsReturned |-> 0, openedAt |-> now,
              expiresAt |-> now + duration, status |-> "Active"]]
       /\ nextPolicyId' = nextPolicyId + 1
       /\ activeSharesByVault' = [activeSharesByVault EXCEPT ![vault] = @ + shares]
       /\ SharesCovered(vault)
       /\ UNCHANGED <<adminVars, now>>

\* Mutant: the exit is counted but the policy keeps its active status.
SettleStillActive(id, finalStatus, assetsReturned) ==
    /\ policies' = [policies EXCEPT ![id].assetsReturned = assetsReturned]
    /\ activeSharesByVault' =
          [activeSharesByVault EXCEPT ![policies[id].vault] = @ - policies[id].shares]

\* Mutant: the shares that left are still counted as active.
SettleStillCounted(id, finalStatus, assetsReturned) ==
    /\ policies' = [policies EXCEPT ![id].status = finalStatus,
                                    ![id].assetsReturned = assetsReturned]
    /\ UNCHANGED activeSharesByVault

\* The record of an exit: the final status, the proceeds, and the shares that
\* are no longer in custody.
Settle(id, finalStatus, assetsReturned) ==
    /\ policies' = [policies EXCEPT ![id].status = finalStatus,
                                    ![id].assetsReturned = assetsReturned]
    /\ activeSharesByVault' =
          [activeSharesByVault EXCEPT ![policies[id].vault] = @ - policies[id].shares]

\* _exitPolicy: redeem the policy's own shares to its beneficiary, and check
\* what the vault reported against the balance it really moved.
ExitPolicy(id, finalStatus, minimumAssets) ==
    LET vault == policies[id].vault
        beneficiary == policies[id].beneficiary
        shares == policies[id].shares
        assets == PreviewRedeem(vault, shares)
        settled == Move(usdc, vault, beneficiary, assets)
        assetsReturned == settled[beneficiary] - usdc[beneficiary]
    IN /\ assets <= usdc[vault]
       /\ assetsReturned = assets
       /\ minimumAssets <= assetsReturned
       /\ usdc' = settled
       /\ BurnFrom(vault, Manager, shares)
       /\ Settle(id, finalStatus, assetsReturned)
       /\ SharesCovered(vault)
       /\ UNCHANGED <<nextPolicyId, adminVars, now>>

\* Mutant: the window's last second is off by one.
ExecuteProtectionAtExpiry(id, minimumAssets) ==
    /\ IsActive(id)
    /\ now <= policies[id].expiresAt
    /\ PolicyValue(id) <= policies[id].triggerAssets
    /\ ExitPolicy(id, "Executed", minimumAssets)

ExecuteProtection(id, minimumAssets) ==
    /\ IsActive(id)
    /\ now < policies[id].expiresAt
    /\ PolicyValue(id) <= policies[id].triggerAssets
    /\ ExitPolicy(id, "Executed", minimumAssets)

CancelPolicy(sender, id, minimumAssets) ==
    /\ IsActive(id)
    /\ sender = policies[id].owner
    /\ now < policies[id].expiresAt
    /\ ExitPolicy(id, "Cancelled", minimumAssets)

\* Mutant: closing takes the modifier that openings have.
CloseExpiredPolicyWhenNotPaused(id, minimumAssets) ==
    /\ ~ paused
    /\ IsActive(id)
    /\ policies[id].expiresAt <= now
    /\ ExitPolicy(id, "Expired", minimumAssets)

CloseExpiredPolicy(id, minimumAssets) ==
    /\ IsActive(id)
    /\ policies[id].expiresAt <= now
    /\ ExitPolicy(id, "Expired", minimumAssets)

SetVaultAllowed(vault, allowed) ==
    /\ isVaultAllowed' = [isVaultAllowed EXCEPT ![vault] = allowed]
    /\ UNCHANGED <<vaultVars, managerVars, treasury, paused, now>>

\* Mutant: the manager may become its own treasury.
SetAnyTreasury(newTreasury) ==
    /\ treasury' = newTreasury
    /\ UNCHANGED <<vaultVars, managerVars, isVaultAllowed, paused, now>>

SetTreasury(newTreasury) ==
    /\ newTreasury # Manager
    /\ treasury' = newTreasury
    /\ UNCHANGED <<vaultVars, managerVars, isVaultAllowed, paused, now>>

PauseOpenings ==
    /\ ~ paused
    /\ paused' = TRUE
    /\ UNCHANGED <<vaultVars, managerVars, isVaultAllowed, treasury, now>>

UnpauseOpenings ==
    /\ paused
    /\ paused' = FALSE
    /\ UNCHANGED <<vaultVars, managerVars, isVaultAllowed, treasury, now>>

\* Somebody else's transaction on the ledger or on a vault.
Outside == VaultNext /\ UNCHANGED <<managerVars, adminVars, now>>

Tick == /\ now < Horizon
        /\ now' = now + 1
        /\ UNCHANGED <<vaultVars, managerVars, adminVars>>

Open == \E sender \in Users, vault \in Vaults, beneficiary \in Beneficiaries,
           principal \in Principals, lossLimit \in LossLimits,
           duration \in Durations, minimumShares \in Minimums :
           OpenPolicy(sender, vault, beneficiary, principal, lossLimit, duration,
                      minimumShares)

Exit == \E id \in PolicyIds, minimumAssets \in Minimums :
           \/ ExecuteProtection(id, minimumAssets)
           \/ \E sender \in Users : CancelPolicy(sender, id, minimumAssets)
           \/ CloseExpiredPolicy(id, minimumAssets)

Admin == \/ \E vault \in Vaults, allowed \in BOOLEAN : SetVaultAllowed(vault, allowed)
         \/ \E newTreasury \in Treasuries : SetTreasury(newTreasury)
         \/ PauseOpenings
         \/ UnpauseOpenings

Next == Open \/ Exit \/ Admin \/ Outside \/ Tick

Spec == Init /\ [][Next]_vars

\* Time passes, and somebody (the contract lets anyone) closes a policy whose
\* window has ended without asking for a minimum.
Fairness == /\ WF_vars(Tick)
            /\ \A id \in PolicyIds : WF_vars(CloseExpiredPolicy(id, 0))

FairSpec == Spec /\ Fairness

-----------------------------------------------------------------------------
(* Properties.                                                              *)

\* Shares of one policy that the manager must still be holding in vault v.
CustodyOf(id, v) ==
    IF IsActive(id) /\ policies[id].vault = v THEN policies[id].shares ELSE 0

ActiveShares(v) == SumFunction([id \in PolicyIds |-> CustodyOf(id, v)])

\* Every variable has its type: no balance, share count or counter ever goes
\* below zero, so the checked arithmetic of the contract never reverts a call
\* that passed its guards.
TypeOK == /\ VaultTypeOK
          /\ policies \in [PolicyIds -> Policy]
          /\ nextPolicyId \in 1..(MaxPolicies + 1)
          /\ activeSharesByVault \in [Vaults -> Nat]
          /\ isVaultAllowed \in [Vaults -> BOOLEAN]
          /\ treasury \in Accounts
          /\ paused \in BOOLEAN
          /\ now \in Nat

\* The shares of all active policies of a vault are exactly what
\* activeSharesByVault counts, and the manager holds at least that many: the
\* custody _assertShareCoverage checks after every deposit and redemption.
ShareCustody ==
    \A v \in Vaults : /\ ActiveShares(v) = activeSharesByVault[v]
                      /\ activeSharesByVault[v] <= shareOf[v][Manager]

\* Every active policy of a vault could be paid what it is quoted, all of them
\* at once, and the check of the beneficiary's balance would pass: no rounding,
\* loss, gift, other policy or choice of beneficiary leaves a position stuck.
ActivePoliciesPayable ==
    \A v \in Vaults :
       LET active == {id \in PolicyIds : IsActive(id) /\ policies[id].vault = v}
       IN /\ SumFunction([id \in active |-> PolicyValue(id)]) <= usdc[v]
          /\ \A id \in active : policies[id].beneficiary # v

\* The manager never keeps an asset of its own: the fee, the principal and the
\* proceeds all pass through.  Only a user's transfer to it adds to its balance.
ManagerKeepsNoUsdc ==
    [][usdc'[Manager] # usdc[Manager] =>
          \E from \in Users, amount \in Amounts : TransferUsdc(from, Manager, amount)]_vars

\* Only a disclosed loss makes an open position worth less: nobody else's
\* deposit, redemption, opening, exit, fee or gift can push a policy to its
\* trigger.
OnlyLossLowersValue ==
    [][\A id \in PolicyIds :
          IsActive(id) /\ IsActive(id)' /\ PolicyValue(id)' < PolicyValue(id) =>
             \E loss \in Amounts : SimulateLoss(policies[id].vault, loss)]_vars

\* The contract keeps the promises of PolicyLifecycle: one opening and one exit
\* per identifier, terms that never change, exits inside their window, and an
\* executed policy that returned no more than its trigger.
Lifecycle == INSTANCE PolicyLifecycle
    WITH PolicyIds <- PolicyIds, NoPolicy <- NoPolicy, policies <- policies, now <- now
ImplementsLifecycle == Lifecycle!Spec

\* Every active policy is closed in the end, although openings may be paused,
\* its vault may be delisted and the vault may lose assets: funds do not become
\* stuck.
EveryPolicyCloses == \A id \in PolicyIds : IsActive(id) ~> ~ IsActive(id)
=============================================================================
