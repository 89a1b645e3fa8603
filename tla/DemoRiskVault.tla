--------------------------- MODULE DemoRiskVault ---------------------------
(***************************************************************************)
(* The USDC ledger, and the ERC-4626 vaults of DemoRiskVault.sol whose     *)
(* shares ProtectionManager holds.  Each action is one transaction of      *)
(* somebody other than the manager: the EVM runs it alone, and a revert is *)
(* a disabled action.                                                      *)
(*                                                                         *)
(* The vault's arithmetic is the one it inherits from OpenZeppelin's       *)
(* ERC4626 with a decimals offset of zero: one virtual asset and one       *)
(* virtual share, rounded in the vault's favour.                           *)
(***************************************************************************)
EXTENDS Integers, FiniteSets, Functions

CONSTANTS Users,         \* externally owned accounts
          Vaults,        \* deployed vaults over the USDC token
          Manager,       \* the ProtectionManager contract
          LossSink,      \* where simulateLoss sends assets
          DepositCap,    \* depositCap of every vault
          InitialUsdc,   \* USDC each user starts with
          Amounts        \* bound: amounts of the direct calls enumerated

Accounts == Users \cup Vaults \cup {Manager, LossSink}

ASSUME VaultAssumption ==
    /\ IsFiniteSet(Accounts)
    /\ Manager \notin Users \cup Vaults
    /\ Users \cap Vaults = {}
    /\ LossSink \notin Vaults
    /\ DepositCap \in Nat \ {0}
    /\ InitialUsdc \in [Users -> Nat]
    /\ Amounts \subseteq Nat \ {0}

VARIABLES usdc,      \* account -> USDC balance
          shareOf,   \* vault -> account -> shares held
          supply     \* vault -> totalSupply

vaultVars == <<usdc, shareOf, supply>>

VaultTypeOK == /\ usdc \in [Accounts -> Nat]
               /\ shareOf \in [Vaults -> [Accounts -> Nat]]
               /\ supply \in [Vaults -> Nat]

VaultInit == /\ usdc = [a \in Accounts |-> IF a \in Users THEN InitialUsdc[a] ELSE 0]
             /\ shareOf = [v \in Vaults |-> [a \in Accounts |-> 0]]
             /\ supply = [v \in Vaults |-> 0]

Move(balance, from, to, amount) ==
    [a \in DOMAIN balance |-> balance[a] - (IF a = from THEN amount ELSE 0)
                                         + (IF a = to THEN amount ELSE 0)]

\* Conversions of OpenZeppelin's ERC4626, rounded down (ToX) or up (ToXUp).
ToSharesUp(assets, total, issued) == (assets * (issued + 1) + total) \div (total + 1)
ToAssetsUp(shares, total, issued) == (shares * (total + 1) + issued) \div (issued + 1)
ToShares(assets, total, issued) == (assets * (issued + 1)) \div (total + 1)
ToAssets(shares, total, issued) == (shares * (total + 1)) \div (issued + 1)

PreviewRedeem(v, shares) == ToAssets(shares, usdc[v], supply[v])

\* The room under the cap when the vault manages total assets.
MaxDeposit(total) == IF total >= DepositCap THEN 0 ELSE DepositCap - total

MintTo(v, receiver, shares) ==
    /\ shareOf' = [shareOf EXCEPT ![v][receiver] = @ + shares]
    /\ supply' = [supply EXCEPT ![v] = @ + shares]

BurnFrom(v, holder, shares) ==
    /\ shares <= shareOf[v][holder]
    /\ shareOf' = [shareOf EXCEPT ![v][holder] = @ - shares]
    /\ supply' = [supply EXCEPT ![v] = @ - shares]

-----------------------------------------------------------------------------
(* Direct use of a vault.  The caller is the receiver: a deposit or a       *)
(* redemption for somebody else is one of these followed by a transfer.     *)

Enter(user, v, assets, shares) ==
    /\ assets <= usdc[user]
    /\ usdc' = Move(usdc, user, v, assets)
    /\ MintTo(v, user, shares)

Leave(user, v, assets, shares) ==
    /\ assets <= usdc[v]
    /\ usdc' = Move(usdc, v, user, assets)
    /\ BurnFrom(v, user, shares)

Deposit(user, v, assets) ==
    /\ assets <= MaxDeposit(usdc[v])
    /\ Enter(user, v, assets, ToShares(assets, usdc[v], supply[v]))

Mint(user, v, shares) ==
    /\ shares <= ToShares(MaxDeposit(usdc[v]), usdc[v], supply[v])
    /\ Enter(user, v, ToAssetsUp(shares, usdc[v], supply[v]), shares)

Redeem(user, v, shares) ==
    /\ shares <= shareOf[v][user]
    /\ Leave(user, v, PreviewRedeem(v, shares), shares)

Withdraw(user, v, assets) ==
    /\ assets <= PreviewRedeem(v, shareOf[v][user])
    /\ Leave(user, v, assets, ToSharesUp(assets, usdc[v], supply[v]))

\* The vault owner's disclosed loss: never nothing, never everything.
SimulateLoss(v, lossAssets) ==
    /\ 0 < lossAssets /\ lossAssets < usdc[v]
    /\ usdc' = Move(usdc, v, LossSink, lossAssets)
    /\ UNCHANGED <<shareOf, supply>>

\* Plain ERC-20 transfers by users, to anybody.
TransferUsdc(from, to, amount) ==
    /\ amount <= usdc[from]
    /\ usdc' = Move(usdc, from, to, amount)
    /\ UNCHANGED <<shareOf, supply>>

TransferShares(v, from, to, amount) ==
    /\ amount <= shareOf[v][from]
    /\ shareOf' = [shareOf EXCEPT ![v] = Move(@, from, to, amount)]
    /\ UNCHANGED <<usdc, supply>>

VaultNext ==
    \E amount \in Amounts :
       \/ \E user \in Users, v \in Vaults :
             \/ Deposit(user, v, amount)
             \/ Mint(user, v, amount)
             \/ Redeem(user, v, amount)
             \/ Withdraw(user, v, amount)
       \/ \E v \in Vaults : SimulateLoss(v, amount)
       \/ \E from \in Users, to \in Accounts : TransferUsdc(from, to, amount)
       \/ \E v \in Vaults, from \in Users, to \in Users \cup {Manager} :
             TransferShares(v, from, to, amount)
=============================================================================
