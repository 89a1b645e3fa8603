----------------------- MODULE LifecycleRunnerProofs -----------------------
(***************************************************************************)
(* The properties of LifecycleRunner, for all constants: its evidence is   *)
(* truthful, an interrupted lifecycle is continued and not repeated, and a *)
(* policy is put through one loss.                                         *)
(*                                                                         *)
(* The invariant says what the runner knows at each await: which of the    *)
(* wallet's policies can exist, which transactions can be in flight, and   *)
(* how the balances it has read relate to those of the chain, which moves  *)
(* on.                                                                     *)
(***************************************************************************)
EXTENDS LifecycleRunner, BlockRanges, ProtectionManagerProofs, SequenceTheorems

Transactions == [kind : {"approve", "open", "loss"}, amount : Nat,
                 result : {"pending", "success", "reverted"}]
Snapshots == [counter : Nat, vault : Nat, wallet : Nat, treasury : Nat, sink : Nat]
Openings == [tx : Nat, approvalFound : BOOLEAN, before : Snapshots, after : Snapshots]
Memories == [unread : SUBSET DOMAIN NotRead, before : Snapshots, after : Snapshots,
             final : Snapshots, scan : Nat, policyId : Nat, tx : Nat, openTx : Nat,
             valueAfterLoss : Nat]

RunnerTypes ==
    /\ txs \in Seq(Transactions) /\ allowance \in Nat /\ inflow \in Nat
    /\ opening \in [PolicyIds -> Openings \cup {Nothing}]
    /\ executor \in [PolicyIds -> Users \cup {Nothing}]
    /\ losses \in [PolicyIds -> Nat]
    /\ pc \in Labels /\ mem \in Memories
    /\ abandoned \subseteq {"opening", "losing"}
    /\ treasury = FirstTreasury

Own(id) == policies[id].owner = Wallet

\* What has been taken from the vault while policy id was active.
Lost(id) == LossAssets * losses[id]

\* Policy id is the one that transaction n opened.
OpenedBy(id, n) ==
    /\ opening[id] # Nothing /\ opening[id].tx = n
    /\ n \in 1..Len(txs) /\ txs[n].kind = "open" /\ txs[n].result = "success"
    /\ txs[n].amount = id

\* The wallet's policies: each opened by a transaction of the runner, on the terms
\* of the demonstration, breached only by a loss.
OwnPolicyInv(id) ==
    /\ opening[id] # Nothing /\ OpenedBy(id, opening[id].tx)
    /\ policies[id].triggerAssets = TriggerAssets(Principal, LossLimit)
    /\ opening[id].before.sink + Lost(id) <= usdc[LossSink]
    /\ policies[id].status = "Active" /\ losses[id] = 0 =>
          policies[id].triggerAssets < PolicyValue(id)
    /\ policies[id].status = "Executed" =>
          losses[id] >= 1 /\ policies[id].assetsReturned <= policies[id].triggerAssets

ChainInv ==
    \A id \in PolicyIds :
       /\ Exists(id) => policies[id].vault = DemoVault
       /\ IF Own(id) THEN OwnPolicyInv(id) ELSE losses[id] = 0

-----------------------------------------------------------------------------
(* What the runner knows, whatever is in flight.                            *)

Opened == {"opened", "verify", "lose", "losing", "waiting", "settling", "checking", "writing"}
Verified == {"lose", "losing", "waiting", "settling", "checking", "writing"}
Lossy == {"losing", "waiting", "settling", "checking", "writing"}
Breached == {"waiting", "settling", "checking", "writing"}
Settled == {"settling", "checking", "writing"}

\* The balance was read, and the runner goes by it.
ReadAt(label, field) == pc # label \/ field \notin mem.unread

Holds(kind, n) == n \in 1..Len(txs) /\ txs[n].kind = kind

TrackInv ==
    /\ pc = "approving" => Holds("approve", mem.tx)
    /\ pc = "opening" => Holds("open", mem.tx)
    /\ pc \in Opened => Holds("open", mem.openTx)
    /\ pc \in Lossy => Holds("loss", mem.tx)
    /\ pc \in Breached => txs[mem.tx].result = "success"
    /\ pc \in {"scanning", "starting"} /\ mem.policyId # 0 =>
          mem.policyId \in PolicyIds /\ Own(mem.policyId)
    /\ pc \in Verified \cup {"recover"} => mem.policyId \in PolicyIds /\ Own(mem.policyId)
    /\ pc \in Settled =>
          /\ policies[mem.policyId].status = "Executed"
          /\ ReadAt("settling", "sink") =>
                opening[mem.policyId].before.sink + Lost(mem.policyId) <= mem.final.sink
    /\ pc = "writing" => SettlementHolds
    /\ pc = "reading" => mem.policyId = 0 /\ mem.scan = 1
    /\ pc = "off" => mem = NoMem

-----------------------------------------------------------------------------
(* What it knows when no opening was left in flight.                        *)

Asked == {"approve", "approving", "open"}
Preparing == {"reading", "scanning", "starting"} \cup Asked

\* The opening is still to come, or in flight.
BeforeOpening == pc \in Preparing \/ (pc = "opening" /\ Receipt.result = "pending")

\* No policy of the wallet is there before the opening.
NoneYet == pc \in Asked \/ (pc = "opening" /\ Receipt.result = "pending")

\* Transaction n and the sink's balance that was read before it belong to policy id.
Identified(id, n) == OpenedBy(id, n) /\ mem.before.sink <= opening[id].before.sink

\* The wallet's policies, and the newest of them, the only one that may be active.
Owned == {id \in PolicyIds : Own(id)}
NewestActive == \A i \in OwnActive : \A j \in Owned : j <= i

ContinuationInv ==
    /\ \A n \in 1..Len(txs) :
          txs[n].kind = "open" /\ txs[n].result = "pending" => pc = "opening" /\ mem.tx = n
    /\ NewestActive
    /\ pc = "reading" /\ "counter" \notin mem.unread =>
          \A id \in OwnActive : id < mem.before.counter
    /\ pc = "scanning" =>
          \A id \in OwnActive : id < mem.before.counter /\ (id < mem.scan => id = mem.policyId)
    /\ pc = "starting" => OwnActive \subseteq {mem.policyId} \ {0}
    /\ NoneYet => OwnActive = {}
    /\ pc = "recover" => OwnActive \subseteq {mem.policyId}
    /\ BeforeOpening /\ ReadAt("reading", "sink") => mem.before.sink <= usdc[LossSink]
    /\ pc = "opening" /\ Receipt.result = "success" =>
          \A id \in OwnActive : Identified(id, mem.tx)
    /\ pc \in {"opened", "verify"} => \A id \in OwnActive : Identified(id, mem.openTx)
    /\ pc \in Verified => Identified(mem.policyId, mem.openTx)

\* How much the vault can hold: the principal of the one policy, what others put in,
\* less the losses.
VaultInv ==
    /\ \A id \in OwnActive : usdc[DemoVault] + Lost(id) <= Principal + inflow
    /\ BeforeOpening /\ ReadAt("reading", "vault") =>
          usdc[DemoVault] <= mem.before.vault + inflow
    /\ NoneYet \/ (pc = "starting" /\ mem.policyId = 0) => mem.before.vault = 0

-----------------------------------------------------------------------------
(* What it knows when no transaction was left in flight.                    *)

\* The loss is still to come, or in flight.
BeforeLoss == \/ pc \in Asked \cup {"opening", "opened", "recover", "verify", "lose"}
              \/ pc = "losing" /\ Receipt.result = "pending"

LossInv ==
    /\ \A n \in 1..Len(txs) :
          txs[n].kind = "loss" /\ txs[n].result = "pending" => pc = "losing" /\ mem.tx = n
    /\ pc \in {"reading", "scanning", "starting"} /\ ReadAt("reading", "vault") =>
          \A id \in OwnActive : mem.before.vault + Lost(id) <= Principal + inflow
    /\ pc = "starting" /\ mem.policyId # 0 => mem.before.vault = Principal
    /\ BeforeLoss => \A id \in OwnActive : Lost(id) <= inflow
    /\ inflow < LossAssets => \A id \in PolicyIds : losses[id] <= 1

-----------------------------------------------------------------------------
(* The evidence.                                                            *)

EvidenceInv ==
    evidence # Nothing =>
       /\ pc = "off"
       /\ evidence.policyId \in PolicyIds
       /\ evidence.openTx \in 1..Len(txs) /\ evidence.lossTx \in 1..Len(txs)
       /\ EvidenceTruthful

\* The inductive invariant.
RunnerInv ==
    /\ IndInv /\ RunnerTypes /\ ChainInv /\ TrackInv
    /\ "opening" \notin abandoned => ContinuationInv /\ VaultInv
    /\ abandoned = {} => LossInv
    /\ EvidenceInv

-----------------------------------------------------------------------------
(* What a call of the contract does to the policies and the balances.       *)

\* The constants of the demonstration.
LEMMA Terms ==
  /\ Wallet \in Users /\ Stranger \in Users /\ Keeper \in Users /\ DemoVault \in Vaults
  /\ Wallet # Stranger /\ LossSink \notin {Manager, Wallet, Stranger}
  /\ FirstTreasury # DemoVault /\ FirstTreasury \in Accounts /\ FirstTreasury # Manager
  /\ Principal \in Nat /\ LossLimit \in Nat /\ Duration \in Nat /\ MinimumShares \in Nat
  /\ LossAssets \in Amounts /\ LossAssets \in Nat /\ 0 < LossAssets
  /\ ZeroAddress \notin Accounts /\ ProtectionFee \in Nat
  /\ LossSink \in Accounts /\ DemoVault \in Accounts /\ DemoVault # LossSink
  /\ Wallet # ZeroAddress /\ LossSink \notin Vaults
  /\ DemoVault \notin Users /\ DemoVault # Manager
BY RunnerAssumption, ManagerAssumption, VaultAssumption, AccountsFacts DEF Accounts

\* What IndInv says of the variables.
LEMMA ChainTypes ==
  ASSUME IndInv
  PROVE  /\ usdc \in [Accounts -> Nat] /\ supply \in [Vaults -> Nat]
         /\ policies \in [PolicyIds -> Policy]
         /\ nextPolicyId \in 1..(MaxPolicies + 1) /\ nextPolicyId \in Nat
         /\ treasury \in Accounts /\ LedgerInv
         /\ \A id \in PolicyIds : id \in Nat /\ id # 0 /\ (Exists(id) <=> id < nextPolicyId)
<1>1. nextPolicyId \in 1..(MaxPolicies + 1) /\ MaxPolicies \in Nat
  BY ManagerAssumption DEF IndInv, TypeOK
<1>2. nextPolicyId \in Nat
  BY <1>1
<1>3. \A id \in PolicyIds : id \in Nat /\ id # 0
  BY <1>1 DEF PolicyIds
<1> QED BY <1>1, <1>2, <1>3 DEF IndInv, TypeOK, VaultTypeOK, PoliciesWellFormed, LedgerInv

\* A deposit that gives as many shares as were asked for is worth more than the trigger
\* at once, whatever the price of a share was.
LEMMA DepositIsSafe ==
  ASSUME NEW principal \in Nat, NEW minimum \in Nat, NEW shares \in Nat, NEW trigger \in Nat,
         NEW total \in Nat, NEW issued \in Nat, 0 < principal,
         principal <= minimum * (principal - 1 - trigger), minimum <= shares,
         shares = ToShares(principal, total, issued)
  PROVE  trigger < ToAssets(shares, total + principal, issued + shares)
<1>1. PICK A, B \in Nat : A = total + 1 /\ B = issued + 1
  OBVIOUS
<1>2. A # 0 /\ B # 0 /\ total = A - 1 /\ issued = B - 1
  BY <1>1
<1>3. PICK room \in Nat : room = principal - 1 - trigger
  <2> SUFFICES ASSUME principal - 1 - trigger < 0 PROVE FALSE
    OBVIOUS
  <2>1. PICK less \in Nat : less = trigger + 1 - principal /\ principal - 1 - trigger = 0 - less
    OBVIOUS
  <2>2. minimum * (0 - less) = 0 - minimum * less /\ minimum * less \in Nat
    BY Products
  <2> QED BY <2>1, <2>2
<1>4. principal <= shares * room
  <2>1. minimum * room <= shares * room
    BY Products
  <2>2. minimum * room \in Nat /\ shares * room \in Nat
    BY Products
  <2> QED BY <1>3, <2>1, <2>2
<1>5. PICK PB \in Nat : PB = principal * B
  BY Products
<1>6. shares = PB \div A
  BY <1>1, <1>5 DEF ToShares
<1>7. PICK sA, rB, sR, sB \in Nat : sA = shares * A /\ rB = room * B /\ sR = shares * room
                                  /\ sB = shares * B
  BY Products
<1>8. sA <= PB /\ PB < sA + A
  BY <1>2, <1>6, <1>7
<1>9. A <= rB
  <2>1. PB <= sR * B
    BY <1>4, <1>5, <1>7, Products
  <2>2. sR * B = rB * shares
    BY <1>7
  <2>3. A * shares <= rB * shares
    BY <1>7, <1>8, <2>1, <2>2
  <2>4. shares # 0
    BY <1>4
  <2> QED BY <2>3, <2>4, Products
<1>10. (trigger + 1) * (B + shares) <= shares * (A + principal)
  <2>1. trigger + 1 = principal - room
    BY <1>3
  <2>2. (principal - room) * (B + shares) = PB - rB + shares * principal - sR
    BY <1>5, <1>7
  <2>3. shares * (A + principal) = sA + shares * principal
    BY <1>7
  <2>4. shares * principal \in Nat
    BY Products
  <2> QED BY <1>8, <1>9, <2>1, <2>2, <2>3, <2>4
<1>11. trigger + 1 <= (shares * (A + principal)) \div (B + shares)
  <2>1. shares * (A + principal) \in Nat /\ B + shares \in Nat /\ B + shares # 0 /\ trigger + 1 \in Nat
    BY <1>2, Products
  <2> QED BY <1>10, <2>1, RoundedDown
<1>12. ToAssets(shares, total + principal, issued + shares)
         = (shares * (A + principal)) \div (B + shares)
  <2>1. (total + principal) + 1 = A + principal /\ (issued + shares) + 1 = B + shares
    BY <1>1
  <2> QED BY <2>1 DEF ToAssets
<1>13. (shares * (A + principal)) \div (B + shares) \in Nat
  <2>1. shares * (A + principal) \in Nat /\ B + shares \in Nat /\ B + shares # 0
    BY <1>2, Products
  <2> QED BY <2>1, RoundedDown
<1> QED BY <1>11, <1>12, <1>13

\* Policy d is closed with its proceeds; the others stay.
Closes(d, finalStatus) ==
    /\ \A id \in PolicyIds : id # d => policies'[id] = policies[id]
    /\ policies'[d].owner = policies[d].owner /\ policies'[d].vault = policies[d].vault
    /\ policies'[d].triggerAssets = policies[d].triggerAssets
    /\ policies'[d].status = finalStatus
    /\ policies'[d].assetsReturned = PolicyValue(d)
    /\ nextPolicyId' = nextPolicyId /\ treasury' = treasury

\* An exit closes one policy, takes from its vault alone, and keeps the invariant and
\* the price of a share.
LEMMA ExitFacts ==
  ASSUME IndInv, NEW d \in PolicyIds, IsActive(d),
         NEW finalStatus \in {"Executed", "Cancelled", "Expired"},
         ExitPolicy(d, finalStatus, 0)
  PROVE  /\ IndInv' /\ Closes(d, finalStatus)
         /\ \A v \in Vaults : PriceKept(v)
         /\ usdc[LossSink] <= usdc'[LossSink]
         /\ policies[d].vault = DemoVault => usdc'[DemoVault] <= usdc[DemoVault]
<1>1. IndInv'
  BY ExitPolicyIndInv
<1>2. \A v \in Vaults : PriceKept(v)
  BY <1>1, ExitKeepsPrice
<1>3. PICK vault, to, assets : /\ vault = policies[d].vault /\ to = policies[d].beneficiary
                               /\ assets = PolicyValue(d)
  OBVIOUS
<1>4. /\ vault \in Vaults /\ to \in Accounts /\ to # vault /\ usdc \in [Accounts -> Nat]
      /\ policies \in [PolicyIds -> Policy] /\ policies[d] \in Policy
  BY <1>3, ActivePolicyFacts, ChainTypes
<1>5. assets \in Nat
  BY <1>3, <1>4, ActivePolicyFacts, ConversionsType DEF PolicyValue, PreviewRedeem
<1>6. /\ usdc' = Move(usdc, vault, to, assets)
      /\ Move(usdc, vault, to, assets)[to] - usdc[to] = assets
      /\ Settle(d, finalStatus, Move(usdc, vault, to, assets)[to] - usdc[to])
      /\ nextPolicyId' = nextPolicyId /\ treasury' = treasury
  BY <1>3 DEF ExitPolicy, PolicyValue, adminVars
<1>7. policies' = [policies EXCEPT ![d].status = finalStatus, ![d].assetsReturned = assets]
  BY <1>6 DEF Settle
<1>8. Closes(d, finalStatus)
  BY <1>3, <1>4, <1>6, <1>7 DEF Closes, Policy
<1>9. \A a \in Accounts : usdc'[a] = usdc[a] - (IF a = vault THEN assets ELSE 0)
                                            + (IF a = to THEN assets ELSE 0)
  BY <1>4, <1>6 DEF Move
<1>10. usdc[LossSink] <= usdc'[LossSink]
  <2>1. LossSink # vault /\ LossSink \in Accounts /\ usdc[LossSink] \in Nat
    BY <1>4, Terms
  <2> QED BY <1>5, <1>9, <2>1
<1>11. vault = DemoVault => usdc'[DemoVault] <= usdc[DemoVault]
  <2>1. usdc[DemoVault] \in Nat /\ DemoVault \in Accounts
    BY <1>4, Terms
  <2> QED BY <1>4, <1>5, <1>9, <2>1
<1> QED BY <1>1, <1>2, <1>3, <1>8, <1>10, <1>11

\* A policy on the terms of the demonstration comes into being.
Opens(id, sender) ==
    /\ id = nextPolicyId /\ nextPolicyId' = nextPolicyId + 1
    /\ policies[id].owner = ZeroAddress
    /\ \A other \in PolicyIds : other # id => policies'[other] = policies[other]
    /\ policies'[id].owner = sender /\ policies'[id].vault = DemoVault
    /\ policies'[id].triggerAssets = TriggerAssets(Principal, LossLimit)
    /\ policies'[id].status = "Active"
    /\ TriggerAssets(Principal, LossLimit) < PolicyValue(id)'
    /\ treasury' = treasury

\* An opening by the wallet or the stranger adds the principal to the vault, and the
\* new policy is worth more than its trigger.
LEMMA OpeningFacts ==
  ASSUME IndInv, treasury = FirstTreasury, NEW sender \in {Wallet, Stranger},
         SpecificOpening(sender)
  PROVE  \E id \in PolicyIds :
            /\ IndInv' /\ Opens(id, sender)
            /\ \A v \in Vaults : PriceKept(v)
            /\ usdc[LossSink] <= usdc'[LossSink]
            /\ usdc'[DemoVault] = usdc[DemoVault] + Principal
<1> USE Terms
<1>1. PICK fee, ledger, shares, trigger :
         /\ fee = ProtectionFee
         /\ ledger = CollectFee(sender, Principal)
         /\ shares = EntryShares(Principal, ledger, DemoVault)
         /\ trigger = TriggerAssets(Principal, LossLimit)
  OBVIOUS
<1>2. OpenPolicy(sender, DemoVault, sender, Principal, LossLimit, Duration, MinimumShares)
  BY DEF SpecificOpening
<1>3. sender \in Users /\ sender \in Accounts /\ sender # DemoVault /\ sender # Manager
      /\ sender # LossSink
  BY AccountsFacts
<1>4. IndInv' /\ \A v \in Vaults : PriceKept(v)
  BY <1>2, <1>3, OpenPolicyIndInv, OpenKeepsPrice
<1>5. /\ 0 < Principal /\ Principal + ProtectionFee <= usdc[sender]
      /\ nextPolicyId <= MaxPolicies /\ MinimumShares <= shares
      /\ usdc' = Move(ledger, Manager, DemoVault, Principal)
      /\ supply' = [supply EXCEPT ![DemoVault] = @ + shares]
      /\ policies' = [policies EXCEPT ![nextPolicyId] =
            [owner |-> sender, beneficiary |-> sender, vault |-> DemoVault,
             principalAssets |-> Principal, shares |-> shares,
             triggerAssets |-> trigger, assetsReturned |-> 0, openedAt |-> now,
             expiresAt |-> now + Duration, status |-> "Active"]]
      /\ nextPolicyId' = nextPolicyId + 1 /\ treasury' = treasury
      /\ MinLossLimit <= LossLimit /\ LossLimit <= MaxLossLimit
  BY <1>1, <1>2 DEF OpenPolicy, ValidRequest, MintTo, adminVars
<1>6. PICK id \in PolicyIds : id = nextPolicyId
  BY <1>5, ChainTypes DEF PolicyIds
<1>7. ~ Exists(id)
  <2>1. id \in Nat /\ (Exists(id) <=> id < nextPolicyId)
    BY ChainTypes
  <2> QED BY <1>6, <2>1
<1>8. usdc \in [Accounts -> Nat] /\ supply \in [Vaults -> Nat] /\ policies \in [PolicyIds -> Policy]
  BY ChainTypes
<1>9. \A a \in Accounts :
         usdc'[a] = usdc[a] - (IF a = sender THEN Principal + fee ELSE 0)
                            + (IF a = Manager THEN Principal + fee ELSE 0)
                            - (IF a = Manager THEN fee ELSE 0)
                            + (IF a = treasury THEN fee ELSE 0)
                            - (IF a = Manager THEN Principal ELSE 0)
                            + (IF a = DemoVault THEN Principal ELSE 0)
  BY <1>1, <1>5, <1>8 DEF CollectFee, Move
<1>10. usdc[LossSink] <= usdc'[LossSink]
  <2>1. usdc[LossSink] \in Nat
    BY <1>8
  <2> QED BY <1>1, <1>3, <1>9, <2>1
<1>11. usdc'[DemoVault] = usdc[DemoVault] + Principal
  <2>1. usdc[DemoVault] \in Nat
    BY <1>8
  <2> QED BY <1>1, <1>3, <1>9, <2>1
<1>12. ledger[DemoVault] = usdc[DemoVault]
  <2>1. usdc[DemoVault] \in Nat
    BY <1>8
  <2> QED BY <1>1, <1>3, <1>8, <2>1 DEF CollectFee, Move
<1>13. trigger \in Nat
  <2>1. 0 < LossLimit /\ LossLimit < BpsDenominator
    BY <1>5, ManagerAssumption DEF BpsDenominator
  <2> QED BY <1>1, <1>5, <2>1, TriggerIsLoss
<1>14. shares \in Nat /\ shares = ToShares(Principal, usdc[DemoVault], supply[DemoVault])
       /\ usdc[DemoVault] \in Nat /\ supply[DemoVault] \in Nat
  BY <1>1, <1>8, <1>12, ConversionsType DEF EntryShares
<1>15. trigger < ToAssets(shares, usdc[DemoVault] + Principal, supply[DemoVault] + shares)
  BY <1>1, <1>5, <1>13, <1>14, TermsAssumption, DepositIsSafe
<1>16. supply'[DemoVault] = supply[DemoVault] + shares
  BY <1>5, <1>8
<1>17. /\ policies'[id].owner = sender /\ policies'[id].vault = DemoVault
       /\ policies'[id].triggerAssets = trigger /\ policies'[id].status = "Active"
       /\ policies'[id].shares = shares
       /\ \A other \in PolicyIds : other # id => policies'[other] = policies[other]
  BY <1>5, <1>6, <1>8
<1>18. trigger < PolicyValue(id)'
  BY <1>11, <1>15, <1>16, <1>17 DEF PolicyValue, PreviewRedeem
<1>19. Opens(id, sender)
  BY <1>1, <1>5, <1>6, <1>7, <1>17, <1>18 DEF Opens, Exists
<1> QED BY <1>4, <1>10, <1>11, <1>19

-----------------------------------------------------------------------------
(* What others do.                                                          *)

\* A policy of the wallet stays as it is and worth no less, or is closed.
Moves(id) ==
    \/ /\ policies'[id] = policies[id] /\ executor'[id] = executor[id]
       /\ policies[id].status = "Active" => PolicyValue(id) <= PolicyValue(id)'
    \/ /\ policies[id].status = "Active"
       /\ policies'[id].owner = policies[id].owner
       /\ policies'[id].triggerAssets = policies[id].triggerAssets
       /\ policies'[id].status \in {"Executed", "Cancelled", "Expired"}
       /\ policies'[id].status = "Executed" =>
             /\ PolicyValue(id) <= policies[id].triggerAssets
             /\ policies'[id].assetsReturned = PolicyValue(id)

\* A step of others, as the runner's invariant sees it.
OthersStep ==
    /\ UNCHANGED <<txs, opening, losses, allowance, runnerVars>> /\ treasury' = treasury
    /\ \A id \in PolicyIds : /\ Exists(id)' => policies'[id].vault = DemoVault
                             /\ Own(id)' <=> Own(id)
                             /\ Own(id) => Moves(id)
    /\ nextPolicyId <= nextPolicyId'
    /\ usdc[LossSink] <= usdc'[LossSink]
    /\ inflow' \in Nat /\ inflow <= inflow'
    /\ usdc'[DemoVault] + inflow <= usdc[DemoVault] + inflow'
    /\ executor' \in [PolicyIds -> Users \cup {Nothing}]
    /\ IndInv'

\* Every policy is a policy of the demonstration vault.
OneVault == \A id \in PolicyIds : Exists(id) => policies[id].vault = DemoVault

\* A policy of the wallet exists.
LEMMA OwnExists ==
  ASSUME NEW id \in PolicyIds, Own(id)
  PROVE  Exists(id) /\ (policies[id].status = "Active" <=> IsActive(id))
BY Terms DEF Own, Exists, IsActive

\* A policy that is not touched is worth no less when the price is kept.
LEMMA Untouched ==
  ASSUME IndInv, IndInv', \A v \in Vaults : PriceKept(v), NEW id \in PolicyIds, Own(id),
         policies'[id] = policies[id], executor'[id] = executor[id]
  PROVE  Moves(id)
<1>1. ASSUME policies[id].status = "Active" PROVE PolicyValue(id) <= PolicyValue(id)'
  <2>1. IsActive(id)
    BY <1>1, OwnExists
  <2>2. PriceKept(policies[id].vault)
    BY <2>1, ActivePolicyFacts
  <2> QED BY <2>1, <2>2, PriceKeepsValue
<1> QED BY <1>1 DEF Moves

\* Somebody closes a policy.
LEMMA ExitIsOthersStep ==
  ASSUME IndInv, RunnerTypes, OneVault, NEW d \in PolicyIds, IsActive(d),
         NEW finalStatus \in {"Executed", "Cancelled", "Expired"},
         ExitPolicy(d, finalStatus, 0),
         finalStatus = "Executed" => PolicyValue(d) <= policies[d].triggerAssets,
         UNCHANGED <<txs, opening, losses, allowance, runnerVars>>, inflow' = inflow,
         NEW account \in Users,
         executor' = executor \/ executor' = [executor EXCEPT ![d] = account]
  PROVE  OthersStep
<1>1. /\ IndInv' /\ Closes(d, finalStatus) /\ \A v \in Vaults : PriceKept(v)
      /\ usdc[LossSink] <= usdc'[LossSink]
      /\ policies[d].vault = DemoVault => usdc'[DemoVault] <= usdc[DemoVault]
  BY ExitFacts
<1>2. policies[d].vault = DemoVault
  BY DEF OneVault, IsActive
<1>3. ASSUME NEW id \in PolicyIds
      PROVE  /\ Exists(id)' => policies'[id].vault = DemoVault
             /\ Own(id)' <=> Own(id)
             /\ Own(id) => Moves(id)
  <2>1. CASE id = d
    <3>1. policies[d].status = "Active"
      BY DEF IsActive
    <3> QED BY <1>1, <1>2, <2>1, <3>1 DEF Closes, Own, Moves, Exists
  <2>2. CASE id # d
    <3>1. policies'[id] = policies[id] /\ executor'[id] = executor[id]
      BY <1>1, <2>2 DEF Closes, RunnerTypes
    <3>2. Own(id) => Moves(id)
      BY <1>1, <3>1, Untouched
    <3> QED BY <3>1, <3>2 DEF Own, Exists, OneVault
  <2> QED BY <2>1, <2>2
<1>4. executor' \in [PolicyIds -> Users \cup {Nothing}] /\ inflow \in Nat
  BY DEF RunnerTypes
<1>5. usdc[DemoVault] \in Nat /\ usdc'[DemoVault] \in Nat
  BY <1>1, ChainTypes, Terms DEF IndInv, TypeOK, VaultTypeOK
<1>6. nextPolicyId' = nextPolicyId /\ treasury' = treasury /\ nextPolicyId \in Nat
  BY <1>1, ChainTypes DEF Closes
<1>7. usdc'[DemoVault] + inflow <= usdc[DemoVault] + inflow'
  BY <1>1, <1>2, <1>4, <1>5
<1> QED BY <1>1, <1>3, <1>4, <1>6, <1>7 DEF OthersStep

\* Somebody else than the runner moves.
LEMMA OthersFacts ==
  ASSUME IndInv, RunnerTypes, OneVault, GuardianExecutes \/ OtherExecutes \/ OthersAct
  PROVE  OthersStep
<1> USE Terms
<1>1. ASSUME NEW account \in Users, ExecutedBy(account) PROVE OthersStep
  <2>1. PICK d \in PolicyIds : /\ ExecuteProtection(d, 0)
                               /\ executor' = [executor EXCEPT ![d] = account]
    BY <1>1 DEF ExecutedBy
  <2>2. /\ IsActive(d) /\ ExitPolicy(d, "Executed", 0)
        /\ PolicyValue(d) <= policies[d].triggerAssets
    BY <2>1 DEF ExecuteProtection
  <2>3. UNCHANGED <<txs, opening, losses, allowance, runnerVars>> /\ inflow' = inflow
    BY <1>1 DEF ExecutedBy
  <2> QED BY <2>1, <2>2, <2>3, ExitIsOthersStep
<1>2. CASE GuardianExecutes \/ OtherExecutes
  BY <1>1, <1>2 DEF GuardianExecutes, OtherExecutes
<1>3. ASSUME OthersAct, NEW d \in PolicyIds,
             CancelPolicy(Wallet, d, 0) \/ CloseExpiredPolicy(d, 0), inflow' = inflow
      PROVE  OthersStep
  <2>1. PICK finalStatus \in {"Cancelled", "Expired"} :
           IsActive(d) /\ ExitPolicy(d, finalStatus, 0)
    BY <1>3 DEF CancelPolicy, CloseExpiredPolicy
  <2>2. UNCHANGED <<txs, opening, losses, allowance, runnerVars>> /\ executor' = executor
    BY <1>3 DEF OthersAct
  <2> QED BY <1>3, <2>1, <2>2, ExitIsOthersStep
<1>4. ASSUME OthersAct, UNCHANGED managerVars, treasury' = treasury, IndInv',
             \A v \in Vaults : PriceKept(v), usdc[LossSink] <= usdc'[LossSink],
             inflow' \in Nat, inflow <= inflow',
             usdc'[DemoVault] + inflow <= usdc[DemoVault] + inflow'
      PROVE  OthersStep
  <2>1. /\ UNCHANGED <<txs, opening, losses, allowance, runnerVars>> /\ executor' = executor
        /\ policies' = policies /\ nextPolicyId' = nextPolicyId
    BY <1>4 DEF OthersAct, managerVars
  <2>2. ASSUME NEW id \in PolicyIds
        PROVE  /\ Exists(id)' => policies'[id].vault = DemoVault
               /\ Own(id)' <=> Own(id)
               /\ Own(id) => Moves(id)
    <3>1. Own(id) => Moves(id)
      BY <1>4, <2>1, Untouched
    <3> QED BY <2>1, <3>1 DEF Own, Exists, OneVault
  <2>3. nextPolicyId <= nextPolicyId' /\ executor' \in [PolicyIds -> Users \cup {Nothing}]
    BY <2>1, ChainTypes DEF RunnerTypes
  <2> QED BY <1>4, <2>1, <2>2, <2>3 DEF OthersStep
<1>5. CASE OthersAct /\ Gift
  <2>1. PICK to \in {DemoVault, Wallet, LossSink}, amount \in Amounts :
           /\ TransferUsdc(Stranger, to, amount)
           /\ inflow' = inflow + IF to = DemoVault THEN amount ELSE 0
    BY <1>5 DEF Gift
  <2>2. /\ VaultNext /\ UNCHANGED managerVars /\ isVaultAllowed' = isVaultAllowed
        /\ treasury' = treasury /\ paused' = paused /\ now' = now
    <3>1. VaultNext
      BY <2>1, AccountsFacts DEF VaultNext
    <3> QED BY <1>5, <3>1 DEF Gift, adminVars
  <2>3. IndInv'
    BY <2>2, NextIndInv DEF Next, Outside, adminVars
  <2>4. ASSUME NEW v \in Vaults PROVE PriceKept(v)
    <3>1. supply' = supply /\ usdc' = Move(usdc, Stranger, to, amount) /\ v # Stranger
          /\ LedgerInv /\ usdc \in [Accounts -> Nat] /\ amount \in Nat
      BY <2>1, ChainTypes, VaultAssumption DEF TransferUsdc
    <3>2. v \in Accounts /\ usdc[v] \in Nat
      BY <3>1, AccountsFacts
    <3>3. usdc'[v] = usdc[v] + (IF v = to THEN amount ELSE 0)
      BY <3>1, <3>2 DEF Move
    <3>4. usdc'[v] \in Nat /\ usdc[v] <= usdc'[v]
      BY <3>1, <3>2, <3>3
    <3> QED BY <3>1, <3>4, GiftKeepsPrice
  <2>5. /\ usdc[LossSink] <= usdc'[LossSink] /\ inflow' \in Nat /\ inflow <= inflow'
        /\ usdc'[DemoVault] + inflow <= usdc[DemoVault] + inflow'
    <3>1. /\ usdc' = Move(usdc, Stranger, to, amount) /\ usdc \in [Accounts -> Nat]
          /\ amount \in Nat /\ inflow \in Nat /\ DemoVault # Stranger
      BY <2>1, ChainTypes, VaultAssumption DEF TransferUsdc, RunnerTypes
    <3>2. /\ usdc[LossSink] \in Nat /\ usdc[DemoVault] \in Nat
          /\ usdc'[LossSink] = usdc[LossSink] + (IF LossSink = to THEN amount ELSE 0)
          /\ usdc'[DemoVault] = usdc[DemoVault] + (IF DemoVault = to THEN amount ELSE 0)
      BY <3>1 DEF Move
    <3> QED BY <2>1, <3>1, <3>2
  <2> QED BY <1>4, <1>5, <2>2, <2>3, <2>4, <2>5
<1>6. CASE OthersAct /\ StrangerOpens
  <2>1. PICK new \in PolicyIds :
           /\ IndInv' /\ Opens(new, Stranger) /\ \A v \in Vaults : PriceKept(v)
           /\ usdc[LossSink] <= usdc'[LossSink]
           /\ usdc'[DemoVault] = usdc[DemoVault] + Principal
    BY <1>6, OpeningFacts DEF StrangerOpens, RunnerTypes
  <2>2. /\ UNCHANGED <<txs, opening, losses, allowance, runnerVars>> /\ executor' = executor
        /\ inflow' = inflow + Principal
    BY <1>6 DEF OthersAct, StrangerOpens
  <2>3. ASSUME NEW id \in PolicyIds
        PROVE  /\ Exists(id)' => policies'[id].vault = DemoVault
               /\ Own(id)' <=> Own(id)
               /\ Own(id) => Moves(id)
    <3>1. CASE id = new
      BY <2>1, <3>1 DEF Opens, Own, Exists
    <3>2. CASE id # new
      <4>1. policies'[id] = policies[id]
        BY <2>1, <3>2 DEF Opens
      <4>2. Own(id) => Moves(id)
        BY <2>1, <2>2, <4>1, Untouched
      <4> QED BY <4>1, <4>2 DEF Own, Exists, OneVault
    <3> QED BY <3>1, <3>2
  <2>4. /\ nextPolicyId <= nextPolicyId' /\ treasury' = treasury
        /\ executor' \in [PolicyIds -> Users \cup {Nothing}]
    BY <2>1, <2>2, ChainTypes DEF RunnerTypes, Opens
  <2>5. /\ inflow' \in Nat /\ inflow <= inflow'
        /\ usdc'[DemoVault] + inflow <= usdc[DemoVault] + inflow'
    <3>1. inflow \in Nat /\ usdc[DemoVault] \in Nat
      BY ChainTypes DEF RunnerTypes
    <3> QED BY <2>1, <2>2, <3>1
  <2> QED BY <2>1, <2>2, <2>3, <2>4, <2>5 DEF OthersStep
<1>7. CASE OthersAct /\ WalletCancels
  BY <1>3, <1>7 DEF WalletCancels
<1>8. CASE OthersAct /\ TimePasses
  <2>1. CASE \E id \in PolicyIds : CloseExpiredPolicy(id, 0)
    BY <1>3, <1>8, <2>1 DEF TimePasses
  <2>2. CASE Tick
    <3>1. IndInv'
      BY <2>2, NextIndInv DEF Next
    <3>2. UNCHANGED managerVars /\ UNCHANGED vaultVars /\ treasury' = treasury
      BY <2>2 DEF Tick, adminVars
    <3>3. usdc' = usdc /\ supply' = supply
      BY <3>2 DEF vaultVars
    <3>4. usdc[LossSink] \in Nat /\ usdc[DemoVault] \in Nat /\ inflow \in Nat
      BY ChainTypes DEF RunnerTypes
    <3>5. ASSUME NEW v \in Vaults PROVE PriceKept(v)
      <4>1. LedgerInv /\ usdc[v] \in Nat
        BY ChainTypes, AccountsFacts
      <4> QED BY <3>3, <4>1, GiftKeepsPrice
    <3>6. inflow' = inflow
      BY <1>8 DEF TimePasses
    <3> QED BY <1>4, <1>8, <3>1, <3>2, <3>3, <3>4, <3>5, <3>6
  <2> QED BY <1>8, <2>1, <2>2 DEF TimePasses
<1> QED BY <1>2, <1>5, <1>6, <1>7, <1>8 DEF OthersAct

-----------------------------------------------------------------------------
(* What the mining of a transaction does.                                   *)

\* Transaction n is mined with this result; the others stay.
Mined(n, result, amount) ==
    /\ Len(txs') = Len(txs) /\ txs' \in Seq(Transactions)
    /\ \A m \in 1..Len(txs) : m # n => txs'[m] = txs[m]
    /\ txs'[n].kind = txs[n].kind /\ txs'[n].result = result /\ txs'[n].amount = amount

\* What a transaction looks like.
LEMMA TransactionFields ==
  ASSUME RunnerTypes, NEW n \in 1..Len(txs)
  PROVE  /\ txs[n] \in Transactions /\ txs[n].amount \in Nat
         /\ txs[n].kind \in {"approve", "open", "loss"}
         /\ txs[n].result \in {"pending", "success", "reverted"}
         /\ Len(txs) \in Nat /\ n \in Nat
<1>1. txs \in Seq(Transactions)
  BY DEF RunnerTypes
<1>2. txs[n] \in Transactions /\ Len(txs) \in Nat
  BY <1>1, ElementOfSeq, LenProperties
<1> QED BY <1>2 DEF Transactions

\* Replacing a transaction's result and amount.
LEMMA MinedFacts ==
  ASSUME RunnerTypes, NEW n \in 1..Len(txs), NEW result \in {"pending", "success", "reverted"},
         NEW amount \in Nat,
         txs' = [txs EXCEPT ![n] = [kind |-> txs[n].kind, amount |-> amount, result |-> result]]
  PROVE  Mined(n, result, amount)
<1>1. PICK tx : tx = [kind |-> txs[n].kind, amount |-> amount, result |-> result]
  OBVIOUS
<1>2. tx \in Transactions
  BY <1>1, TransactionFields DEF Transactions
<1>3. txs \in Seq(Transactions) /\ txs' = [txs EXCEPT ![n] = tx]
  BY <1>1 DEF RunnerTypes
<1>4. /\ txs' \in Seq(Transactions) /\ Len(txs') = Len(txs) /\ txs'[n] = tx
      /\ \A m \in 1..Len(txs) : m # n => txs'[m] = txs[m]
  BY <1>2, <1>3, ExceptSeq
<1> QED BY <1>1, <1>4 DEF Mined

\* Two fields of a transaction are written.
LEMMA Replaced ==
  ASSUME RunnerTypes, NEW n \in 1..Len(txs), NEW value \in Nat,
         txs' = [txs EXCEPT ![n].result = "success", ![n].amount = value]
  PROVE  Mined(n, "success", value)
<1>1. PICK tx \in Transactions : tx = txs[n]
  BY TransactionFields
<1>2. [[tx EXCEPT !.result = "success"] EXCEPT !.amount = value]
        = [kind |-> tx.kind, amount |-> value, result |-> "success"]
  <2>1. tx = [kind |-> tx.kind, amount |-> tx.amount, result |-> tx.result]
    BY DEF Transactions
  <2>2. PICK k, a, r : tx = [kind |-> k, amount |-> a, result |-> r] /\ k = tx.kind
    BY <2>1
  <2>3. [tx EXCEPT !.result = "success"] = [kind |-> k, amount |-> a, result |-> "success"]
    BY <2>2
  <2>4. PICK t : t = [kind |-> k, amount |-> a, result |-> "success"]
    OBVIOUS
  <2>5. [t EXCEPT !.amount = value] = [kind |-> k, amount |-> value, result |-> "success"]
    BY <2>4
  <2> QED BY <2>2, <2>3, <2>4, <2>5
<1>3. [txs EXCEPT ![n].result = "success", ![n].amount = value]
        = [txs EXCEPT ![n] = [[txs[n] EXCEPT !.result = "success"] EXCEPT !.amount = value]]
  OBVIOUS
<1>4. txs' = [txs EXCEPT ![n] = [kind |-> txs[n].kind, amount |-> value, result |-> "success"]]
  BY <1>1, <1>2, <1>3
<1>5. "success" \in {"pending", "success", "reverted"}
  OBVIOUS
<1> QED BY ONLY RunnerTypes, n \in 1..Len(txs), value \in Nat, <1>4, <1>5, MinedFacts

\* A transaction is mined that changes no policy and no balance.
Ineffective(n) ==
    /\ txs[n].result = "pending"
    /\ \E result \in {"success", "reverted"} :
          /\ Mined(n, result, txs[n].amount)
          /\ txs[n].kind # "approve" => result = "reverted"
    /\ UNCHANGED <<vars, opening, executor, losses, inflow, runnerVars>> /\ allowance' \in Nat

\* The wallet's opening is mined.
OpensFor(n, id) ==
    /\ txs[n].result = "pending" /\ txs[n].kind = "open" /\ Mined(n, "success", id)
    /\ IndInv' /\ Opens(id, Wallet) /\ \A v \in Vaults : PriceKept(v)
    /\ usdc[LossSink] <= usdc'[LossSink] /\ usdc'[DemoVault] = usdc[DemoVault] + Principal
    /\ opening' \in [PolicyIds -> Openings \cup {Nothing}]
    /\ opening'[id] # Nothing /\ opening'[id].tx = n /\ opening'[id].before.sink = usdc[LossSink]
    /\ \A other \in PolicyIds : other # id => opening'[other] = opening[other]
    /\ UNCHANGED <<executor, losses, inflow, runnerVars>> /\ allowance' \in Nat

\* The loss is mined.
Loses(n) ==
    /\ txs[n].result = "pending" /\ txs[n].kind = "loss" /\ Mined(n, "success", usdc'[DemoVault])
    /\ IndInv' /\ UNCHANGED <<managerVars, adminVars, supply>>
    /\ usdc'[LossSink] = usdc[LossSink] + LossAssets
    /\ usdc'[DemoVault] = usdc[DemoVault] - LossAssets
    /\ losses' = [id \in PolicyIds |-> losses[id] + IF id \in OwnActive THEN 1 ELSE 0]
    /\ UNCHANGED <<opening, executor, allowance, inflow, runnerVars>>

\* A balance sheet of the chain as the runner records it.
LEMMA SnapshotType ==
  ASSUME IndInv
  PROVE  Snapshot \in Snapshots
BY ChainTypes, Terms, AccountsFacts DEF Snapshot, Snapshots

\* A transaction that is mined does one of three things.
LEMMA MiningFacts ==
  ASSUME IndInv, RunnerTypes, NEW n \in 1..Len(txs), Mine(n)
  PROVE  Ineffective(n) \/ (\E id \in PolicyIds : OpensFor(n, id)) \/ Loses(n)
<1> USE Terms
<1>1. /\ txs[n].result = "pending" /\ UNCHANGED runnerVars
      /\ CASE txs[n].kind = "approve" -> MineApproval(n)
           [] txs[n].kind = "open" -> MineOpening(n)
           [] txs[n].kind = "loss" -> MineLoss(n)
  BY DEF Mine
<1>2. /\ txs[n].kind \in {"approve", "open", "loss"} /\ txs[n].amount \in Nat
      /\ txs[n] \in Transactions /\ txs \in Seq(Transactions) /\ allowance \in Nat
  BY TransactionFields DEF RunnerTypes
<1>3. ASSUME NEW result \in {"success", "reverted"}, txs' = [txs EXCEPT ![n].result = result]
      PROVE  Mined(n, result, txs[n].amount)
  <2>1. [txs[n] EXCEPT !.result = result]
           = [kind |-> txs[n].kind, amount |-> txs[n].amount, result |-> result]
    BY <1>2 DEF Transactions
  <2>2. txs' = [txs EXCEPT ![n] =
                   [kind |-> txs[n].kind, amount |-> txs[n].amount, result |-> result]]
    BY <1>3, <2>1
  <2>3. result \in {"pending", "success", "reverted"} /\ txs[n].amount \in Nat
    BY <1>2
  <2> QED BY ONLY RunnerTypes, n \in 1..Len(txs), <2>2, <2>3, MinedFacts
<1>4. ASSUME NEW amount \in Nat,
             txs' = [txs EXCEPT ![n].result = "success", ![n].amount = amount]
      PROVE  Mined(n, "success", amount)
  BY <1>4, Replaced
<1>5. CASE MineApproval(n) /\ txs[n].kind = "approve"
  <2>1. Mined(n, "success", txs[n].amount)
    BY <1>3, <1>5 DEF MineApproval
  <2>2. UNCHANGED <<vars, opening, executor, losses, inflow>> /\ allowance' \in Nat
    BY <1>2, <1>5 DEF MineApproval
  <2>3. \E result \in {"success", "reverted"} :
           Mined(n, result, txs[n].amount) /\ (txs[n].kind # "approve" => result = "reverted")
    BY <1>5, <2>1
  <2> QED BY <1>1, <2>2, <2>3 DEF Ineffective
<1>6. ASSUME txs' = [txs EXCEPT ![n].result = "reverted"],
             UNCHANGED <<vars, allowance, opening, executor, losses, inflow>>
      PROVE  Ineffective(n)
  <2>1. Mined(n, "reverted", txs[n].amount)
    BY <1>3, <1>6
  <2>2. \E result \in {"success", "reverted"} :
           Mined(n, result, txs[n].amount) /\ (txs[n].kind # "approve" => result = "reverted")
    BY <2>1
  <2> QED BY <1>1, <1>2, <1>6, <2>2 DEF Ineffective
<1>7. CASE MineOpening(n) /\ txs[n].kind = "open"
  <2>1. CASE txs' = [txs EXCEPT ![n].result = "reverted"]
             /\ UNCHANGED <<vars, allowance, opening, executor, losses, inflow>>
    BY <1>6, <2>1
  <2>2. CASE /\ Principal + ProtectionFee <= allowance
             /\ SpecificOpening(Wallet)
             /\ allowance' = allowance - (Principal + ProtectionFee)
             /\ txs' = [txs EXCEPT ![n].result = "success", ![n].amount = nextPolicyId]
             /\ \E found \in BOOLEAN :
                   opening' = [opening EXCEPT ![nextPolicyId] =
                      [tx |-> n, approvalFound |-> found,
                       before |-> Snapshot, after |-> Snapshot']]
             /\ UNCHANGED <<executor, losses, inflow>>
    <3>1. PICK id \in PolicyIds :
             /\ IndInv' /\ Opens(id, Wallet) /\ \A v \in Vaults : PriceKept(v)
             /\ usdc[LossSink] <= usdc'[LossSink]
             /\ usdc'[DemoVault] = usdc[DemoVault] + Principal
      BY <2>2, OpeningFacts DEF RunnerTypes
    <3>2. id = nextPolicyId /\ id \in Nat
      BY <3>1, ChainTypes DEF Opens
    <3>3. Mined(n, "success", id)
      BY <1>4, <2>2, <3>2
    <3>4. PICK record : /\ opening' = [opening EXCEPT ![id] = record]
                        /\ record \in Openings /\ record.tx = n /\ record.before.sink = usdc[LossSink]
      <4>1. PICK found \in BOOLEAN :
               opening' = [opening EXCEPT ![id] =
                  [tx |-> n, approvalFound |-> found, before |-> Snapshot, after |-> Snapshot']]
        BY <2>2, <3>2
      <4>2. Snapshot \in Snapshots /\ Snapshot' \in Snapshots
        <5>1. /\ usdc' \in [Accounts -> Nat] /\ treasury' \in Accounts
              /\ nextPolicyId' \in 1..(MaxPolicies + 1)
          BY <3>1 DEF IndInv, TypeOK, VaultTypeOK
        <5>2. nextPolicyId' \in Nat
          BY <5>1, ManagerAssumption
        <5>3. Snapshot' = [counter |-> nextPolicyId', vault |-> usdc'[DemoVault],
                           wallet |-> usdc'[Wallet], treasury |-> usdc'[treasury'],
                           sink |-> usdc'[LossSink]]
          BY DEF Snapshot
        <5>4. Snapshot' \in Snapshots
          BY <5>1, <5>2, <5>3, AccountsFacts DEF Snapshots
        <5> QED BY <5>4, SnapshotType
      <4>3. n \in Nat /\ Snapshot.sink = usdc[LossSink]
        BY TransactionFields DEF Snapshot
      <4>4. PICK record : record = [tx |-> n, approvalFound |-> found,
                                    before |-> Snapshot, after |-> Snapshot']
        OBVIOUS
      <4>5. record \in Openings /\ record.tx = n /\ record.before = Snapshot
        BY <4>2, <4>3, <4>4 DEF Openings
      <4>6. record.before.sink = usdc[LossSink]
        BY <4>3, <4>5
      <4>7. opening' = [opening EXCEPT ![id] = record]
        BY <4>1, <4>4
      <4> QED BY <4>5, <4>6, <4>7
    <3>5. opening \in [PolicyIds -> Openings \cup {Nothing}]
      BY DEF RunnerTypes
    <3>6. record # Nothing
      BY SMTT(30), <3>4 DEF Openings, Nothing
    <3>7. /\ opening' \in [PolicyIds -> Openings \cup {Nothing}] /\ opening'[id] = record
          /\ \A other \in PolicyIds : other # id => opening'[other] = opening[other]
      BY <3>4, <3>5
    <3>8. allowance' \in Nat
      BY <1>2, <2>2
    <3>9. OpensFor(n, id)
      BY <1>1, <1>7, <2>2, <3>1, <3>3, <3>4, <3>6, <3>7, <3>8 DEF OpensFor
    <3> QED BY <3>9
  <2> QED BY <1>7, <2>1, <2>2 DEF MineOpening
<1>8. CASE MineLoss(n) /\ txs[n].kind = "loss"
  <2>1. CASE txs' = [txs EXCEPT ![n].result = "reverted"]
             /\ UNCHANGED <<vars, allowance, opening, executor, losses, inflow>>
    BY <1>6, <2>1
  <2>2. CASE /\ SimulateLoss(DemoVault, LossAssets)
             /\ txs' = [txs EXCEPT ![n].result = "success", ![n].amount = usdc'[DemoVault]]
             /\ losses' = [id \in PolicyIds |-> losses[id] + IF id \in OwnActive THEN 1 ELSE 0]
             /\ UNCHANGED <<managerVars, adminVars, now, allowance, opening, executor, inflow>>
    <3>1. VaultNext
      BY <2>2 DEF VaultNext
    <3>2. IndInv'
      BY <2>2, <3>1, NextIndInv DEF Next, Outside
    <3>3. /\ usdc' = Move(usdc, DemoVault, LossSink, LossAssets) /\ LossAssets < usdc[DemoVault]
          /\ supply' = supply /\ usdc \in [Accounts -> Nat]
      BY <2>2, ChainTypes DEF SimulateLoss
    <3>4. /\ usdc'[LossSink] = usdc[LossSink] + LossAssets
          /\ usdc'[DemoVault] = usdc[DemoVault] - LossAssets
          /\ usdc[LossSink] \in Nat /\ usdc[DemoVault] \in Nat
      BY <3>3 DEF Move
    <3>5. usdc'[DemoVault] \in Nat
      BY <3>3, <3>4
    <3>6. Mined(n, "success", usdc'[DemoVault])
      BY <1>4, <2>2, <3>5
    <3> QED BY <1>1, <1>8, <2>2, <3>2, <3>3, <3>4, <3>6 DEF Loses
  <2> QED BY <1>8, <2>1, <2>2 DEF MineLoss
<1> QED BY <1>1, <1>2, <1>5, <1>7, <1>8

-----------------------------------------------------------------------------
(* Each step keeps the types, and what holds of the wallet's policies.      *)

\* The transactions sent so far stay; one that is pending may be mined.
TxsKept ==
    /\ txs' \in Seq(Transactions) /\ Len(txs) <= Len(txs')
    /\ \A n \in 1..Len(txs) : /\ txs'[n].kind = txs[n].kind
                              /\ txs[n].result # "pending" => txs'[n] = txs[n]

\* A step that leaves the contracts, the openings and the losses alone.
Still == UNCHANGED <<vars, opening, executor, losses, inflow>> /\ TxsKept

\* What a policy of the wallet has in common with its opening's transaction stays.
LEMMA OpenedByKept ==
  ASSUME RunnerTypes, TxsKept, NEW id \in PolicyIds, NEW n, OpenedBy(id, n),
         opening'[id] = opening[id]
  PROVE  OpenedBy(id, n)'
<1>1. n \in 1..Len(txs) /\ Len(txs) \in Nat /\ Len(txs') \in Nat
  BY LenProperties DEF OpenedBy, RunnerTypes, TxsKept
<1>2. n \in 1..Len(txs')
  BY <1>1 DEF TxsKept
<1> QED BY <1>1, <1>2 DEF OpenedBy, TxsKept

\* The losses are natural numbers.
LEMMA LostType ==
  ASSUME RunnerTypes, NEW id \in PolicyIds
  PROVE  losses[id] \in Nat /\ Lost(id) \in Nat
<1>1. losses[id] \in Nat /\ LossAssets \in Nat
  BY Terms DEF RunnerTypes
<1> QED BY <1>1, Products DEF Lost

\* A step that stands still keeps what holds of the policies.
LEMMA StillChain ==
  ASSUME RunnerTypes, ChainInv, Still
  PROVE  ChainInv'
<1>1. ASSUME NEW id \in PolicyIds, OwnPolicyInv(id) PROVE OwnPolicyInv(id)'
  <2>1. opening'[id] = opening[id] /\ OpenedBy(id, opening[id].tx)'
    BY <1>1, OpenedByKept DEF Still, OwnPolicyInv
  <2> QED BY <1>1, <2>1 DEF OwnPolicyInv, Still, vars, vaultVars, managerVars, Lost, PolicyValue,
                            PreviewRedeem
<1> QED BY <1>1 DEF ChainInv, Own, Exists, Still, vars, managerVars

\* What others do keeps what holds of the policies: whoever executes one found it
\* breached, so it has been through a loss.
LEMMA OthersChain ==
  ASSUME IndInv, RunnerTypes, ChainInv, OthersStep
  PROVE  ChainInv'
<1>1. TxsKept
  BY LenProperties DEF OthersStep, TxsKept, RunnerTypes
<1>2. ASSUME NEW id \in PolicyIds, Own(id), OwnPolicyInv(id), Moves(id) PROVE OwnPolicyInv(id)'
  <2>1. opening'[id] = opening[id] /\ OpenedBy(id, opening[id].tx)' /\ losses'[id] = losses[id]
    BY <1>1, <1>2, OpenedByKept DEF OthersStep, OwnPolicyInv
  <2>2. opening[id] # Nothing /\ policies'[id].triggerAssets = TriggerAssets(Principal, LossLimit)
    BY <1>2 DEF OwnPolicyInv, Moves
  <2>3. opening'[id].before.sink + Lost(id)' <= usdc'[LossSink]
    <3>1. opening[id].before.sink \in Nat /\ Lost(id) \in Nat /\ Lost(id)' = Lost(id)
      BY <2>1, <2>2, LostType DEF RunnerTypes, Openings, Snapshots, Lost
    <3>2. usdc[LossSink] \in Nat /\ usdc'[LossSink] \in Nat
      BY Terms DEF OthersStep, IndInv, TypeOK, VaultTypeOK
    <3> QED BY <1>2, <2>1, <3>1, <3>2 DEF OwnPolicyInv, OthersStep
  <2>4. CASE policies'[id] = policies[id]
             /\ (policies[id].status = "Active" => PolicyValue(id) <= PolicyValue(id)')
    <3>1. ASSUME policies[id].status = "Active", losses[id] = 0
          PROVE  policies[id].triggerAssets < PolicyValue(id)'
      <4>1. IsActive(id) /\ IsActive(id)'
        BY <1>2, <2>4, <3>1, OwnExists DEF IsActive, Exists
      <4>2. /\ policies[id].vault \in Vaults /\ policies[id].shares \in Nat
            /\ policies[id].triggerAssets \in Nat
        BY <4>1, ActivePolicyFacts, ChainTypes DEF Policy
      <4>3. PolicyValue(id) \in Nat
        BY <4>2, ConversionsType, ChainTypes, AccountsFacts DEF PolicyValue, PreviewRedeem
      <4>4. usdc' \in [Accounts -> Nat] /\ supply' \in [Vaults -> Nat]
        BY DEF OthersStep, IndInv, TypeOK, VaultTypeOK
      <4>5. PolicyValue(id)' \in Nat
        BY <2>4, <4>2, <4>4, ConversionsType, AccountsFacts DEF PolicyValue, PreviewRedeem
      <4>6. policies[id].triggerAssets < PolicyValue(id)
        BY <1>2, <3>1 DEF OwnPolicyInv
      <4> QED BY <2>4, <3>1, <4>2, <4>3, <4>5, <4>6
    <3> QED BY <1>2, <2>1, <2>2, <2>3, <2>4, <3>1 DEF OwnPolicyInv
  <2>5. CASE /\ policies[id].status = "Active"
             /\ policies'[id].status \in {"Executed", "Cancelled", "Expired"}
             /\ policies'[id].triggerAssets = policies[id].triggerAssets
             /\ policies'[id].status = "Executed" =>
                   /\ PolicyValue(id) <= policies[id].triggerAssets
                   /\ policies'[id].assetsReturned = PolicyValue(id)
    <3>1. ASSUME policies'[id].status = "Executed"
          PROVE  losses'[id] >= 1 /\ policies'[id].assetsReturned <= policies'[id].triggerAssets
      <4>1. IsActive(id)
        BY <1>2, <2>5, OwnExists
      <4>2. /\ policies[id].vault \in Vaults /\ policies[id].shares \in Nat
            /\ policies[id].triggerAssets \in Nat
        BY <4>1, ActivePolicyFacts, ChainTypes DEF Policy
      <4>3. PolicyValue(id) \in Nat
        BY <4>2, ConversionsType, ChainTypes, AccountsFacts DEF PolicyValue, PreviewRedeem
      <4>4. losses[id] # 0
        BY <1>2, <2>5, <3>1, <4>2, <4>3 DEF OwnPolicyInv
      <4> QED BY <2>1, <2>5, <3>1, <4>4, LostType
    <3> QED BY <2>1, <2>2, <2>3, <2>5, <3>1 DEF OwnPolicyInv
  <2> QED BY <1>2, <2>4, <2>5 DEF Moves
<1> QED BY <1>2 DEF ChainInv, OthersStep

\* An opening keeps what holds of the policies.
LEMMA OpensForChain ==
  ASSUME IndInv, RunnerTypes, ChainInv, NEW n \in 1..Len(txs), NEW new \in PolicyIds,
         OpensFor(n, new)
  PROVE  ChainInv'
<1>1. /\ ~ Own(new) /\ losses[new] = 0 /\ Own(new)'
      /\ \A id \in PolicyIds : id # new => policies'[id] = policies[id]
      /\ policies'[new].vault = DemoVault
  BY Terms DEF OpensFor, Opens, Own, ChainInv
<1>2. TxsKept /\ losses' = losses /\ executor' = executor
  <2>1. Len(txs) \in Nat
    BY LenProperties DEF RunnerTypes
  <2> QED BY <2>1 DEF OpensFor, Mined, TxsKept
<1>3. /\ usdc[LossSink] <= usdc'[LossSink]
      /\ usdc[LossSink] \in Nat /\ usdc'[LossSink] \in Nat
  BY Terms DEF OpensFor, IndInv, TypeOK, VaultTypeOK
<1>4. ASSUME NEW id \in PolicyIds, id # new, Own(id), OwnPolicyInv(id) PROVE OwnPolicyInv(id)'
  <2>1. Moves(id)
    BY <1>1, <1>2, <1>4, Untouched DEF OpensFor
  <2>2. opening'[id] = opening[id]
    BY <1>4 DEF OpensFor
  <2>3. /\ opening'[id] # Nothing /\ OpenedBy(id, opening[id].tx)'
        /\ opening[id].before.sink + Lost(id) <= usdc[LossSink]
    BY <1>2, <1>4, <2>2, OpenedByKept DEF OwnPolicyInv
  <2>4. opening'[id].before.sink + Lost(id)' <= usdc'[LossSink]
    <3>1. opening[id].before.sink \in Nat /\ Lost(id) \in Nat /\ Lost(id)' = Lost(id)
      BY <1>2, <2>2, <2>3, LostType DEF RunnerTypes, Openings, Snapshots, Lost
    <3> QED BY <1>3, <2>2, <2>3, <3>1
  <2>5. ASSUME policies[id].status = "Active", losses[id] = 0
        PROVE  policies[id].triggerAssets < PolicyValue(id)'
    <3>1. IsActive(id) /\ IsActive(id)'
      BY <1>1, <1>4, <2>5, OwnExists DEF IsActive, Exists
    <3>2. /\ policies[id].vault \in Vaults /\ policies[id].shares \in Nat
          /\ policies[id].triggerAssets \in Nat
      BY <3>1, ActivePolicyFacts, ChainTypes DEF Policy
    <3>3. PolicyValue(id) \in Nat
      BY <3>2, ConversionsType, ChainTypes, AccountsFacts DEF PolicyValue, PreviewRedeem
    <3>4. usdc' \in [Accounts -> Nat] /\ supply' \in [Vaults -> Nat]
      BY DEF OpensFor, IndInv, TypeOK, VaultTypeOK
    <3>5. PolicyValue(id)' \in Nat
      BY <1>1, <1>4, <3>2, <3>4, ConversionsType, AccountsFacts DEF PolicyValue, PreviewRedeem
    <3>6. policies[id].triggerAssets < PolicyValue(id) /\ PolicyValue(id) <= PolicyValue(id)'
      <4>1. PolicyValue(id) <= PolicyValue(id)'
        BY <2>1, <2>5, <1>1, <1>4 DEF Moves
      <4> QED BY <1>4, <2>5, <4>1 DEF OwnPolicyInv
    <3> QED BY <3>2, <3>3, <3>5, <3>6
  <2> QED BY <1>1, <1>2, <1>4, <2>2, <2>3, <2>4, <2>5 DEF OwnPolicyInv
<1>5. OwnPolicyInv(new)'
  <2>1. Lost(new)' = 0
    BY <1>1, <1>2, Terms DEF Lost
  <2>2. opening'[new] # Nothing /\ opening'[new].tx = n /\ opening'[new].before.sink = usdc[LossSink]
    BY DEF OpensFor
  <2>3. OpenedBy(new, n)'
    BY <2>2 DEF OpensFor, Mined, OpenedBy
  <2>4. /\ policies'[new].triggerAssets = TriggerAssets(Principal, LossLimit)
        /\ policies'[new].status = "Active" /\ policies'[new].triggerAssets < PolicyValue(new)'
    BY DEF OpensFor, Opens
  <2>5. opening'[new].before.sink + Lost(new)' <= usdc'[LossSink]
    BY <1>3, <2>1, <2>2
  <2> QED BY <2>2, <2>3, <2>4, <2>5 DEF OwnPolicyInv
<1>6. ASSUME NEW id \in PolicyIds, id # new
      PROVE  /\ Exists(id)' => policies'[id].vault = DemoVault
             /\ Own(id)' <=> Own(id)
  BY <1>1, <1>6 DEF ChainInv, Own, Exists
<1> QED BY <1>1, <1>2, <1>4, <1>5, <1>6 DEF ChainInv

\* The loss keeps what holds of the policies: it is counted for each one it hits.
LEMMA LosesChain ==
  ASSUME IndInv, RunnerTypes, ChainInv, NEW n \in 1..Len(txs), Loses(n)
  PROVE  ChainInv'
<1>1. policies' = policies /\ opening' = opening /\ TxsKept
  <2>1. Len(txs) \in Nat
    BY LenProperties DEF RunnerTypes
  <2> QED BY <2>1 DEF Loses, Mined, TxsKept, managerVars
<1>2. ASSUME NEW id \in PolicyIds, Own(id), OwnPolicyInv(id) PROVE OwnPolicyInv(id)'
  <2>1. PICK hits \in {0, 1} : /\ losses'[id] = losses[id] + hits
                               /\ hits = 0 => id \notin OwnActive
                               /\ hits = 1 => id \in OwnActive
    BY DEF Loses
  <2>2. losses[id] \in Nat /\ Lost(id) \in Nat /\ LossAssets \in Nat
    BY LostType, Terms
  <2>3. Lost(id)' = Lost(id) + LossAssets * hits /\ LossAssets * hits <= LossAssets
        /\ LossAssets * hits \in Nat
    <3>1. LossAssets * (losses[id] + hits) = LossAssets * losses[id] + LossAssets * hits
      BY <2>1, <2>2
    <3>2. hits = 0 => LossAssets * hits = 0
      BY <2>2
    <3>3. hits = 1 => LossAssets * hits = LossAssets
      BY <2>2
    <3> QED BY <2>1, <2>2, <3>1, <3>2, <3>3 DEF Lost
  <2>4. opening'[id] # Nothing /\ OpenedBy(id, opening[id].tx)'
    BY <1>1, <1>2, OpenedByKept DEF OwnPolicyInv
  <2>5. opening[id].before.sink \in Nat
    BY <1>1, <2>4 DEF RunnerTypes, Openings, Snapshots
  <2>6. opening'[id].before.sink + Lost(id)' <= usdc'[LossSink]
    <3>1. usdc[LossSink] \in Nat /\ usdc'[LossSink] = usdc[LossSink] + LossAssets
      BY Terms, ChainTypes DEF Loses
    <3>2. opening[id].before.sink + Lost(id) <= usdc[LossSink]
      BY <1>2 DEF OwnPolicyInv
    <3>3. PICK more \in Nat : Lost(id)' = Lost(id) + more /\ more <= LossAssets
      BY <2>3
    <3>4. opening'[id].before.sink = opening[id].before.sink
      BY <1>1
    <3> QED BY SMTT(30), <2>2, <2>5, <3>1, <3>2, <3>3, <3>4
  <2>7. policies[id].status = "Active" => losses'[id] # 0
    BY <1>2, <2>1, <2>2 DEF OwnActive, Own
  <2>8. policies[id].status = "Executed" => losses'[id] >= 1
    BY <1>2, <2>1, <2>2 DEF OwnPolicyInv
  <2> QED BY <1>1, <1>2, <2>4, <2>6, <2>7, <2>8 DEF OwnPolicyInv
<1>3. ASSUME NEW id \in PolicyIds, ~ Own(id) PROVE losses'[id] = losses[id]
  <2>1. id \notin OwnActive /\ losses[id] \in Nat
    BY <1>3, LostType DEF OwnActive, Own
  <2> QED BY <2>1 DEF Loses
<1> QED BY <1>1, <1>2, <1>3 DEF ChainInv, Own, Exists

-----------------------------------------------------------------------------
(* What the chain does keeps what the runner knows.                         *)

\* A step of the chain leaves the runner, and the wallet's settled policies, alone.
Keeps ==
    /\ UNCHANGED runnerVars /\ TxsKept /\ Len(txs') = Len(txs)
    /\ \A id \in PolicyIds : Own(id) =>
          /\ Own(id)' /\ opening'[id] = opening[id]
          /\ policies[id].status # "Active" =>
                policies'[id] = policies[id] /\ executor'[id] = executor[id]
                /\ losses'[id] = losses[id]

\* Besides, it opens no policy for the wallet and applies no loss.
Calm ==
    /\ Keeps /\ losses' = losses
    /\ \A n \in 1..Len(txs) :
          txs[n].kind = "open" /\ txs'[n].result = "success" => txs[n].result = "success"
    /\ OwnActive' \subseteq OwnActive /\ Owned' \subseteq Owned
    /\ usdc[LossSink] \in Nat /\ usdc'[LossSink] \in Nat /\ usdc[LossSink] <= usdc'[LossSink]
    /\ usdc[DemoVault] \in Nat /\ usdc'[DemoVault] \in Nat
    /\ inflow' \in Nat /\ inflow <= inflow'
    /\ usdc'[DemoVault] + inflow <= usdc[DemoVault] + inflow'

\* The two balances that the invariant speaks of.
LEMMA Balances ==
  ASSUME IndInv, IndInv'
  PROVE  /\ usdc[LossSink] \in Nat /\ usdc'[LossSink] \in Nat
         /\ usdc[DemoVault] \in Nat /\ usdc'[DemoVault] \in Nat
BY Terms DEF IndInv, TypeOK, VaultTypeOK

\* Mining a pending transaction keeps the others.
LEMMA MinedKeepsTxs ==
  ASSUME RunnerTypes, NEW n \in 1..Len(txs), txs[n].result = "pending", NEW result, NEW amount,
         Mined(n, result, amount)
  PROVE  TxsKept /\ Len(txs') = Len(txs)
<1>1. Len(txs) \in Nat
  BY LenProperties DEF RunnerTypes
<1> QED BY <1>1 DEF Mined, TxsKept

\* The moves of others are calm.
LEMMA OthersCalm ==
  ASSUME IndInv, RunnerTypes, OthersStep
  PROVE  Calm /\ RunnerTypes'
<1>1. TxsKept /\ Len(txs') = Len(txs) /\ txs' = txs
  BY LenProperties DEF OthersStep, TxsKept, RunnerTypes
<1>2. ASSUME NEW id \in PolicyIds, Own(id)
      PROVE  /\ Own(id)'
             /\ policies[id].status # "Active" =>
                   policies'[id] = policies[id] /\ executor'[id] = executor[id]
             /\ policies'[id].status = "Active" => policies[id].status = "Active"
  BY <1>2 DEF OthersStep, Moves
<1>3. Keeps
  BY <1>1, <1>2 DEF Keeps, OthersStep
<1>4. OwnActive' \subseteq OwnActive
  BY <1>2 DEF OwnActive, OthersStep, Own
<1>5. Owned' \subseteq Owned
  BY DEF Owned, OthersStep
<1>6. Calm
  BY <1>1, <1>3, <1>4, <1>5, Balances DEF Calm, OthersStep
<1> QED BY <1>6 DEF RunnerTypes, OthersStep, runnerVars

\* A transaction without effect is calm.
LEMMA IneffectiveCalm ==
  ASSUME IndInv, RunnerTypes, NEW n \in 1..Len(txs), Ineffective(n)
  PROVE  Calm /\ Still /\ RunnerTypes' /\ IndInv'
<1>1. PICK result \in {"success", "reverted"} :
         Mined(n, result, txs[n].amount) /\ (txs[n].kind # "approve" => result = "reverted")
  BY DEF Ineffective
<1>2. /\ txs[n].result = "pending" /\ allowance' \in Nat
      /\ UNCHANGED <<vars, opening, executor, losses, inflow, runnerVars>>
  BY DEF Ineffective
<1>3. TxsKept /\ Len(txs') = Len(txs)
  BY <1>1, <1>2, MinedKeepsTxs
<1>4. IndInv' /\ policies' = policies /\ usdc' = usdc /\ treasury' = treasury
  <2>1. [Next]_vars
    BY <1>2
  <2>2. IndInv'
    BY <2>1, NextIndInv
  <2> QED BY <1>2, <2>2 DEF vars, managerVars, vaultVars, adminVars
<1>5. Keeps
  BY <1>2, <1>3, <1>4 DEF Keeps, Own
<1>6. Calm
  <2>1. \A m \in 1..Len(txs) :
           txs[m].kind = "open" /\ txs'[m].result = "success" => txs[m].result = "success"
    BY <1>1 DEF Mined
  <2>2. inflow \in Nat
    BY DEF RunnerTypes
  <2>3. OwnActive' = OwnActive /\ Owned' = Owned
    BY <1>4 DEF OwnActive, Owned, Own
  <2> QED BY <1>2, <1>4, <1>5, <2>1, <2>2, <2>3, Balances DEF Calm
<1> QED BY <1>2, <1>3, <1>4, <1>6 DEF Still, RunnerTypes, runnerVars, TxsKept

\* An opening keeps the types and what is settled.
LEMMA OpensForKeeps ==
  ASSUME IndInv, RunnerTypes, NEW n \in 1..Len(txs), NEW new \in PolicyIds, OpensFor(n, new)
  PROVE  Keeps /\ RunnerTypes'
<1>1. TxsKept /\ Len(txs') = Len(txs)
  BY MinedKeepsTxs DEF OpensFor
<1>2. /\ ~ Own(new) /\ treasury' = treasury
      /\ \A id \in PolicyIds : id # new => policies'[id] = policies[id]
  BY Terms DEF OpensFor, Opens, Own
<1>3. Keeps
  BY <1>1, <1>2 DEF Keeps, OpensFor, Own
<1> QED BY <1>1, <1>2, <1>3 DEF OpensFor, RunnerTypes, runnerVars, TxsKept

\* A loss keeps the types and what is settled.
LEMMA LosesKeeps ==
  ASSUME IndInv, RunnerTypes, NEW n \in 1..Len(txs), Loses(n)
  PROVE  Keeps /\ RunnerTypes'
<1>1. TxsKept /\ Len(txs') = Len(txs)
  BY MinedKeepsTxs DEF Loses
<1>2. policies' = policies /\ treasury' = treasury /\ executor' = executor /\ opening' = opening
      /\ UNCHANGED runnerVars
  BY DEF Loses, managerVars, adminVars
<1>3. ASSUME NEW id \in PolicyIds, policies[id].status # "Active"
      PROVE  losses'[id] = losses[id]
  <2>1. id \notin OwnActive /\ losses[id] \in Nat
    BY <1>3, LostType DEF OwnActive
  <2> QED BY <2>1 DEF Loses
<1>4. Keeps
  BY <1>1, <1>2, <1>3 DEF Keeps, Own
<1>5. losses' \in [PolicyIds -> Nat]
  BY DEF Loses, RunnerTypes
<1> QED BY <1>1, <1>2, <1>4, <1>5 DEF Loses, RunnerTypes, runnerVars, TxsKept

\* The chain's steps keep what the runner knows of its transactions and its policy.
LEMMA KeepsTrack ==
  ASSUME RunnerTypes, TrackInv, Keeps
  PROVE  TrackInv'
<1>1. UNCHANGED runnerVars /\ pc' = pc /\ mem' = mem
  BY DEF Keeps, runnerVars
<1>2. ASSUME NEW kind, NEW n, Holds(kind, n) PROVE Holds(kind, n)'
  BY <1>2 DEF Keeps, TxsKept, Holds
<1>3. ASSUME NEW n, Holds("loss", n), txs[n].result = "success" PROVE txs'[n].result = "success"
  BY <1>3 DEF Keeps, TxsKept, Holds
<1>4. ASSUME pc \in Settled
      PROVE  /\ policies'[mem.policyId] = policies[mem.policyId]
             /\ executor'[mem.policyId] = executor[mem.policyId]
             /\ Lost(mem.policyId)' = Lost(mem.policyId)
             /\ opening'[mem.policyId] = opening[mem.policyId]
  BY <1>1, <1>4 DEF Keeps, TrackInv, Settled, Verified, Lost
<1>5. pc \in Breached => pc \in Lossy
  BY DEF Breached, Lossy
<1>6. pc = "writing" => SettlementHolds'
  BY <1>1, <1>4 DEF TrackInv, SettlementHolds, Settled
<1>7. pc \in Settled =>
          /\ policies'[mem.policyId].status = "Executed"
          /\ ReadAt("settling", "sink")' =>
                opening'[mem.policyId].before.sink + Lost(mem.policyId)' <= mem.final.sink
  BY <1>1, <1>4 DEF TrackInv, ReadAt
<1>8. \A id \in PolicyIds : policies[id].owner = Wallet => policies'[id].owner = Wallet
  BY DEF Keeps, Own
<1>9. /\ pc = "approving" => Holds("approve", mem.tx)'
      /\ pc = "opening" => Holds("open", mem.tx)'
      /\ pc \in Opened => Holds("open", mem.openTx)'
      /\ pc \in Lossy => Holds("loss", mem.tx)'
      /\ pc \in Breached => txs'[mem.tx].result = "success"
  BY <1>1, <1>2, <1>3, <1>5 DEF TrackInv
<1>10. /\ pc \in {"scanning", "starting"} /\ mem.policyId # 0 =>
            mem.policyId \in PolicyIds /\ Own(mem.policyId)'
       /\ pc \in Verified \cup {"recover"} => mem.policyId \in PolicyIds /\ Own(mem.policyId)'
       /\ pc = "reading" => mem.policyId = 0 /\ mem.scan = 1
       /\ pc = "off" => mem = NoMem
  BY <1>1, <1>8 DEF TrackInv, Own
<1> QED BY <1>1, <1>6, <1>7, <1>9, <1>10 DEF TrackInv

\* The chain's steps keep a policy's opening identified.
LEMMA KeepsIdentified ==
  ASSUME RunnerTypes, Keeps, NEW id \in PolicyIds, Own(id), NEW n, Identified(id, n)
  PROVE  Identified(id, n)'
<1>1. opening'[id] = opening[id] /\ mem' = mem /\ TxsKept
  BY DEF Keeps, runnerVars
<1>2. OpenedBy(id, n)'
  BY <1>1, OpenedByKept DEF Identified
<1> QED BY <1>1, <1>2 DEF Identified

\* The chain's steps keep the evidence truthful.
LEMMA KeepsEvidence ==
  ASSUME RunnerTypes, "opening" \notin abandoned => ContinuationInv, EvidenceInv, Keeps
  PROVE  EvidenceInv'
<1>1. evidence' = evidence /\ pc' = pc /\ abandoned' = abandoned /\ TxsKept /\ Len(txs') = Len(txs)
  BY DEF Keeps, runnerVars
<1>2. SUFFICES ASSUME evidence # Nothing PROVE EvidenceInv'
  BY <1>1 DEF EvidenceInv
<1>3. PICK id, n, m : id = evidence.policyId /\ n = evidence.openTx /\ m = evidence.lossTx
  OBVIOUS
<1>4. /\ pc = "off" /\ id \in PolicyIds /\ n \in 1..Len(txs) /\ m \in 1..Len(txs)
      /\ EvidenceTruthful
  BY <1>2, <1>3 DEF EvidenceInv
<1>5. /\ Own(id) /\ policies[id].status = "Executed"
      /\ txs[m].result = "success"
  BY <1>2, <1>3, <1>4 DEF EvidenceTruthful, Own
<1>6. policies'[id] = policies[id] /\ executor'[id] = executor[id] /\ losses'[id] = losses[id]
  BY <1>4, <1>5 DEF Keeps
<1>7. txs'[m] = txs[m] /\ txs'[n].kind = txs[n].kind
  BY <1>1, <1>4, <1>5 DEF TxsKept
<1>8. "opening" \notin abandoned => txs'[n] = txs[n]
  <2>1. "opening" \notin abandoned => txs[n].result # "pending"
    BY <1>2, <1>3, <1>4 DEF ContinuationInv, EvidenceTruthful
  <2> QED BY <1>1, <1>4, <2>1 DEF TxsKept
<1>9. EvidenceTruthful'
  BY <1>1, <1>2, <1>3, <1>4, <1>6, <1>7, <1>8 DEF EvidenceTruthful
<1> QED BY <1>1, <1>3, <1>4, <1>9 DEF EvidenceInv

\* No transaction becomes pending again.
LEMMA StillPending ==
  ASSUME Keeps, NEW n \in 1..Len(txs), txs'[n].result = "pending"
  PROVE  txs[n].result = "pending" /\ txs'[n].kind = txs[n].kind
BY DEF Keeps, TxsKept

\* Before its opening the runner stays before it, and after it after it, unless the
\* opening is mined.
LEMMA PhasesKept ==
  ASSUME RunnerTypes, TrackInv, Keeps
  PROVE  /\ NoneYet' => NoneYet
         /\ BeforeOpening' => BeforeOpening
         /\ BeforeLoss' => BeforeLoss
<1>1. pc' = pc /\ mem' = mem
  BY DEF Keeps, runnerVars
<1>2. pc \in {"opening", "losing"} => mem.tx \in 1..Len(txs)
  BY DEF TrackInv, Holds, Lossy
<1>3. pc \in {"opening", "losing"} /\ txs'[mem.tx].result = "pending" =>
         txs[mem.tx].result = "pending"
  BY <1>2, StillPending
<1> QED BY <1>1, <1>3 DEF NoneYet, BeforeOpening, BeforeLoss, Receipt

\* A calm step keeps what the runner knows of its opening.
LEMMA CalmContinuation ==
  ASSUME IndInv, RunnerTypes, TrackInv, ContinuationInv, Calm
  PROVE  ContinuationInv'
<1>1. pc' = pc /\ mem' = mem /\ Keeps /\ Len(txs') = Len(txs)
  BY DEF Calm, Keeps, runnerVars
<1>2. \A n \in 1..Len(txs') :
         txs'[n].kind = "open" /\ txs'[n].result = "pending" => pc' = "opening" /\ mem'.tx = n
  BY <1>1, StillPending DEF ContinuationInv
<1>3. \A id \in OwnActive' : id \in OwnActive /\ id \in PolicyIds /\ Own(id)
  BY DEF Calm, OwnActive, Own
<1>4. NewestActive'
  BY <1>3 DEF Calm, ContinuationInv, NewestActive
<1>5. BeforeOpening' /\ ReadAt("reading", "sink")' => mem'.before.sink <= usdc'[LossSink]
  <2>1. mem.before.sink \in Nat
    BY DEF RunnerTypes, Memories, Snapshots
  <2>2. BeforeOpening' /\ ReadAt("reading", "sink")' => mem.before.sink <= usdc[LossSink]
    BY <1>1, PhasesKept DEF ContinuationInv, ReadAt
  <2> QED BY <1>1, <2>1, <2>2 DEF Calm
<1>6. pc' = "opening" /\ Receipt'.result = "success" => \A id \in OwnActive' : Identified(id, mem.tx)'
  <2>1. ASSUME pc = "opening", txs'[mem.tx].result = "success" PROVE txs[mem.tx].result = "success"
    BY <2>1 DEF Calm, TrackInv, Holds
  <2>2. ASSUME pc = "opening", txs'[mem.tx].result = "success", NEW id \in OwnActive'
        PROVE  Identified(id, mem.tx)'
    BY <1>1, <1>3, <2>1, <2>2, KeepsIdentified DEF ContinuationInv, Receipt
  <2> QED BY <1>1, <2>2 DEF Receipt
<1>7. pc' \in {"opened", "verify"} => \A id \in OwnActive' : Identified(id, mem.openTx)'
  <2>1. ASSUME pc \in {"opened", "verify"}, NEW id \in OwnActive' PROVE Identified(id, mem.openTx)'
    BY <1>1, <1>3, <2>1, KeepsIdentified DEF ContinuationInv
  <2> QED BY <1>1, <2>1
<1>8. pc' \in Verified => Identified(mem.policyId, mem.openTx)'
  <2>1. ASSUME pc \in Verified PROVE Identified(mem.policyId, mem.openTx)'
    <3>1. mem.policyId \in PolicyIds /\ Own(mem.policyId) /\ Identified(mem.policyId, mem.openTx)
      BY <2>1 DEF ContinuationInv, TrackInv
    <3> QED BY <1>1, <3>1, KeepsIdentified
  <2> QED BY <1>1, <2>1
<1>9. /\ pc' = "reading" /\ "counter" \notin mem'.unread =>
            \A id \in OwnActive' : id < mem'.before.counter
      /\ pc' = "scanning" =>
            \A id \in OwnActive' :
               id < mem'.before.counter /\ (id < mem'.scan => id = mem'.policyId)
      /\ pc' = "starting" => OwnActive' \subseteq {mem'.policyId} \ {0}
      /\ NoneYet' => OwnActive' = {}
      /\ pc' = "recover" => OwnActive' \subseteq {mem'.policyId}
  BY <1>1, <1>3, PhasesKept DEF ContinuationInv
<1> QED BY <1>2, <1>4, <1>5, <1>6, <1>7, <1>8, <1>9 DEF ContinuationInv

\* A calm step keeps what the vault can hold.
LEMMA CalmVault ==
  ASSUME IndInv, RunnerTypes, TrackInv, VaultInv, Calm
  PROVE  VaultInv'
<1>1. pc' = pc /\ mem' = mem /\ Keeps
  BY DEF Calm, Keeps, runnerVars
<1>2. Principal \in Nat /\ inflow \in Nat /\ mem.before.vault \in Nat
  BY Terms DEF RunnerTypes, Memories, Snapshots
<1>3. ASSUME NEW id \in OwnActive' PROVE usdc'[DemoVault] + Lost(id)' <= Principal + inflow'
  <2>1. id \in OwnActive /\ id \in PolicyIds /\ Lost(id)' = Lost(id) /\ Lost(id) \in Nat
    BY LostType DEF Calm, OwnActive, Lost
  <2>2. usdc[DemoVault] + Lost(id) <= Principal + inflow
    BY <2>1 DEF VaultInv
  <2> QED BY <1>2, <2>1, <2>2 DEF Calm
<1>4. BeforeOpening' /\ ReadAt("reading", "vault")' =>
         usdc'[DemoVault] <= mem'.before.vault + inflow'
  <2>1. BeforeOpening' /\ ReadAt("reading", "vault")' =>
           usdc[DemoVault] <= mem.before.vault + inflow
    BY <1>1, PhasesKept DEF VaultInv, ReadAt
  <2> QED BY <1>1, <1>2, <2>1 DEF Calm
<1>5. NoneYet' \/ (pc' = "starting" /\ mem'.policyId = 0) => mem'.before.vault = 0
  BY <1>1, PhasesKept DEF VaultInv
<1> QED BY <1>3, <1>4, <1>5 DEF VaultInv

\* A calm step keeps what the losses can be.
LEMMA CalmLoss ==
  ASSUME IndInv, RunnerTypes, TrackInv, LossInv, Calm
  PROVE  LossInv'
<1>1. pc' = pc /\ mem' = mem /\ Keeps /\ losses' = losses /\ Len(txs') = Len(txs)
  BY DEF Calm, Keeps, runnerVars
<1>2. Principal \in Nat /\ inflow \in Nat /\ mem.before.vault \in Nat /\ LossAssets \in Nat
      /\ inflow' \in Nat /\ inflow <= inflow'
  BY Terms DEF RunnerTypes, Memories, Snapshots, Calm
<1>3. ASSUME NEW id \in OwnActive'
      PROVE  /\ id \in OwnActive /\ id \in PolicyIds
             /\ Lost(id)' = Lost(id) /\ Lost(id) \in Nat
  BY LostType DEF Calm, OwnActive, Lost
<1>4. \A n \in 1..Len(txs') :
         txs'[n].kind = "loss" /\ txs'[n].result = "pending" => pc' = "losing" /\ mem'.tx = n
  BY <1>1, StillPending DEF LossInv
<1>5. ASSUME pc \in {"reading", "scanning", "starting"}, ReadAt("reading", "vault"),
             NEW id \in OwnActive'
      PROVE  mem.before.vault + Lost(id)' <= Principal + inflow'
  <2>1. mem.before.vault + Lost(id) <= Principal + inflow
    BY <1>3, <1>5 DEF LossInv
  <2> QED BY <1>2, <1>3, <2>1
<1>6. ASSUME BeforeLoss', NEW id \in OwnActive' PROVE Lost(id)' <= inflow'
  <2>1. Lost(id) <= inflow
    BY <1>1, <1>3, <1>6, PhasesKept DEF LossInv
  <2> QED BY <1>2, <1>3, <2>1
<1>7. inflow' < LossAssets => \A id \in PolicyIds : losses'[id] <= 1
  BY <1>1, <1>2 DEF LossInv
<1>8. pc' = "starting" /\ mem'.policyId # 0 => mem'.before.vault = Principal
  BY <1>1 DEF LossInv
<1>9. pc' \in {"reading", "scanning", "starting"} /\ ReadAt("reading", "vault")' =>
         \A id \in OwnActive' : mem'.before.vault + Lost(id)' <= Principal + inflow'
  BY <1>1, <1>5 DEF ReadAt
<1> QED BY <1>4, <1>6, <1>7, <1>8, <1>9 DEF LossInv

\* The wallet's opening is mined while the runner waits for it, so it is the only one.
LEMMA OpensForRest ==
  ASSUME IndInv, RunnerTypes, ChainInv, TrackInv, ContinuationInv, VaultInv,
         NEW n \in 1..Len(txs), NEW new \in PolicyIds, OpensFor(n, new)
  PROVE  ContinuationInv' /\ VaultInv' /\ (LossInv => LossInv')
<1>1. pc' = pc /\ mem' = mem /\ inflow' = inflow /\ losses' = losses
  BY DEF OpensFor, runnerVars
<1>2. Keeps /\ RunnerTypes' /\ Len(txs') = Len(txs)
  BY OpensForKeeps DEF Keeps
<1>3. pc = "opening" /\ mem.tx = n /\ txs[n].result = "pending" /\ txs[n].kind = "open"
  BY DEF OpensFor, ContinuationInv
<1>4. NoneYet /\ BeforeOpening /\ OwnActive = {} /\ mem.before.vault = 0
  BY <1>3 DEF NoneYet, BeforeOpening, Receipt, ContinuationInv, VaultInv
<1>5. /\ Mined(n, "success", new) /\ policies'[new].owner = Wallet
      /\ \A id \in PolicyIds : id # new => policies'[id] = policies[id]
  BY DEF OpensFor, Opens
<1>6. \A id \in OwnActive' : id = new
  BY <1>4, <1>5 DEF OwnActive
<1>7. txs'[n].result = "success" /\ ~ NoneYet' /\ ~ BeforeOpening'
  BY <1>1, <1>3, <1>5 DEF Mined, NoneYet, BeforeOpening, Receipt, Asked, Preparing
<1>8. \A m \in 1..Len(txs') :
         txs'[m].kind = "open" /\ txs'[m].result = "pending" => pc' = "opening" /\ mem'.tx = m
  BY <1>1, <1>2, StillPending DEF ContinuationInv
<1>9. Identified(new, n)'
  <2>1. mem.before.sink <= usdc[LossSink]
    BY <1>3, <1>4 DEF ContinuationInv, ReadAt
  <2>2. opening'[new] # Nothing /\ opening'[new].tx = n /\ opening'[new].before.sink = usdc[LossSink]
    BY DEF OpensFor
  <2>3. OpenedBy(new, n)'
    BY <1>5, <2>2 DEF Mined, OpenedBy, OpensFor
  <2> QED BY <1>1, <2>1, <2>2, <2>3 DEF Identified
<1>10. ContinuationInv'
  <2>1. \A id \in OwnActive' : Identified(id, mem.tx)'
    BY <1>1, <1>3, <1>6, <1>9
  <2>2. NewestActive'
    <3>1. ASSUME NEW j \in Owned' PROVE j <= new
      <4>1. j \in PolicyIds /\ Own(j)' /\ new = nextPolicyId /\ new \in Nat /\ j \in Nat
        BY <3>1, ChainTypes DEF Owned, OpensFor, Opens
      <4>2. CASE j # new
        <5>1. Exists(j)
          BY <1>5, <4>1, <4>2, OwnExists DEF Own
        <5> QED BY <4>1, <5>1, ChainTypes
      <4> QED BY <4>1, <4>2
    <3> QED BY <1>6, <3>1 DEF NewestActive
  <2>3. pc' = "opening" /\ pc' \notin Verified
    BY <1>1, <1>3 DEF Verified
  <2> QED BY <1>7, <1>8, <2>1, <2>2, <2>3 DEF ContinuationInv
<1>11. Lost(new)' = 0
  <2>1. losses[new] = 0
    BY Terms DEF OpensFor, Opens, ChainInv, Own
  <2> QED BY <1>1, <2>1, Terms DEF Lost
<1>12. Principal \in Nat /\ inflow \in Nat /\ usdc[DemoVault] \in Nat
       /\ usdc'[DemoVault] = usdc[DemoVault] + Principal
  BY Terms, ChainTypes DEF RunnerTypes, OpensFor
<1>13. VaultInv'
  <2>1. usdc[DemoVault] <= mem.before.vault + inflow
    BY <1>3, <1>4 DEF VaultInv, ReadAt
  <2>2. usdc'[DemoVault] + Lost(new)' <= Principal + inflow
    BY <1>4, <1>11, <1>12, <2>1
  <2>3. pc' # "starting"
    BY <1>1, <1>3
  <2> QED BY <1>1, <1>6, <1>7, <2>2, <2>3 DEF VaultInv
<1>14. ASSUME LossInv PROVE LossInv'
  <2>1. \A m \in 1..Len(txs') :
           txs'[m].kind = "loss" /\ txs'[m].result = "pending" => pc' = "losing" /\ mem'.tx = m
    BY <1>1, <1>2, <1>14, StillPending DEF LossInv
  <2>2. pc' = "opening"
    BY <1>1, <1>3
  <2>3. \A id \in OwnActive' : Lost(id)' <= inflow'
    BY <1>1, <1>6, <1>11, <1>12
  <2>4. inflow' < LossAssets => \A id \in PolicyIds : losses'[id] <= 1
    BY <1>1, <1>14 DEF LossInv
  <2> QED BY <2>1, <2>2, <2>3, <2>4 DEF LossInv
<1> QED BY <1>10, <1>13, <1>14

\* A loss leaves the runner's opening as it is.
LEMMA LosesContinuation ==
  ASSUME IndInv, RunnerTypes, TrackInv, ContinuationInv, NEW n \in 1..Len(txs), Loses(n)
  PROVE  ContinuationInv'
<1>1. pc' = pc /\ mem' = mem /\ Keeps /\ Len(txs') = Len(txs)
  BY LosesKeeps DEF Keeps, runnerVars
<1>2. OwnActive' = OwnActive /\ Owned' = Owned
  BY DEF Loses, managerVars, OwnActive, Owned, Own
<1>3. \A m \in 1..Len(txs') :
         txs'[m].kind = "open" /\ txs'[m].result = "pending" => pc' = "opening" /\ mem'.tx = m
  BY <1>1, StillPending DEF ContinuationInv
<1>4. NewestActive'
  BY <1>2 DEF ContinuationInv, NewestActive
<1>5. BeforeOpening' /\ ReadAt("reading", "sink")' => mem'.before.sink <= usdc'[LossSink]
  <2>1. mem.before.sink \in Nat /\ LossAssets \in Nat /\ usdc[LossSink] \in Nat
    BY Terms, ChainTypes DEF RunnerTypes, Memories, Snapshots
  <2>2. BeforeOpening' /\ ReadAt("reading", "sink")' => mem.before.sink <= usdc[LossSink]
    BY <1>1, PhasesKept DEF ContinuationInv, ReadAt
  <2>3. usdc'[LossSink] = usdc[LossSink] + LossAssets
    BY DEF Loses
  <2> QED BY <1>1, <2>1, <2>2, <2>3
<1>6. \A id \in OwnActive : id \in PolicyIds /\ Own(id)
  BY DEF OwnActive, Own
<1>7. pc' = "opening" /\ Receipt'.result = "success" => \A id \in OwnActive : Identified(id, mem.tx)'
  <2>1. ASSUME pc = "opening", txs'[mem.tx].result = "success" PROVE txs[mem.tx].result = "success"
    BY <2>1 DEF Loses, Mined, TrackInv, Holds
  <2>2. ASSUME pc = "opening", txs'[mem.tx].result = "success", NEW id \in OwnActive
        PROVE  Identified(id, mem.tx)'
    BY <1>1, <1>6, <2>1, <2>2, KeepsIdentified DEF ContinuationInv, Receipt
  <2> QED BY <1>1, <2>2 DEF Receipt
<1>8. pc' \in {"opened", "verify"} => \A id \in OwnActive : Identified(id, mem.openTx)'
  <2>1. ASSUME pc \in {"opened", "verify"}, NEW id \in OwnActive PROVE Identified(id, mem.openTx)'
    BY <1>1, <1>6, <2>1, KeepsIdentified DEF ContinuationInv
  <2> QED BY <1>1, <2>1
<1>9. pc' \in Verified => Identified(mem.policyId, mem.openTx)'
  <2>1. ASSUME pc \in Verified PROVE Identified(mem.policyId, mem.openTx)'
    <3>1. mem.policyId \in PolicyIds /\ Own(mem.policyId) /\ Identified(mem.policyId, mem.openTx)
      BY <2>1 DEF ContinuationInv, TrackInv
    <3> QED BY <1>1, <3>1, KeepsIdentified
  <2> QED BY <1>1, <2>1
<1>10. /\ pc' = "reading" /\ "counter" \notin mem'.unread =>
             \A id \in OwnActive' : id < mem'.before.counter
       /\ pc' = "scanning" =>
             \A id \in OwnActive' :
                id < mem'.before.counter /\ (id < mem'.scan => id = mem'.policyId)
       /\ pc' = "starting" => OwnActive' \subseteq {mem'.policyId} \ {0}
       /\ NoneYet' => OwnActive' = {}
       /\ pc' = "recover" => OwnActive' \subseteq {mem'.policyId}
  BY <1>1, <1>2, PhasesKept DEF ContinuationInv
<1> QED BY <1>2, <1>3, <1>4, <1>5, <1>7, <1>8, <1>9, <1>10 DEF ContinuationInv

\* What a loss does to one policy.
LEMMA LosesOne ==
  ASSUME RunnerTypes, NEW n \in 1..Len(txs), Loses(n), NEW id \in PolicyIds
  PROVE  /\ id \in OwnActive => losses'[id] = losses[id] + 1 /\ Lost(id)' = Lost(id) + LossAssets
         /\ id \notin OwnActive => losses'[id] = losses[id]
<1>1. losses[id] \in Nat /\ LossAssets \in Nat
  BY LostType, Terms
<1>2. losses'[id] = losses[id] + IF id \in OwnActive THEN 1 ELSE 0
  BY DEF Loses
<1>3. LossAssets * (losses[id] + 1) = LossAssets * losses[id] + LossAssets
  BY <1>1
<1> QED BY <1>1, <1>2, <1>3 DEF Lost

\* A loss leaves room in the vault for what was lost.
LEMMA LosesVault ==
  ASSUME IndInv, RunnerTypes, TrackInv, VaultInv, NEW n \in 1..Len(txs), Loses(n)
  PROVE  VaultInv'
<1>1. pc' = pc /\ mem' = mem /\ Keeps /\ inflow' = inflow
  BY LosesKeeps DEF Keeps, runnerVars, Loses
<1>2. /\ Principal \in Nat /\ inflow \in Nat /\ mem.before.vault \in Nat /\ LossAssets \in Nat
      /\ usdc[DemoVault] \in Nat /\ usdc'[DemoVault] = usdc[DemoVault] - LossAssets
  BY Terms, ChainTypes DEF RunnerTypes, Memories, Snapshots, Loses
<1>3. ASSUME NEW id \in OwnActive' PROVE usdc'[DemoVault] + Lost(id)' <= Principal + inflow'
  <2>1. id \in OwnActive /\ id \in PolicyIds
    BY DEF Loses, managerVars, OwnActive
  <2>2. usdc[DemoVault] + Lost(id) <= Principal + inflow /\ Lost(id) \in Nat
    BY <2>1, LostType DEF VaultInv
  <2>3. Lost(id)' = Lost(id) + LossAssets
    BY <2>1, LosesOne
  <2> QED BY <1>1, <1>2, <2>2, <2>3
<1>4. BeforeOpening' /\ ReadAt("reading", "vault")' =>
         usdc'[DemoVault] <= mem'.before.vault + inflow'
  <2>1. BeforeOpening' /\ ReadAt("reading", "vault")' =>
           usdc[DemoVault] <= mem.before.vault + inflow
    BY <1>1, PhasesKept DEF VaultInv, ReadAt
  <2> QED BY <1>1, <1>2, <2>1
<1>5. NoneYet' \/ (pc' = "starting" /\ mem'.policyId = 0) => mem'.before.vault = 0
  BY <1>1, PhasesKept DEF VaultInv
<1> QED BY <1>3, <1>4, <1>5 DEF VaultInv

\* A loss is mined while the runner waits for it, and was the first one unless others
\* filled the vault up.
LEMMA LosesLoss ==
  ASSUME IndInv, RunnerTypes, TrackInv, LossInv, NEW n \in 1..Len(txs), Loses(n)
  PROVE  LossInv'
<1>1. pc' = pc /\ mem' = mem /\ Keeps /\ inflow' = inflow /\ Len(txs') = Len(txs)
  BY LosesKeeps DEF Keeps, runnerVars, Loses
<1>2. pc = "losing" /\ mem.tx = n /\ txs[n].result = "pending"
  BY DEF Loses, LossInv
<1>3. txs'[n].result = "success"
  BY DEF Loses, Mined
<1>4. BeforeLoss /\ ~ BeforeLoss'
  BY <1>1, <1>2, <1>3 DEF BeforeLoss, Receipt, Asked
<1>5. ASSUME inflow < LossAssets, NEW id \in PolicyIds PROVE losses'[id] <= 1
  <2>1. CASE id \in OwnActive
    <3>1. Lost(id) <= inflow /\ Lost(id) \in Nat /\ losses[id] \in Nat /\ LossAssets \in Nat
          /\ inflow \in Nat
      BY <1>4, <2>1, LostType, Terms DEF LossInv, RunnerTypes
    <3>2. ASSUME 1 <= losses[id] PROVE FALSE
      <4>1. LossAssets <= Lost(id)
        BY <3>1, <3>2, Products DEF Lost
      <4> QED BY <1>5, <3>1, <4>1
    <3> QED BY <2>1, <3>1, <3>2, LosesOne
  <2>2. CASE id \notin OwnActive
    BY <1>5, <2>2, LosesOne DEF LossInv
  <2> QED BY <2>1, <2>2
<1>6. \A m \in 1..Len(txs') :
         txs'[m].kind = "loss" /\ txs'[m].result = "pending" => pc' = "losing" /\ mem'.tx = m
  BY <1>1, StillPending DEF LossInv
<1> QED BY <1>1, <1>2, <1>4, <1>5, <1>6 DEF LossInv

\* A step of the chain keeps the invariant when it keeps what speaks of the vault and
\* of the losses.
LEMMA KeepsInv ==
  ASSUME RunnerInv, Keeps, IndInv', RunnerTypes', ChainInv',
         ContinuationInv /\ VaultInv => ContinuationInv' /\ VaultInv',
         ContinuationInv /\ VaultInv /\ LossInv => LossInv'
  PROVE  RunnerInv'
<1>1. abandoned' = abandoned
  BY DEF Keeps, runnerVars
<1>2. TrackInv' /\ EvidenceInv'
  BY KeepsTrack, KeepsEvidence DEF RunnerInv
<1>3. abandoned = {} => "opening" \notin abandoned
  OBVIOUS
<1> QED BY <1>1, <1>2, <1>3 DEF RunnerInv

\* A calm step keeps the invariant.
LEMMA CalmInv ==
  ASSUME RunnerInv, Calm, IndInv', RunnerTypes', ChainInv'
  PROVE  RunnerInv'
<1>1. IndInv /\ RunnerTypes /\ TrackInv
  BY DEF RunnerInv
<1>2. /\ ContinuationInv => ContinuationInv'
      /\ VaultInv => VaultInv'
      /\ LossInv => LossInv'
  BY <1>1, CalmContinuation, CalmVault, CalmLoss
<1> QED BY <1>2, KeepsInv DEF Calm

\* Every step of the chain keeps the invariant.
LEMMA ChainStepInv ==
  ASSUME RunnerInv,
         GuardianExecutes \/ OtherExecutes \/ OthersAct \/ \E n \in 1..Len(txs) : Mine(n)
  PROVE  RunnerInv'
<1>1. IndInv /\ RunnerTypes /\ ChainInv /\ TrackInv
  BY DEF RunnerInv
<1>2. OneVault
  BY <1>1 DEF ChainInv, OneVault
<1>3. CASE GuardianExecutes \/ OtherExecutes \/ OthersAct
  <2>1. OthersStep
    BY <1>1, <1>2, <1>3, OthersFacts
  <2>2. Calm /\ RunnerTypes' /\ ChainInv' /\ IndInv'
    BY <1>1, <2>1, OthersCalm, OthersChain DEF OthersStep
  <2> QED BY <2>2, CalmInv
<1>4. ASSUME NEW n \in 1..Len(txs), Mine(n) PROVE RunnerInv'
  <2>1. CASE Ineffective(n)
    <3>1. Calm /\ Still /\ RunnerTypes' /\ IndInv'
      BY <1>1, <2>1, IneffectiveCalm
    <3>2. ChainInv'
      BY <1>1, <3>1, StillChain
    <3> QED BY <3>1, <3>2, CalmInv
  <2>2. CASE \E new \in PolicyIds : OpensFor(n, new)
    <3>1. PICK new \in PolicyIds : OpensFor(n, new)
      BY <2>2
    <3>2. Keeps /\ RunnerTypes' /\ ChainInv' /\ IndInv'
      BY <1>1, <3>1, OpensForKeeps, OpensForChain DEF OpensFor
    <3>3. ContinuationInv /\ VaultInv =>
             ContinuationInv' /\ VaultInv' /\ (LossInv => LossInv')
      BY <1>1, <3>1, OpensForRest
    <3> QED BY <3>2, <3>3, KeepsInv
  <2>3. CASE Loses(n)
    <3>1. Keeps /\ RunnerTypes' /\ ChainInv' /\ IndInv'
      BY <1>1, <2>3, LosesKeeps, LosesChain DEF Loses
    <3>2. /\ ContinuationInv => ContinuationInv'
          /\ VaultInv => VaultInv'
          /\ LossInv => LossInv'
      BY <1>1, <2>3, LosesContinuation, LosesVault, LosesLoss
    <3> QED BY <3>1, <3>2, KeepsInv
  <2> QED BY <1>1, <1>4, <2>1, <2>2, <2>3, MiningFacts
<1> QED BY <1>3, <1>4

-----------------------------------------------------------------------------
(* What the runner does keeps what it knows.                                *)

\* The runner's end: whatever is in flight then is put down.
Ends == /\ pc' = "off" /\ mem' = NoMem
        /\ UNCHANGED chainVars /\ abandoned \subseteq abandoned'
        /\ abandoned' \subseteq {"opening", "losing"}
        /\ pc = "opening" /\ Receipt.result = "pending" => "opening" \in abandoned'
        /\ pc = "losing" /\ Receipt.result = "pending" => "losing" \in abandoned'

\* The empty memory is one.
LEMMA NoMemType == NoMem \in Memories
  BY DEF NoMem, NotRead, Memories, Snapshots

\* Nothing changes on the chain.
LEMMA ChainUnchanged ==
  ASSUME RunnerTypes, UNCHANGED chainVars
  PROVE  /\ Still /\ txs' = txs /\ OwnActive' = OwnActive /\ Owned' = Owned /\ allowance' = allowance
         /\ opening' = opening /\ losses' = losses /\ executor' = executor /\ inflow' = inflow
         /\ policies' = policies /\ usdc' = usdc /\ treasury' = treasury
         /\ Snapshot' = Snapshot /\ nextPolicyId' = nextPolicyId
<1>1. /\ txs' = txs /\ UNCHANGED vars /\ allowance' = allowance
      /\ opening' = opening /\ losses' = losses /\ executor' = executor /\ inflow' = inflow
  BY DEF chainVars, historyVars
<1>2. /\ policies' = policies /\ usdc' = usdc /\ treasury' = treasury
      /\ nextPolicyId' = nextPolicyId
  BY <1>1 DEF vars, vaultVars, managerVars, adminVars
<1>3. TxsKept
  BY <1>1, LenProperties DEF TxsKept, RunnerTypes
<1> QED BY <1>1, <1>2, <1>3 DEF Still, OwnActive, Owned, Own, Snapshot

\* Standing still keeps the invariant of the contracts.
LEMMA StillIndInv ==
  ASSUME IndInv, Still
  PROVE  IndInv'
<1>1. [Next]_vars
  BY DEF Still
<1> QED BY <1>1, NextIndInv

\* However the runner ends, what it knew of the chain stays true.
LEMMA EndsInv ==
  ASSUME RunnerInv, Ends
  PROVE  /\ IndInv' /\ RunnerTypes' /\ ChainInv' /\ TrackInv'
         /\ "opening" \notin abandoned' => ContinuationInv' /\ VaultInv'
         /\ abandoned' = {} => LossInv'
<1>1. IndInv /\ RunnerTypes /\ ChainInv /\ TrackInv /\ UNCHANGED chainVars
      /\ pc' = "off" /\ mem' = NoMem /\ abandoned \subseteq abandoned'
  BY DEF RunnerInv, Ends
<1>2. /\ Still /\ txs' = txs /\ OwnActive' = OwnActive /\ Owned' = Owned /\ allowance' = allowance
      /\ opening' = opening /\ losses' = losses /\ executor' = executor /\ inflow' = inflow
      /\ policies' = policies /\ usdc' = usdc /\ treasury' = treasury
  BY <1>1, ChainUnchanged
<1>3. IndInv' /\ ChainInv'
  BY <1>1, <1>2, StillIndInv, StillChain
<1>4. RunnerTypes'
  BY <1>1, <1>2, NoMemType DEF RunnerTypes, Labels, Ends
<1>5. TrackInv'
  BY <1>1 DEF TrackInv, Opened, Lossy, Breached, Verified, Settled
<1>6. ASSUME "opening" \notin abandoned' PROVE ContinuationInv' /\ VaultInv'
  <2>1. ContinuationInv /\ VaultInv
    BY <1>1, <1>6 DEF RunnerInv
  <2>2. ~ (pc = "opening" /\ Receipt.result = "pending")
    BY <1>6 DEF Ends
  <2>3. \A n \in 1..Len(txs) : ~ (txs[n].kind = "open" /\ txs[n].result = "pending")
    BY <2>1, <2>2 DEF ContinuationInv, Receipt
  <2>4. ~ NoneYet' /\ ~ BeforeOpening' /\ pc' \notin Verified
    BY <1>1 DEF NoneYet, BeforeOpening, Asked, Preparing, Verified
  <2>5. NewestActive'
    BY <1>2, <2>1 DEF ContinuationInv, NewestActive
  <2>6. ContinuationInv'
    BY <1>1, <1>2, <2>3, <2>4, <2>5 DEF ContinuationInv
  <2>7. VaultInv'
    BY <1>1, <1>2, <2>1, <2>4 DEF VaultInv, Lost
  <2> QED BY <2>6, <2>7
<1>7. ASSUME abandoned' = {} PROVE LossInv'
  <2>1. LossInv
    BY <1>1, <1>7 DEF RunnerInv
  <2>2. ~ (pc = "losing" /\ Receipt.result = "pending")
    BY <1>7 DEF Ends
  <2>3. \A n \in 1..Len(txs) : ~ (txs[n].kind = "loss" /\ txs[n].result = "pending")
    BY <2>1, <2>2 DEF LossInv, Receipt
  <2>4. ~ BeforeLoss'
    BY <1>1 DEF BeforeLoss, Asked
  <2> QED BY <1>1, <1>2, <2>1, <2>3, <2>4 DEF LossInv
<1> QED BY <1>3, <1>4, <1>5, <1>6, <1>7

\* What the runner knows, so far as its step is concerned: the types of its memory, and
\* each part of the invariant from the parts it rests on.
Learns ==
    /\ pc' \in Labels /\ mem' \in Memories /\ TrackInv'
    /\ ContinuationInv /\ VaultInv => ContinuationInv' /\ VaultInv'
    /\ ContinuationInv /\ VaultInv /\ LossInv => LossInv'

\* A step that learns, and changes nothing but the runner, keeps the invariant.
LEMMA QuietInv ==
  ASSUME RunnerInv, UNCHANGED <<evidence, faults, abandoned, chainVars>>, evidence = Nothing,
         Learns
  PROVE  RunnerInv'
<1>1. IndInv /\ RunnerTypes /\ ChainInv /\ abandoned' = abandoned /\ UNCHANGED chainVars
  BY DEF RunnerInv
<1>2. /\ Still /\ txs' = txs /\ allowance' = allowance
      /\ opening' = opening /\ losses' = losses /\ executor' = executor /\ inflow' = inflow
      /\ treasury' = treasury
  BY <1>1, ChainUnchanged
<1>3. IndInv' /\ ChainInv'
  BY <1>1, <1>2, StillIndInv, StillChain
<1>4. RunnerTypes'
  BY <1>1, <1>2 DEF RunnerTypes, Learns
<1>5. EvidenceInv'
  BY DEF EvidenceInv
<1>6. abandoned = {} => "opening" \notin abandoned
  OBVIOUS
<1> QED BY <1>1, <1>3, <1>4, <1>5, <1>6 DEF RunnerInv, Learns

\* Without evidence there is nothing to say of it.
LEMMA NoEvidence ==
  ASSUME RunnerInv, pc # "off"
  PROVE  evidence = Nothing
BY DEF RunnerInv, EvidenceInv

\* The runner gives up.
LEMMA ThrowInv ==
  ASSUME RunnerInv, pc # "off", Throw, UNCHANGED <<evidence, faults, abandoned, chainVars>>,
         pc \in {"opening", "losing"} => Receipt.result # "pending"
  PROVE  RunnerInv'
<1>1. Ends
  BY DEF Throw, Ends, RunnerInv, RunnerTypes
<1>2. EvidenceInv'
  BY NoEvidence DEF EvidenceInv
<1> QED BY <1>1, <1>2, EndsInv DEF RunnerInv

\* A process ends early.
LEMMA FailInv ==
  ASSUME RunnerInv, Fail
  PROVE  RunnerInv'
<1>1. pc # "off"
  BY RunnerAssumption DEF Fail
<1>2. Ends
  BY DEF Fail, Throw, Ends, RunnerInv, RunnerTypes
<1>3. EvidenceInv'
  BY <1>1, NoEvidence DEF EvidenceInv, Fail
<1> QED BY <1>2, <1>3, EndsInv DEF RunnerInv

\* The runner starts.
LEMMA StartInv ==
  ASSUME RunnerInv, Start
  PROVE  RunnerInv'
<1>1. /\ RunnerTypes /\ TrackInv /\ pc = "off" /\ mem = NoMem /\ pc' = "reading"
      /\ UNCHANGED chainVars /\ mem' = [NoMem EXCEPT !.unread = DOMAIN NotRead]
  BY DEF Start, RunnerInv, TrackInv, Goto, Quiet
<1>2. txs' = txs /\ OwnActive' = OwnActive /\ Owned' = Owned /\ losses' = losses /\ inflow' = inflow /\ usdc' = usdc
  BY <1>1, ChainUnchanged
<1>3. PICK m : m = NoMem
  OBVIOUS
<1>4. /\ m \in Memories /\ m.policyId = 0 /\ m.scan = 1 /\ m.unread = {}
      /\ DOMAIN NotRead = {"counter", "vault", "wallet", "treasury", "sink"}
  BY <1>3, NoMemType DEF NoMem, NotRead
<1>5. /\ mem' \in Memories /\ mem'.policyId = 0 /\ mem'.scan = 1
      /\ mem'.unread = {"counter", "vault", "wallet", "treasury", "sink"}
  BY <1>1, <1>3, <1>4 DEF Memories
<1>6. TrackInv'
  BY <1>1, <1>5 DEF TrackInv, Opened, Lossy, Breached, Verified, Settled
<1>7. ~ NoneYet' /\ ~ ReadAt("reading", "sink")' /\ ~ ReadAt("reading", "vault")' /\ ~ BeforeLoss'
      /\ pc' \notin Verified
  BY <1>1, <1>5 DEF NoneYet, ReadAt, BeforeLoss, Asked, Verified
<1>8. ContinuationInv => ContinuationInv'
  BY <1>1, <1>2, <1>5, <1>7 DEF ContinuationInv, NewestActive
<1>9. VaultInv => VaultInv'
  BY <1>1, <1>2, <1>7 DEF VaultInv, Lost
<1>10. LossInv => LossInv'
  BY <1>1, <1>2, <1>7 DEF LossInv
<1>11. Learns
  BY <1>1, <1>5, <1>6, <1>8, <1>9, <1>10 DEF Learns, Labels
<1> QED BY <1>11, QuietInv DEF Start, Quiet

\* A snapshot with one more answer is a snapshot.
LEMMA SnapshotUpdate ==
  ASSUME NEW s \in Snapshots, NEW field \in DOMAIN NotRead, NEW answer \in Nat
  PROVE  /\ [s EXCEPT ![field] = answer] \in Snapshots
         /\ \A f \in DOMAIN NotRead :
               [s EXCEPT ![field] = answer][f] = IF f = field THEN answer ELSE s[f]
<1>1. DOMAIN NotRead = {"counter", "vault", "wallet", "treasury", "sink"}
  BY DEF NotRead
<1> QED BY <1>1 DEF Snapshots

\* What one answer of a Promise.all changes.
Answered(field, snapshot, label, next) ==
    /\ field \in mem.unread /\ mem' \in Memories /\ mem'.unread = mem.unread \ {field}
    /\ \A f \in DOMAIN NotRead :
          mem'[snapshot][f] = IF f = field THEN Snapshot[f] ELSE mem[snapshot][f]
    /\ \A part \in {"before", "after", "final"} : part # snapshot => mem'[part] = mem[part]
    /\ mem'.scan = mem.scan /\ mem'.policyId = mem.policyId /\ mem'.tx = mem.tx
    /\ mem'.openTx = mem.openTx /\ mem'.valueAfterLoss = mem.valueAfterLoss
    /\ pc' = IF mem.unread = {field} THEN next ELSE label

\* A read is answered with what is on the chain then.
LEMMA ReadFacts ==
  ASSUME IndInv, RunnerTypes, NEW label, NEW next, NEW snapshot \in {"before", "after", "final"},
         ReadAll(label, snapshot, next)
  PROVE  /\ pc = label /\ UNCHANGED <<evidence, faults, abandoned, chainVars>>
         /\ \E field \in DOMAIN NotRead : Answered(field, snapshot, label, next)
<1>1. PICK field \in mem.unread :
         /\ mem' = [mem EXCEPT ![snapshot][field] = Snapshot[field], !.unread = @ \ {field}]
         /\ pc' = IF mem.unread = {field} THEN next ELSE label
  BY DEF ReadAll, Goto
<1>2. PICK m \in Memories : m = mem
  BY DEF RunnerTypes
<1>3. field \in DOMAIN NotRead /\ m.unread \ {field} \subseteq DOMAIN NotRead
  BY <1>1, <1>2 DEF Memories
<1>4. PICK answer \in Nat : answer = Snapshot[field]
  <2>1. Snapshot \in Snapshots
    BY SnapshotType
  <2> QED BY <1>3, <2>1 DEF Snapshots, NotRead
<1>5. PICK old \in Snapshots : old = m[snapshot]
  BY <1>2 DEF Memories
<1>6. PICK new \in Snapshots : new = [old EXCEPT ![field] = answer]
  BY <1>3, <1>5, SnapshotUpdate
<1>7. mem' = [m EXCEPT ![snapshot] = new, !.unread = m.unread \ {field}]
  BY <1>1, <1>2, <1>4, <1>5, <1>6
<1>8. PICK u \in SUBSET DOMAIN NotRead : u = m.unread \ {field}
  BY <1>3
<1>9. /\ mem' \in Memories /\ mem'.unread = u /\ mem'[snapshot] = new
      /\ \A part \in {"before", "after", "final"} : part # snapshot => mem'[part] = m[part]
      /\ mem'.scan = m.scan /\ mem'.policyId = m.policyId /\ mem'.tx = m.tx
      /\ mem'.openTx = m.openTx /\ mem'.valueAfterLoss = m.valueAfterLoss
  <2>1. mem' = [m EXCEPT ![snapshot] = new, !.unread = u]
    BY <1>7, <1>8
  <2>2. CASE snapshot = "before"
    BY <2>1, <2>2 DEF Memories
  <2>3. CASE snapshot = "after"
    BY <2>1, <2>3 DEF Memories
  <2>4. CASE snapshot = "final"
    BY <2>1, <2>4 DEF Memories
  <2> QED BY <2>2, <2>3, <2>4
<1>10. \A f \in DOMAIN NotRead :
          mem'[snapshot][f] = IF f = field THEN Snapshot[f] ELSE mem[snapshot][f]
  BY <1>2, <1>3, <1>4, <1>5, <1>6, <1>9, SnapshotUpdate
<1>11. Answered(field, snapshot, label, next)
  BY <1>1, <1>2, <1>8, <1>9, <1>10 DEF Answered
<1> QED BY <1>3, <1>11 DEF ReadAll, Quiet

\* A balance of the chain is at most itself: what a read gives is a number.
LEMMA SnapshotFields ==
  ASSUME IndInv
  PROVE  /\ Snapshot.sink = usdc[LossSink] /\ Snapshot.vault = usdc[DemoVault]
         /\ Snapshot.counter = nextPolicyId
         /\ usdc[LossSink] \in Nat /\ usdc[DemoVault] \in Nat
BY ChainTypes, Terms DEF Snapshot

\* The wallet's policies have identifiers below the counter.
LEMMA OwnBelowCounter ==
  ASSUME IndInv, NEW id \in OwnActive
  PROVE  id \in PolicyIds /\ Own(id) /\ id \in Nat /\ 1 <= id /\ id < nextPolicyId
<1>1. id \in PolicyIds /\ Own(id)
  BY DEF OwnActive, Own
<1>2. Exists(id)
  BY <1>1, OwnExists
<1> QED BY <1>1, <1>2, ChainTypes

\* The preflight's reads: a counter that is read is above the policies there are, the
\* vault holds no more later than was read and others put in, the sink no less.
LEMMA ReadBeforeInv ==
  ASSUME RunnerInv, ReadBefore
  PROVE  RunnerInv'
<1>1. IndInv /\ RunnerTypes /\ TrackInv
  BY DEF RunnerInv
<1>2. /\ pc = "reading" /\ UNCHANGED <<evidence, faults, abandoned, chainVars>>
      /\ \E field \in DOMAIN NotRead : Answered(field, "before", "reading", "scanning")
  <2>1. ReadAll("reading", "before", "scanning")
    BY DEF ReadBefore
  <2> QED BY <1>1, <2>1, ReadFacts
<1>3. PICK field \in DOMAIN NotRead : Answered(field, "before", "reading", "scanning")
  BY <1>2
<1>4. /\ txs' = txs /\ OwnActive' = OwnActive /\ Owned' = Owned /\ losses' = losses /\ inflow' = inflow
      /\ usdc' = usdc
  BY <1>1, <1>2, ChainUnchanged
<1>5. /\ mem.policyId = 0 /\ mem.scan = 1
  BY <1>1, <1>2 DEF TrackInv
<1>6. /\ mem' \in Memories /\ mem'.policyId = 0 /\ mem'.scan = 1
      /\ mem'.unread = mem.unread \ {field} /\ field \in mem.unread
      /\ pc' \in {"reading", "scanning"}
      /\ pc' = "scanning" => mem'.unread = {}
      /\ \A f \in DOMAIN NotRead :
            mem'.before[f] = IF f = field THEN Snapshot[f] ELSE mem.before[f]
  BY <1>3, <1>5 DEF Answered
<1>7. \A f \in DOMAIN NotRead :
         f \notin mem'.unread =>
            \/ mem'.before[f] = Snapshot[f]
            \/ f \notin mem.unread /\ mem'.before[f] = mem.before[f]
  BY <1>6
<1>8. ASSUME ReadAt("reading", "sink")'
      PROVE  \/ mem'.before.sink = usdc[LossSink]
             \/ ReadAt("reading", "sink") /\ mem'.before.sink = mem.before.sink
  <2>1. "sink" \notin mem'.unread
    BY <1>6, <1>8 DEF ReadAt
  <2> QED BY <1>1, <1>7, <2>1, SnapshotFields DEF ReadAt, NotRead
<1>9. ASSUME ReadAt("reading", "vault")'
      PROVE  \/ mem'.before.vault = usdc[DemoVault]
             \/ ReadAt("reading", "vault") /\ mem'.before.vault = mem.before.vault
  <2>1. "vault" \notin mem'.unread
    BY <1>6, <1>9 DEF ReadAt
  <2> QED BY <1>1, <1>7, <2>1, SnapshotFields DEF ReadAt, NotRead
<1>10. ASSUME "counter" \notin mem'.unread
       PROVE  \/ mem'.before.counter = nextPolicyId
              \/ "counter" \notin mem.unread /\ mem'.before.counter = mem.before.counter
  BY <1>1, <1>7, <1>10, SnapshotFields DEF NotRead
<1>11. TrackInv'
  BY <1>6 DEF TrackInv, Opened, Lossy, Breached, Verified, Settled
<1>12. ~ NoneYet' /\ ~ BeforeLoss' /\ BeforeOpening /\ pc' \notin Verified
  BY <1>2, <1>6 DEF NoneYet, BeforeLoss, Asked, BeforeOpening, Preparing, Verified
<1>13. ASSUME ContinuationInv PROVE ContinuationInv'
  <2>1. ASSUME "counter" \notin mem'.unread, NEW id \in OwnActive
        PROVE  id < mem'.before.counter /\ ~ (id < mem'.scan)
    BY <1>1, <1>2, <1>6, <1>10, <1>13, <2>1, OwnBelowCounter DEF ContinuationInv
  <2>2. ReadAt("reading", "sink")' => mem'.before.sink <= usdc'[LossSink]
    BY <1>1, <1>4, <1>8, <1>12, <1>13, SnapshotFields DEF ContinuationInv
  <2>3. \A n \in 1..Len(txs) : ~ (txs[n].kind = "open" /\ txs[n].result = "pending")
    BY <1>2, <1>13 DEF ContinuationInv
  <2>4. NewestActive'
    BY <1>4, <1>13 DEF ContinuationInv, NewestActive
  <2>5. pc' = "scanning" => "counter" \notin mem'.unread
    BY <1>6
  <2> QED BY <1>4, <1>6, <1>12, <2>1, <2>2, <2>3, <2>4, <2>5 DEF ContinuationInv
<1>14. mem'.before.vault \in Nat /\ inflow \in Nat /\ usdc[DemoVault] \in Nat
  BY <1>1, <1>6, SnapshotFields DEF Memories, Snapshots, RunnerTypes
<1>15. ASSUME VaultInv PROVE VaultInv'
  <2>1. ReadAt("reading", "vault")' => usdc'[DemoVault] <= mem'.before.vault + inflow'
    BY <1>4, <1>9, <1>12, <1>14, <1>15 DEF VaultInv
  <2> QED BY <1>4, <1>6, <1>12, <1>15, <2>1 DEF VaultInv, Lost
<1>16. ASSUME VaultInv, LossInv PROVE LossInv'
  <2>1. \A n \in 1..Len(txs) : ~ (txs[n].kind = "loss" /\ txs[n].result = "pending")
    BY <1>2, <1>16 DEF LossInv
  <2>2. ASSUME ReadAt("reading", "vault")', NEW id \in OwnActive
        PROVE  mem'.before.vault + Lost(id) <= Principal + inflow
    BY <1>2, <1>9, <1>16, <2>2 DEF VaultInv, LossInv
  <2>3. inflow < LossAssets => \A id \in PolicyIds : losses[id] <= 1
    BY <1>16 DEF LossInv
  <2> QED BY <1>4, <1>6, <1>12, <2>1, <2>2, <2>3 DEF LossInv, Lost
<1>17. Learns
  BY <1>6, <1>11, <1>13, <1>15, <1>16 DEF Learns, Labels
<1>18. evidence = Nothing
  BY <1>2, NoEvidence
<1> QED BY <1>2, <1>17, <1>18, QuietInv

\* What the runner learns once its policy is there: which policy that is, and how far
\* the lifecycle came.
LateStep ==
    /\ UNCHANGED <<evidence, faults, abandoned, chainVars>>
    /\ pc # "off" /\ pc' \in Opened /\ mem' \in Memories /\ TrackInv'
    /\ pc \in {"opening", "losing"} => Receipt.result # "pending"
    /\ BeforeLoss' => BeforeLoss
    /\ ContinuationInv =>
          /\ pc' \in {"opened", "verify"} => \A id \in OwnActive : Identified(id, mem.openTx)'
          /\ pc' \in Verified => Identified(mem.policyId, mem.openTx)'

\* Such a step keeps the invariant.
LEMMA LateInv ==
  ASSUME RunnerInv, LateStep
  PROVE  RunnerInv'
<1>1. RunnerTypes /\ UNCHANGED chainVars /\ pc' \in Opened
  BY DEF RunnerInv, LateStep
<1>2. /\ txs' = txs /\ OwnActive' = OwnActive /\ Owned' = Owned /\ losses' = losses /\ inflow' = inflow
      /\ usdc' = usdc
  BY <1>1, ChainUnchanged
<1>3. ~ NoneYet' /\ ~ BeforeOpening' /\ (BeforeLoss' => BeforeLoss)
  BY <1>1 DEF NoneYet, Asked, BeforeOpening, Preparing, Opened, LateStep
<1>4. pc' \notin {"reading", "scanning", "starting", "recover", "opening"}
  BY <1>1 DEF Opened
<1>5. ASSUME ContinuationInv PROVE ContinuationInv'
  <2>1. \A n \in 1..Len(txs) : ~ (txs[n].kind = "open" /\ txs[n].result = "pending")
    BY <1>5 DEF ContinuationInv, LateStep, Receipt
  <2>2. NewestActive'
    BY <1>2, <1>5 DEF ContinuationInv, NewestActive
  <2>3. /\ pc' \in {"opened", "verify"} => \A id \in OwnActive : Identified(id, mem.openTx)'
        /\ pc' \in Verified => Identified(mem.policyId, mem.openTx)'
    BY <1>5 DEF LateStep
  <2> QED BY <1>2, <1>3, <1>4, <2>1, <2>2, <2>3 DEF ContinuationInv
<1>6. VaultInv => VaultInv'
  BY <1>2, <1>3, <1>4 DEF VaultInv, Lost
<1>7. ASSUME LossInv PROVE LossInv'
  <2>1. \A n \in 1..Len(txs) : ~ (txs[n].kind = "loss" /\ txs[n].result = "pending")
    BY <1>7 DEF LossInv, LateStep, Receipt
  <2> QED BY <1>2, <1>3, <1>4, <1>7, <2>1 DEF LossInv, Lost
<1>8. Learns
  BY <1>1, <1>5, <1>6, <1>7 DEF Learns, Labels, Opened, LateStep
<1>9. evidence = Nothing /\ UNCHANGED <<evidence, faults, abandoned, chainVars>>
  BY NoEvidence DEF LateStep
<1> QED BY <1>8, <1>9, QuietInv

\* The reads after the opening.
LEMMA ReadAfterOpenInv ==
  ASSUME RunnerInv, ReadAfterOpen
  PROVE  RunnerInv'
<1>1. IndInv /\ RunnerTypes /\ TrackInv
  BY DEF RunnerInv
<1>2. /\ pc = "opened" /\ UNCHANGED <<evidence, faults, abandoned, chainVars>>
      /\ \E field \in DOMAIN NotRead : Answered(field, "after", "opened", "verify")
  <2>1. ReadAll("opened", "after", "verify")
    BY DEF ReadAfterOpen
  <2> QED BY <1>1, <2>1, ReadFacts
<1>3. /\ txs' = txs /\ OwnActive' = OwnActive /\ Owned' = Owned /\ losses' = losses /\ inflow' = inflow
      /\ usdc' = usdc /\ opening' = opening
  BY <1>1, <1>2, ChainUnchanged
<1>4. /\ mem' \in Memories /\ mem'.before = mem.before /\ mem'.openTx = mem.openTx
      /\ pc' \in {"opened", "verify"}
  BY <1>2 DEF Answered
<1>5. TrackInv'
  BY <1>1, <1>2, <1>3, <1>4 DEF TrackInv, Holds, Opened, Lossy, Breached, Verified, Settled
<1>6. BeforeLoss
  BY <1>2 DEF BeforeLoss
<1>7. ASSUME ContinuationInv PROVE \A id \in OwnActive : Identified(id, mem.openTx)'
  BY <1>2, <1>3, <1>4, <1>7 DEF ContinuationInv, Identified, OpenedBy
<1>8. LateStep
  BY <1>2, <1>4, <1>5, <1>6, <1>7 DEF LateStep, Opened, Verified
<1> QED BY <1>8, LateInv

\* The reads after the execution: the sink holds what it held at the opening and every
\* loss since.
LEMMA ReadSettlementInv ==
  ASSUME RunnerInv, ReadSettlement
  PROVE  RunnerInv'
<1>1. IndInv /\ RunnerTypes /\ TrackInv /\ ChainInv
  BY DEF RunnerInv
<1>2. /\ pc = "settling" /\ UNCHANGED <<evidence, faults, abandoned, chainVars>>
      /\ \E field \in DOMAIN NotRead : Answered(field, "final", "settling", "checking")
  <2>1. ReadAll("settling", "final", "checking")
    BY DEF ReadSettlement
  <2> QED BY <1>1, <2>1, ReadFacts
<1>3. PICK field \in DOMAIN NotRead : Answered(field, "final", "settling", "checking")
  BY <1>2
<1>4. /\ txs' = txs /\ OwnActive' = OwnActive /\ Owned' = Owned /\ losses' = losses /\ inflow' = inflow
      /\ usdc' = usdc /\ opening' = opening /\ policies' = policies
  BY <1>1, <1>2, ChainUnchanged
<1>5. /\ mem' \in Memories /\ mem'.before = mem.before /\ mem'.openTx = mem.openTx
      /\ mem'.tx = mem.tx /\ mem'.policyId = mem.policyId
      /\ pc' \in {"settling", "checking"}
      /\ mem'.unread = mem.unread \ {field}
      /\ pc' = "checking" => mem'.unread = {}
      /\ \A f \in DOMAIN NotRead :
            mem'.final[f] = IF f = field THEN Snapshot[f] ELSE mem.final[f]
  BY <1>3 DEF Answered
<1>6. /\ Holds("open", mem.openTx) /\ Holds("loss", mem.tx) /\ txs[mem.tx].result = "success"
      /\ mem.policyId \in PolicyIds /\ Own(mem.policyId)
      /\ policies[mem.policyId].status = "Executed"
      /\ ReadAt("settling", "sink") =>
            opening[mem.policyId].before.sink + Lost(mem.policyId) <= mem.final.sink
  BY <1>1, <1>2 DEF TrackInv, Opened, Lossy, Breached, Verified, Settled
<1>7. opening[mem.policyId].before.sink + Lost(mem.policyId) <= usdc[LossSink]
  BY <1>1, <1>6 DEF ChainInv, OwnPolicyInv
<1>8. ASSUME ReadAt("settling", "sink")'
      PROVE  opening[mem.policyId].before.sink + Lost(mem.policyId) <= mem'.final.sink
  <2>1. "sink" \notin mem'.unread
    BY <1>5, <1>8 DEF ReadAt
  <2>2. \/ mem'.final.sink = usdc[LossSink]
        \/ ReadAt("settling", "sink") /\ mem'.final.sink = mem.final.sink
    BY <1>1, <1>5, <2>1, SnapshotFields DEF ReadAt, NotRead
  <2> QED BY <1>6, <1>7, <2>2
<1>9. TrackInv'
  <2>1. Lost(mem.policyId)' = Lost(mem.policyId)
    BY <1>4, <1>5 DEF Lost
  <2>2. Own(mem.policyId)' /\ Holds("open", mem.openTx)' /\ Holds("loss", mem.tx)'
    BY <1>4, <1>5, <1>6 DEF Own, Holds
  <2>3. pc' # "approving" /\ pc' # "opening" /\ pc' \notin {"scanning", "starting"}
        /\ pc' # "writing" /\ pc' # "reading" /\ pc' # "off"
    BY <1>5
  <2> QED BY <1>4, <1>5, <1>6, <1>8, <2>1, <2>2, <2>3 DEF TrackInv
<1>10. ~ BeforeLoss' /\ pc \in Verified
  BY <1>2, <1>5 DEF BeforeLoss, Asked, Verified
<1>11. ASSUME ContinuationInv PROVE Identified(mem.policyId, mem.openTx)'
  BY <1>4, <1>5, <1>10, <1>11 DEF ContinuationInv, Identified, OpenedBy
<1>12. LateStep
  BY <1>2, <1>5, <1>9, <1>10, <1>11 DEF LateStep, Opened
<1> QED BY <1>12, LateInv

\* The opening's receipt is there.
LEMMA AwaitOpeningInv ==
  ASSUME RunnerInv, AwaitOpening
  PROVE  RunnerInv'
<1>1. /\ RunnerTypes /\ TrackInv /\ pc = "opening" /\ Receipt.result # "pending"
      /\ UNCHANGED <<evidence, faults, abandoned, chainVars>>
  BY DEF RunnerInv, AwaitOpening, Quiet
<1>2. CASE Throw
  BY <1>1, <1>2, ThrowInv
<1>3. CASE /\ Receipt.result = "success" /\ pc' = "opened"
           /\ mem' = [mem EXCEPT !.openTx = mem.tx, !.unread = {"wallet", "treasury"}]
  <2>1. mem' \in Memories /\ mem'.openTx = mem.tx /\ mem'.before = mem.before
    BY <1>1, <1>3 DEF RunnerTypes, Memories, NotRead
  <2>2. txs' = txs /\ OwnActive' = OwnActive /\ Owned' = Owned /\ opening' = opening
    BY <1>1, ChainUnchanged
  <2>3. Holds("open", mem.openTx)'
    BY <1>1, <2>1, <2>2 DEF TrackInv, Holds
  <2>4. TrackInv'
    BY <1>3, <2>3 DEF TrackInv, Opened, Lossy, Breached, Verified, Settled
  <2>5. ASSUME ContinuationInv PROVE \A id \in OwnActive : Identified(id, mem.openTx)'
    BY <1>1, <1>3, <2>1, <2>2, <2>5 DEF ContinuationInv, Identified, OpenedBy
  <2>6. BeforeLoss
    BY <1>1 DEF BeforeLoss
  <2>7. LateStep
    BY <1>1, <1>3, <2>1, <2>4, <2>5, <2>6 DEF LateStep, Opened, Verified
  <2> QED BY <2>7, LateInv
<1> QED BY <1>2, <1>3 DEF AwaitOpening, Goto

\* The opening of a resumed policy is found.
LEMMA RecoverOpeningInv ==
  ASSUME RunnerInv, RecoverOpening
  PROVE  RunnerInv'
<1>1. /\ RunnerTypes /\ TrackInv /\ ChainInv /\ pc = "recover"
      /\ UNCHANGED <<evidence, faults, abandoned, chainVars>>
  BY DEF RunnerInv, RecoverOpening, Quiet
<1>2. CASE Throw
  BY <1>1, <1>2, ThrowInv
<1>3. CASE /\ pc' = "verify"
           /\ mem' = [mem EXCEPT !.openTx = opening[mem.policyId].tx,
                                 !.before = opening[mem.policyId].before,
                                 !.after = opening[mem.policyId].after]
  <2>1. PICK id \in PolicyIds : id = mem.policyId /\ Own(id)
    BY <1>1 DEF TrackInv
  <2>2. OwnPolicyInv(id)
    BY <1>1, <2>1 DEF ChainInv
  <2>3. PICK found \in Openings : found = opening[id]
    BY <1>1, <2>2 DEF OwnPolicyInv, RunnerTypes
  <2>4. mem' = [mem EXCEPT !.openTx = found.tx, !.before = found.before, !.after = found.after]
    BY <1>3, <2>1, <2>3
  <2>5. /\ mem' \in Memories /\ mem'.openTx = found.tx /\ mem'.before = found.before
    BY <1>1, <2>4 DEF RunnerTypes, Memories, Openings
  <2>6. txs' = txs /\ OwnActive' = OwnActive /\ Owned' = Owned /\ opening' = opening
    BY <1>1, ChainUnchanged
  <2>7. OpenedBy(id, found.tx)
    BY <2>2, <2>3 DEF OwnPolicyInv
  <2>8. Holds("open", mem.openTx)'
    BY <2>5, <2>6, <2>7 DEF OpenedBy, Holds
  <2>9. TrackInv'
    BY <1>3, <2>8 DEF TrackInv, Opened, Lossy, Breached, Verified, Settled
  <2>10. ASSUME ContinuationInv PROVE \A i \in OwnActive : Identified(i, mem.openTx)'
    <3>1. Identified(id, mem.openTx)'
      <4>1. found.before.sink \in Nat
        BY DEF Openings, Snapshots
      <4> QED BY <2>3, <2>5, <2>6, <2>7, <4>1 DEF Identified, OpenedBy
    <3>2. \A i \in OwnActive : i = id
      BY <1>1, <2>1, <2>10 DEF ContinuationInv
    <3> QED BY <3>1, <3>2
  <2>11. BeforeLoss
    BY <1>1 DEF BeforeLoss
  <2>12. LateStep
    BY <1>1, <1>3, <2>5, <2>9, <2>10, <2>11 DEF LateStep, Opened, Verified
  <2> QED BY <2>12, LateInv
<1> QED BY <1>2, <1>3 DEF RecoverOpening, Goto

\* The opening is verified.
LEMMA VerifyOpeningInv ==
  ASSUME RunnerInv, VerifyOpening
  PROVE  RunnerInv'
<1>1. /\ RunnerTypes /\ TrackInv /\ pc = "verify"
      /\ UNCHANGED <<evidence, faults, abandoned, chainVars>>
  BY DEF RunnerInv, VerifyOpening, Quiet
<1>2. CASE Throw
  BY <1>1, <1>2, ThrowInv
<1>3. CASE mem.policyId \in OwnActive /\ pc' = "lose" /\ mem' = mem
  <2>1. txs' = txs /\ OwnActive' = OwnActive /\ Owned' = Owned /\ opening' = opening /\ policies' = policies
    BY <1>1, ChainUnchanged
  <2>2. /\ Holds("open", mem.openTx)' /\ mem'.policyId \in PolicyIds /\ Own(mem.policyId)'
    BY <1>1, <1>3, <2>1 DEF TrackInv, Holds, OwnActive, Own, Opened
  <2>3. TrackInv'
    BY <1>3, <2>2 DEF TrackInv, Opened, Lossy, Breached, Verified, Settled
  <2>4. ASSUME ContinuationInv PROVE Identified(mem.policyId, mem.openTx)'
    BY <1>1, <1>3, <2>1, <2>4 DEF ContinuationInv, Identified, OpenedBy
  <2>5. BeforeLoss
    BY <1>1 DEF BeforeLoss
  <2>6. LateStep
    BY <1>1, <1>3, <2>3, <2>4, <2>5 DEF LateStep, Opened, Verified, RunnerTypes
  <2> QED BY <2>6, LateInv
<1> QED BY <1>2, <1>3 DEF VerifyOpening, Goto

\* The loss's receipt is there.
LEMMA AwaitLossInv ==
  ASSUME RunnerInv, AwaitLoss
  PROVE  RunnerInv'
<1>1. /\ RunnerTypes /\ TrackInv /\ pc = "losing" /\ Receipt.result # "pending"
      /\ UNCHANGED <<evidence, faults, abandoned, chainVars>>
  BY DEF RunnerInv, AwaitLoss, Quiet
<1>2. CASE Throw
  BY <1>1, <1>2, ThrowInv
<1>3. CASE /\ Receipt.result = "success" /\ pc' = "waiting"
           /\ mem' = [mem EXCEPT !.valueAfterLoss = Receipt.amount]
  <2>1. Receipt.amount \in Nat
    BY <1>1, TransactionFields DEF TrackInv, Holds, Lossy, Receipt
  <2>2. /\ mem' \in Memories /\ mem'.openTx = mem.openTx /\ mem'.before = mem.before
        /\ mem'.tx = mem.tx /\ mem'.policyId = mem.policyId
    BY <1>1, <1>3, <2>1 DEF RunnerTypes, Memories
  <2>3. txs' = txs /\ OwnActive' = OwnActive /\ Owned' = Owned /\ opening' = opening /\ policies' = policies
    BY <1>1, ChainUnchanged
  <2>4. /\ Holds("open", mem.openTx) /\ Holds("loss", mem.tx) /\ txs[mem.tx].result = "success"
        /\ mem.policyId \in PolicyIds /\ Own(mem.policyId)
    BY <1>1, <1>3 DEF TrackInv, Opened, Lossy, Verified, Receipt
  <2>5. /\ Holds("open", mem.openTx)' /\ Holds("loss", mem.tx)' /\ txs'[mem'.tx].result = "success"
        /\ mem'.policyId \in PolicyIds /\ Own(mem.policyId)'
    BY <2>2, <2>3, <2>4 DEF Holds, Own
  <2>6. TrackInv'
    BY <1>3, <2>5 DEF TrackInv, Opened, Lossy, Breached, Verified, Settled
  <2>7. ASSUME ContinuationInv PROVE Identified(mem.policyId, mem.openTx)'
    BY <1>1, <2>2, <2>3, <2>7 DEF ContinuationInv, Identified, OpenedBy, Verified
  <2>8. ~ BeforeLoss'
    BY <1>3 DEF BeforeLoss, Asked
  <2>9. LateStep
    BY <1>1, <1>3, <2>2, <2>6, <2>7, <2>8 DEF LateStep, Opened, Verified
  <2> QED BY <2>9, LateInv
<1> QED BY <1>2, <1>3 DEF AwaitLoss, Goto

\* The execution is seen.
LEMMA AwaitExecutionInv ==
  ASSUME RunnerInv, AwaitExecution
  PROVE  RunnerInv'
<1>1. /\ RunnerTypes /\ TrackInv /\ pc = "waiting"
      /\ UNCHANGED <<evidence, faults, abandoned, chainVars>>
  BY DEF RunnerInv, AwaitExecution, Quiet
<1>2. CASE Throw
  BY <1>1, <1>2, ThrowInv
<1>3. CASE /\ policies[mem.policyId].status = "Executed" /\ pc' = "settling"
           /\ mem' = [mem EXCEPT !.unread = {"wallet", "sink", "vault"}]
  <2>1. /\ mem' \in Memories /\ mem'.openTx = mem.openTx /\ mem'.before = mem.before
        /\ mem'.tx = mem.tx /\ mem'.policyId = mem.policyId
        /\ mem'.unread = {"wallet", "sink", "vault"}
    BY <1>1, <1>3 DEF RunnerTypes, Memories, NotRead
  <2>2. txs' = txs /\ OwnActive' = OwnActive /\ Owned' = Owned /\ opening' = opening /\ policies' = policies
    BY <1>1, ChainUnchanged
  <2>3. /\ Holds("open", mem.openTx) /\ Holds("loss", mem.tx) /\ txs[mem.tx].result = "success"
        /\ mem.policyId \in PolicyIds /\ Own(mem.policyId)
    BY <1>1 DEF TrackInv, Opened, Lossy, Verified, Breached
  <2>4. /\ Holds("open", mem.openTx)' /\ Holds("loss", mem.tx)' /\ txs'[mem'.tx].result = "success"
        /\ mem'.policyId \in PolicyIds /\ Own(mem.policyId)'
        /\ policies'[mem'.policyId].status = "Executed"
        /\ ~ ReadAt("settling", "sink")'
    BY <1>3, <2>1, <2>2, <2>3 DEF Holds, Own, ReadAt
  <2>5. TrackInv'
    BY <1>3, <2>4 DEF TrackInv, Opened, Lossy, Breached, Verified, Settled
  <2>6. ASSUME ContinuationInv PROVE Identified(mem.policyId, mem.openTx)'
    BY <1>1, <2>1, <2>2, <2>6 DEF ContinuationInv, Identified, OpenedBy, Verified
  <2>7. ~ BeforeLoss'
    BY <1>3 DEF BeforeLoss, Asked
  <2>8. LateStep
    BY <1>1, <1>3, <2>1, <2>5, <2>6, <2>7 DEF LateStep, Opened, Verified
  <2> QED BY <2>8, LateInv
<1> QED BY <1>2, <1>3 DEF AwaitExecution, Goto

\* The settlement is checked.
LEMMA CheckSettlementInv ==
  ASSUME RunnerInv, CheckSettlement
  PROVE  RunnerInv'
<1>1. /\ RunnerTypes /\ TrackInv /\ pc = "checking"
      /\ UNCHANGED <<evidence, faults, abandoned, chainVars>>
  BY DEF RunnerInv, CheckSettlement, Quiet
<1>2. CASE Throw
  BY <1>1, <1>2, ThrowInv
<1>3. CASE SettlementHolds /\ pc' = "writing" /\ mem' = mem
  <2>1. /\ txs' = txs /\ OwnActive' = OwnActive /\ Owned' = Owned /\ opening' = opening /\ policies' = policies
        /\ losses' = losses /\ executor' = executor
    BY <1>1, ChainUnchanged
  <2>2. SettlementHolds'
    BY <1>3, <2>1 DEF SettlementHolds
  <2>3. /\ Holds("open", mem.openTx)' /\ Holds("loss", mem.tx)' /\ txs'[mem'.tx].result = "success"
        /\ mem'.policyId \in PolicyIds /\ Own(mem.policyId)'
        /\ policies'[mem'.policyId].status = "Executed"
    BY <1>1, <1>3, <2>1 DEF TrackInv, Opened, Lossy, Verified, Breached, Settled, Holds, Own
  <2>4. opening'[mem'.policyId].before.sink + Lost(mem.policyId)' <= mem'.final.sink
    BY <1>1, <1>3, <2>1 DEF TrackInv, Settled, ReadAt, Lost
  <2>5. TrackInv'
    BY <1>3, <2>2, <2>3, <2>4 DEF TrackInv, Opened, Lossy, Breached, Verified, Settled
  <2>6. ASSUME ContinuationInv PROVE Identified(mem.policyId, mem.openTx)'
    BY <1>1, <1>3, <2>1, <2>6 DEF ContinuationInv, Identified, OpenedBy, Verified
  <2>7. ~ BeforeLoss'
    BY <1>3 DEF BeforeLoss, Asked
  <2>8. LateStep
    BY <1>1, <1>3, <2>5, <2>6, <2>7 DEF LateStep, Opened, Verified, RunnerTypes
  <2> QED BY <2>8, LateInv
<1> QED BY <1>2, <1>3 DEF CheckSettlement, Goto

\* One turn of the search: a policy it passed by is not the wallet's, or is the one it
\* resumes.
LEMMA ScanPolicyInv ==
  ASSUME RunnerInv, ScanPolicy
  PROVE  RunnerInv'
<1>1. /\ IndInv /\ RunnerTypes /\ TrackInv /\ pc = "scanning"
      /\ UNCHANGED <<evidence, faults, abandoned, chainVars>>
  BY DEF RunnerInv, ScanPolicy, Quiet
<1>2. CASE Throw
  BY <1>1, <1>2, ThrowInv
<1>3. CASE ~ Throw
  <2>1. mem.scan \in Nat /\ mem.before.counter \in Nat /\ mem.policyId \in Nat
    BY <1>1 DEF RunnerTypes, Memories, Snapshots
  <2>2. PICK found \in Nat :
           /\ pc' = pc /\ mem' = [mem EXCEPT !.policyId = found, !.scan = mem.scan + 1]
           /\ \/ mem.scan \notin OwnActive /\ found = mem.policyId
              \/ mem.scan \in OwnActive /\ mem.policyId = 0 /\ found = mem.scan
    <3>1. CASE mem.scan \notin OwnActive
      <4>1. pc' = pc /\ mem' = [mem EXCEPT !.scan = mem.scan + 1]
        BY <3>1 DEF ScanPolicy
      <4>2. mem' = [mem EXCEPT !.policyId = mem.policyId, !.scan = mem.scan + 1]
        BY <1>1, <4>1 DEF RunnerTypes, Memories
      <4> QED BY <2>1, <3>1, <4>1, <4>2
    <3>2. CASE mem.scan \in OwnActive
      BY <1>3, <2>1, <3>2 DEF ScanPolicy
    <3> QED BY <3>1, <3>2
  <2>3. /\ mem' \in Memories /\ mem'.policyId = found /\ mem'.scan = mem.scan + 1
        /\ mem'.before = mem.before /\ pc' = "scanning"
    <3>1. PICK m \in Memories, turn \in Nat : m = mem /\ turn = mem.scan + 1
      BY <1>1, <2>1 DEF RunnerTypes
    <3>2. mem' = [m EXCEPT !.policyId = found, !.scan = turn]
      BY <2>2, <3>1
    <3>3. /\ mem' \in Memories /\ mem'.policyId = found /\ mem'.scan = turn
          /\ mem'.before = m.before
      BY <3>2 DEF Memories
    <3> QED BY <1>1, <2>2, <3>1, <3>3
  <2>4. /\ txs' = txs /\ OwnActive' = OwnActive /\ Owned' = Owned /\ losses' = losses /\ inflow' = inflow
        /\ usdc' = usdc /\ policies' = policies
    BY <1>1, ChainUnchanged
  <2>5. found # 0 => found \in PolicyIds /\ Own(found)'
    BY <1>1, <2>2, <2>4 DEF TrackInv, OwnActive, Own
  <2>6. TrackInv'
    BY <2>3, <2>5 DEF TrackInv, Opened, Lossy, Breached, Verified, Settled, Own
  <2>7. ~ NoneYet' /\ ~ BeforeLoss' /\ BeforeOpening /\ pc' \notin Verified
    BY <1>1, <2>3 DEF NoneYet, BeforeLoss, Asked, BeforeOpening, Preparing, Verified
  <2>8. ASSUME ContinuationInv PROVE ContinuationInv'
    <3>1. ASSUME NEW id \in OwnActive
          PROVE  id < mem.before.counter /\ (id < mem.scan + 1 => id = found)
      <4>1. id \in Nat /\ 1 <= id /\ id < mem.before.counter /\ (id < mem.scan => id = mem.policyId)
        BY <1>1, <2>8, OwnBelowCounter DEF ContinuationInv
      <4> QED BY <2>1, <2>2, <4>1
    <3>2. \A n \in 1..Len(txs) : ~ (txs[n].kind = "open" /\ txs[n].result = "pending")
      BY <1>1, <2>8 DEF ContinuationInv
    <3>3. NewestActive'
      BY <2>4, <2>8 DEF ContinuationInv, NewestActive
    <3>4. mem.before.sink <= usdc[LossSink]
      BY <1>1, <2>7, <2>8 DEF ContinuationInv, ReadAt
    <3> QED BY <2>3, <2>4, <2>7, <3>1, <3>2, <3>3, <3>4 DEF ContinuationInv
  <2>9. ASSUME VaultInv PROVE VaultInv'
    <3>1. usdc[DemoVault] <= mem.before.vault + inflow
      BY <1>1, <2>7, <2>9 DEF VaultInv, ReadAt
    <3> QED BY <2>3, <2>4, <2>7, <2>9, <3>1 DEF VaultInv, Lost
  <2>10. ASSUME LossInv PROVE LossInv'
    <3>1. \A n \in 1..Len(txs) : ~ (txs[n].kind = "loss" /\ txs[n].result = "pending")
      BY <1>1, <2>10 DEF LossInv
    <3>2. \A id \in OwnActive : mem.before.vault + Lost(id) <= Principal + inflow
      BY <1>1, <2>10 DEF LossInv, ReadAt
    <3> QED BY <2>3, <2>4, <2>7, <2>10, <3>1, <3>2 DEF LossInv, Lost
  <2>11. Learns
    BY <2>3, <2>6, <2>8, <2>9, <2>10 DEF Learns, Labels
  <2>12. evidence = Nothing
    BY <1>1, NoEvidence
  <2> QED BY <1>1, <2>11, <2>12, QuietInv
<1> QED BY <1>2, <1>3

\* The preflight's decision.
LEMMA PreflightInv ==
  ASSUME RunnerInv, Preflight
  PROVE  RunnerInv'
<1>1. /\ IndInv /\ RunnerTypes /\ TrackInv /\ pc = "scanning" /\ mem.scan = mem.before.counter
      /\ UNCHANGED <<evidence, faults, abandoned, chainVars>>
  BY DEF RunnerInv, Preflight, Quiet
<1>2. CASE Throw
  BY <1>1, <1>2, ThrowInv
<1>3. CASE MayProceed /\ pc' = "starting" /\ mem' = mem
  <2>1. /\ txs' = txs /\ OwnActive' = OwnActive /\ Owned' = Owned /\ losses' = losses /\ inflow' = inflow
        /\ usdc' = usdc /\ policies' = policies
    BY <1>1, ChainUnchanged
  <2>2. TrackInv'
    BY <1>1, <1>3, <2>1 DEF TrackInv, Opened, Lossy, Breached, Verified, Settled, Own
  <2>3. ~ NoneYet' /\ ~ BeforeLoss' /\ BeforeOpening /\ pc' \notin Verified
    BY <1>1, <1>3 DEF NoneYet, BeforeLoss, Asked, BeforeOpening, Preparing, Verified
  <2>4. ASSUME ContinuationInv PROVE ContinuationInv'
    <3>1. OwnActive \subseteq {mem.policyId} \ {0}
      <4>1. ASSUME NEW id \in OwnActive PROVE id = mem.policyId /\ id # 0
        BY <1>1, <2>4, OwnBelowCounter DEF ContinuationInv
      <4> QED BY <4>1
    <3>2. \A n \in 1..Len(txs) : ~ (txs[n].kind = "open" /\ txs[n].result = "pending")
      BY <1>1, <2>4 DEF ContinuationInv
    <3>3. NewestActive'
      BY <2>1, <2>4 DEF ContinuationInv, NewestActive
    <3>4. mem.before.sink <= usdc[LossSink]
      BY <1>1, <2>3, <2>4 DEF ContinuationInv, ReadAt
    <3> QED BY <1>3, <2>1, <2>3, <3>1, <3>2, <3>3, <3>4 DEF ContinuationInv
  <2>5. ASSUME VaultInv PROVE VaultInv'
    <3>1. usdc[DemoVault] <= mem.before.vault + inflow
      BY <1>1, <2>3, <2>5 DEF VaultInv, ReadAt
    <3> QED BY <1>3, <2>1, <2>3, <2>5, <3>1 DEF VaultInv, Lost, MayProceed
  <2>6. ASSUME LossInv PROVE LossInv'
    <3>1. \A n \in 1..Len(txs) : ~ (txs[n].kind = "loss" /\ txs[n].result = "pending")
      BY <1>1, <2>6 DEF LossInv
    <3>2. \A id \in OwnActive : mem.before.vault + Lost(id) <= Principal + inflow
      BY <1>1, <2>6 DEF LossInv, ReadAt
    <3> QED BY <1>3, <2>1, <2>3, <2>6, <3>1, <3>2 DEF LossInv, Lost, MayProceed
  <2>7. Learns
    BY <1>1, <1>3, <2>2, <2>4, <2>5, <2>6 DEF Learns, Labels, RunnerTypes
  <2>8. evidence = Nothing
    BY <1>1, NoEvidence
  <2> QED BY <1>1, <2>7, <2>8, QuietInv
<1> QED BY <1>2, <1>3 DEF Preflight

\* The guardian is up: a new lifecycle, or the one that was interrupted.
LEMMA GuardianReadyInv ==
  ASSUME RunnerInv, GuardianReady
  PROVE  RunnerInv'
<1>1. /\ IndInv /\ RunnerTypes /\ TrackInv /\ pc = "starting"
      /\ UNCHANGED <<evidence, faults, abandoned, chainVars>>
  BY DEF RunnerInv, GuardianReady, Quiet
<1>2. /\ txs' = txs /\ OwnActive' = OwnActive /\ Owned' = Owned /\ losses' = losses /\ inflow' = inflow
      /\ usdc' = usdc /\ policies' = policies
  BY <1>1, ChainUnchanged
<1>3. \/ pc' = "approve" /\ mem.policyId = 0
      \/ pc' = "recover" /\ mem.policyId # 0 /\ mem' = mem
  BY DEF GuardianReady, Goto
<1>4. mem' \in Memories /\ mem'.before = mem.before
  BY <1>1 DEF GuardianReady, RunnerTypes, Memories, Snapshots
<1>5. TrackInv'
  BY <1>1, <1>2, <1>3 DEF TrackInv, Opened, Lossy, Breached, Verified, Settled, Own
<1>6. BeforeOpening /\ pc' \notin Verified \cup {"reading", "scanning", "starting", "opening"}
      /\ pc' \notin {"opened", "verify", "losing"} /\ ReadAt("reading", "sink")
      /\ ReadAt("reading", "vault")
  BY <1>1, <1>3 DEF BeforeOpening, Preparing, Verified, ReadAt
<1>7. ASSUME ContinuationInv PROVE ContinuationInv'
  <2>1. OwnActive \subseteq {mem.policyId} \ {0}
    BY <1>1, <1>7 DEF ContinuationInv
  <2>2. \A n \in 1..Len(txs) : ~ (txs[n].kind = "open" /\ txs[n].result = "pending")
    BY <1>1, <1>7 DEF ContinuationInv
  <2>3. NewestActive'
    BY <1>2, <1>7 DEF ContinuationInv, NewestActive
  <2>4. mem.before.sink <= usdc[LossSink]
    BY <1>6, <1>7 DEF ContinuationInv
  <2>5. NoneYet' => OwnActive = {}
    BY <1>3, <1>6, <2>1 DEF NoneYet, Asked
  <2>6. pc' = "recover" => OwnActive \subseteq {mem'.policyId}
    BY <1>3, <2>1
  <2> QED BY <1>2, <1>4, <1>6, <2>2, <2>3, <2>4, <2>5, <2>6 DEF ContinuationInv
<1>8. ASSUME VaultInv PROVE VaultInv'
  <2>1. usdc[DemoVault] <= mem.before.vault + inflow
    BY <1>6, <1>8 DEF VaultInv
  <2>2. NoneYet' => mem.before.vault = 0
    BY <1>1, <1>3, <1>6, <1>8 DEF VaultInv, NoneYet, Asked
  <2> QED BY <1>2, <1>4, <1>6, <1>8, <2>1, <2>2 DEF VaultInv, Lost
<1>9. ASSUME ContinuationInv, LossInv PROVE LossInv'
  <2>1. \A n \in 1..Len(txs) : ~ (txs[n].kind = "loss" /\ txs[n].result = "pending")
    BY <1>1, <1>9 DEF LossInv
  <2>2. ASSUME NEW id \in OwnActive PROVE Lost(id) <= inflow
    <3>1. id \in PolicyIds /\ mem.policyId # 0
      BY <1>1, <1>9 DEF ContinuationInv, OwnActive
    <3>2. mem.before.vault = Principal /\ mem.before.vault + Lost(id) <= Principal + inflow
      BY <1>1, <1>6, <1>9, <3>1 DEF LossInv
    <3>3. Lost(id) \in Nat /\ Principal \in Nat /\ inflow \in Nat
      BY <1>1, <3>1, LostType, Terms DEF RunnerTypes
    <3> QED BY <3>2, <3>3
  <2> QED BY <1>2, <1>6, <1>9, <2>1, <2>2 DEF LossInv, Lost
<1>10. Learns
  BY <1>3, <1>4, <1>5, <1>7, <1>8, <1>9 DEF Learns, Labels
<1>11. evidence = Nothing
  BY <1>1, NoEvidence
<1> QED BY <1>1, <1>10, <1>11, QuietInv

\* The approval's receipt is there.
LEMMA AwaitApprovalInv ==
  ASSUME RunnerInv, AwaitApproval
  PROVE  RunnerInv'
<1>1. /\ IndInv /\ RunnerTypes /\ TrackInv /\ pc = "approving" /\ pc' = "open" /\ mem' = mem
      /\ UNCHANGED <<evidence, faults, abandoned, chainVars>>
  BY DEF RunnerInv, AwaitApproval, Quiet, Goto
<1>2. /\ txs' = txs /\ OwnActive' = OwnActive /\ Owned' = Owned /\ losses' = losses /\ inflow' = inflow
      /\ usdc' = usdc
  BY <1>1, ChainUnchanged
<1>3. TrackInv'
  BY <1>1 DEF TrackInv, Opened, Lossy, Breached, Verified, Settled
<1>4. NoneYet /\ BeforeOpening /\ BeforeLoss /\ pc' \notin Verified
      /\ ReadAt("reading", "sink") /\ ReadAt("reading", "vault")
  BY <1>1 DEF NoneYet, BeforeOpening, BeforeLoss, Asked, Preparing, Verified, ReadAt
<1>5. ASSUME ContinuationInv PROVE ContinuationInv'
  <2>1. \A n \in 1..Len(txs) : ~ (txs[n].kind = "open" /\ txs[n].result = "pending")
    BY <1>1, <1>5 DEF ContinuationInv
  <2>2. OwnActive = {} /\ mem.before.sink <= usdc[LossSink]
    BY <1>4, <1>5 DEF ContinuationInv
  <2> QED BY <1>1, <1>2, <1>4, <2>1, <2>2 DEF ContinuationInv, NewestActive
<1>6. ASSUME VaultInv PROVE VaultInv'
  <2>1. usdc[DemoVault] <= mem.before.vault + inflow /\ mem.before.vault = 0
    BY <1>4, <1>6 DEF VaultInv
  <2> QED BY <1>1, <1>2, <1>6, <2>1 DEF VaultInv, Lost
<1>7. ASSUME LossInv PROVE LossInv'
  <2>1. \A n \in 1..Len(txs) : ~ (txs[n].kind = "loss" /\ txs[n].result = "pending")
    BY <1>1, <1>7 DEF LossInv
  <2> QED BY <1>1, <1>2, <1>4, <1>7, <2>1 DEF LossInv, Lost
<1>8. Learns
  BY <1>1, <1>3, <1>5, <1>6, <1>7 DEF Learns, Labels, RunnerTypes
<1>9. evidence = Nothing
  BY <1>1, NoEvidence
<1> QED BY <1>1, <1>8, <1>9, QuietInv

\* The runner's transactions, and the awaits before and after it sends them.
Sends(from, kind, label) ==
    \/ from = "approve" /\ kind = "approve" /\ label = "approving"
    \/ from = "open" /\ kind = "open" /\ label = "opening"
    \/ from = "lose" /\ kind = "loss" /\ label = "losing"

\* A transaction is sent: it is the last one and pending, the others stay.
LEMMA SubmitFacts ==
  ASSUME RunnerTypes, NEW kind \in {"approve", "open", "loss"}, NEW amount \in Nat,
         NEW label \in Labels, Submit(kind, amount, label)
  PROVE  /\ Still /\ RunnerTypes' /\ UNCHANGED <<evidence, faults, abandoned>>
         /\ OwnActive' = OwnActive /\ Owned' = Owned /\ losses' = losses /\ inflow' = inflow /\ usdc' = usdc
         /\ policies' = policies /\ opening' = opening
         /\ pc' = label /\ mem' \in Memories /\ mem'.tx = Len(txs')
         /\ mem'.before = mem.before /\ mem'.policyId = mem.policyId /\ mem'.openTx = mem.openTx
         /\ Len(txs) \in Nat /\ Len(txs') = Len(txs) + 1
         /\ txs'[Len(txs')].kind = kind /\ txs'[Len(txs')].result = "pending"
         /\ \A n \in 1..Len(txs) : txs'[n] = txs[n]
<1>1. PICK tx \in Transactions :
         tx = [kind |-> kind, amount |-> amount, result |-> "pending"]
  BY DEF Transactions
<1>2. txs \in Seq(Transactions) /\ txs' = Append(txs, tx)
  BY <1>1 DEF Submit, RunnerTypes
<1>3. PICK length \in Nat : length = Len(txs)
  BY <1>2, LenProperties
<1>4. /\ txs' \in Seq(Transactions) /\ Len(txs') = length + 1 /\ txs'[length + 1] = tx
      /\ \A n \in 1..length : txs'[n] = txs[n]
  BY <1>2, <1>3, AppendProperties
<1>5. PICK next \in Nat : next = length + 1
  BY <1>3
<1>6. mem' = [mem EXCEPT !.tx = next] /\ mem \in Memories
  BY <1>3, <1>5 DEF Submit, RunnerTypes
<1>7. /\ mem' \in Memories /\ mem'.tx = next /\ mem'.before = mem.before
      /\ mem'.policyId = mem.policyId /\ mem'.openTx = mem.openTx
  BY <1>6 DEF Memories
<1>8. TxsKept
  BY <1>3, <1>4 DEF TxsKept
<1>9. /\ UNCHANGED <<vars, allowance, opening, executor, losses, inflow>>
      /\ UNCHANGED <<evidence, faults, abandoned>> /\ pc' = label
  BY DEF Submit, Goto
<1>10. policies' = policies /\ usdc' = usdc /\ treasury' = treasury
  BY <1>9 DEF vars, vaultVars, managerVars, adminVars
<1>11. Still /\ OwnActive' = OwnActive /\ Owned' = Owned
  BY <1>8, <1>9, <1>10 DEF Still, OwnActive, Owned, Own
<1>12. RunnerTypes'
  BY <1>4, <1>7, <1>9, <1>10 DEF RunnerTypes
<1>13. Len(txs') = next /\ txs'[next].kind = kind /\ txs'[next].result = "pending"
  BY <1>1, <1>4, <1>5
<1> QED BY <1>3, <1>4, <1>5, <1>7, <1>9, <1>10, <1>11, <1>12, <1>13

\* A transaction is sent where the invariant allows one of its kind to be pending.
LEMMA SubmitInv ==
  ASSUME RunnerInv, NEW kind \in {"approve", "open", "loss"}, NEW amount \in Nat,
         NEW label \in Labels, Sends(pc, kind, label), Submit(kind, amount, label)
  PROVE  RunnerInv'
<1>1. IndInv /\ RunnerTypes /\ TrackInv /\ ChainInv
  BY DEF RunnerInv
<1>2. /\ Still /\ RunnerTypes' /\ UNCHANGED <<evidence, faults, abandoned>>
      /\ OwnActive' = OwnActive /\ Owned' = Owned /\ losses' = losses /\ inflow' = inflow /\ usdc' = usdc
      /\ policies' = policies /\ opening' = opening
      /\ pc' = label /\ mem'.tx = Len(txs')
      /\ mem'.before = mem.before /\ mem'.policyId = mem.policyId /\ mem'.openTx = mem.openTx
      /\ Len(txs) \in Nat /\ Len(txs') = Len(txs) + 1
      /\ txs'[Len(txs')].kind = kind /\ txs'[Len(txs')].result = "pending"
      /\ \A n \in 1..Len(txs) : txs'[n] = txs[n]
  BY <1>1, SubmitFacts
<1>3. IndInv' /\ ChainInv'
  BY <1>1, <1>2, StillIndInv, StillChain
<1>4. Holds(kind, mem.tx)'
  BY <1>2 DEF Holds
<1>5. \A n : Holds("open", n) => n \in 1..Len(txs') /\ txs'[n].kind = "open"
  BY <1>2 DEF Holds
<1>6. Sends(pc, kind, pc') /\ pc' = label
  BY <1>2
<1>7. TrackInv'
  <2>1. pc' \in Opened => Holds("open", mem.openTx)'
    BY <1>1, <1>2, <1>5, <1>6 DEF TrackInv, Sends, Opened, Holds
  <2>2. pc' \in Verified => mem'.policyId \in PolicyIds /\ Own(mem.policyId)'
    BY <1>1, <1>2, <1>6 DEF TrackInv, Sends, Verified, Own
  <2> QED BY <1>4, <1>6, <2>1, <2>2 DEF TrackInv, Sends, Lossy, Breached, Settled, Opened, Verified
<1>8. evidence = Nothing /\ EvidenceInv'
  <2>1. pc # "off"
    BY DEF Sends
  <2> QED BY <1>2, <2>1, NoEvidence DEF EvidenceInv
<1>9. Receipt'.result = "pending"
  BY <1>2 DEF Receipt
<1>10. /\ NoneYet' <=> NoneYet
       /\ BeforeOpening' <=> BeforeOpening
       /\ BeforeLoss' /\ BeforeLoss
       /\ ReadAt("reading", "sink") /\ ReadAt("reading", "vault")
       /\ pc' \notin {"reading", "scanning", "starting", "recover", "opened", "verify"}
       /\ pc' \in Verified <=> pc \in Verified
  BY <1>6, <1>9 DEF Sends, NoneYet, BeforeOpening, BeforeLoss, Asked, Preparing, ReadAt, Verified
<1>11. ASSUME NEW k, NEW n \in 1..Len(txs'), txs'[n].kind = k, txs'[n].result = "pending",
              \A m \in 1..Len(txs) : ~ (txs[m].kind = k /\ txs[m].result = "pending")
       PROVE  k = kind /\ n = mem'.tx
  <2>1. n \notin 1..Len(txs)
    BY <1>2, <1>11
  <2>2. n = Len(txs')
    BY <1>2, <2>1
  <2> QED BY <1>2, <1>11, <2>2
<1>12. ASSUME ContinuationInv PROVE ContinuationInv'
  <2>1. \A n \in 1..Len(txs) : ~ (txs[n].kind = "open" /\ txs[n].result = "pending")
    BY <1>12 DEF ContinuationInv, Sends
  <2>2. \A n \in 1..Len(txs') :
           txs'[n].kind = "open" /\ txs'[n].result = "pending" => pc' = "opening" /\ mem'.tx = n
    BY <1>6, <1>11, <2>1 DEF Sends
  <2>3. NewestActive'
    BY <1>2, <1>12 DEF ContinuationInv, NewestActive
  <2>4. NoneYet' => OwnActive' = {}
    BY <1>2, <1>10, <1>12 DEF ContinuationInv
  <2>5. BeforeOpening' => mem'.before.sink <= usdc'[LossSink]
    BY <1>2, <1>10, <1>12 DEF ContinuationInv
  <2>6. pc' \in Verified => Identified(mem.policyId, mem.openTx)'
    <3>1. pc \in Verified => Identified(mem.policyId, mem.openTx)
      BY <1>12 DEF ContinuationInv
    <3> QED BY <1>2, <1>10, <3>1 DEF Identified, OpenedBy
  <2>7. ~ (pc' = "opening" /\ Receipt'.result = "success")
    BY <1>9
  <2> QED BY <1>10, <2>2, <2>3, <2>4, <2>5, <2>6, <2>7 DEF ContinuationInv
<1>13. ASSUME VaultInv PROVE VaultInv'
  <2>1. BeforeOpening' => usdc'[DemoVault] <= mem'.before.vault + inflow'
    BY <1>2, <1>10, <1>13 DEF VaultInv
  <2>2. NoneYet' => mem'.before.vault = 0
    BY <1>2, <1>10, <1>13 DEF VaultInv
  <2>3. \A id \in OwnActive' : usdc'[DemoVault] + Lost(id)' <= Principal + inflow'
    BY <1>2, <1>13 DEF VaultInv, Lost
  <2> QED BY <1>10, <2>1, <2>2, <2>3 DEF VaultInv
<1>14. ASSUME LossInv PROVE LossInv'
  <2>1. \A n \in 1..Len(txs) : ~ (txs[n].kind = "loss" /\ txs[n].result = "pending")
    BY <1>14 DEF LossInv, Sends
  <2>2. \A n \in 1..Len(txs') :
           txs'[n].kind = "loss" /\ txs'[n].result = "pending" => pc' = "losing" /\ mem'.tx = n
    BY <1>6, <1>11, <2>1 DEF Sends
  <2>3. \A id \in OwnActive' : Lost(id)' <= inflow'
    BY <1>2, <1>10, <1>14 DEF LossInv, Lost
  <2>4. inflow' < LossAssets => \A id \in PolicyIds : losses'[id] <= 1
    BY <1>2, <1>14 DEF LossInv
  <2> QED BY <1>10, <2>2, <2>3, <2>4 DEF LossInv
<1>15. abandoned' = abandoned /\ (abandoned = {} => "opening" \notin abandoned)
  BY <1>2
<1> QED BY <1>2, <1>3, <1>7, <1>8, <1>12, <1>13, <1>14, <1>15 DEF RunnerInv

\* The evidence is written.
LEMMA WriteEvidenceInv ==
  ASSUME RunnerInv, WriteEvidence
  PROVE  RunnerInv'
<1>1. /\ RunnerTypes /\ ChainInv /\ TrackInv /\ pc = "writing" /\ Throw
      /\ UNCHANGED <<faults, abandoned, chainVars>>
      /\ evidence' = [policyId |-> mem.policyId, openTx |-> mem.openTx, lossTx |-> mem.tx,
                      valueAfterLoss |-> mem.valueAfterLoss]
  BY DEF RunnerInv, WriteEvidence
<1>2. Ends
  BY <1>1 DEF Throw, Ends, RunnerTypes
<1>3. /\ txs' = txs /\ policies' = policies /\ losses' = losses /\ executor' = executor
  BY <1>1, ChainUnchanged
<1>4. PICK id \in PolicyIds : id = mem.policyId /\ Own(id) /\ policies[id].status = "Executed"
  BY <1>1 DEF TrackInv, Settled, Verified
<1>5. /\ Holds("open", mem.openTx) /\ Holds("loss", mem.tx) /\ txs[mem.tx].result = "success"
      /\ SettlementHolds
      /\ opening[id].before.sink + Lost(id) <= mem.final.sink
  BY <1>1, <1>4 DEF TrackInv, Opened, Lossy, Breached, Settled, ReadAt
<1>6. OwnPolicyInv(id)
  BY <1>1, <1>4 DEF ChainInv
<1>7. /\ losses[id] >= 1 /\ policies[id].assetsReturned <= policies[id].triggerAssets
      /\ opening[id] # Nothing
  BY <1>4, <1>6 DEF OwnPolicyInv
<1>8. /\ executor[id] = Keeper /\ policies[id].assetsReturned = mem.valueAfterLoss
      /\ mem.final.sink - mem.before.sink = LossAssets
  BY <1>4, <1>5 DEF SettlementHolds
<1>9. ASSUME "opening" \notin abandoned PROVE txs[mem.openTx].amount = id /\ losses[id] = 1
  <2>1. Identified(id, mem.openTx)
    BY <1>1, <1>4, <1>9 DEF RunnerInv, ContinuationInv, Verified
  <2>2. mem.before.sink <= opening[id].before.sink /\ txs[mem.openTx].amount = id
    BY <2>1 DEF Identified, OpenedBy
  <2>3. /\ mem.before.sink \in Nat /\ mem.final.sink \in Nat /\ opening[id].before.sink \in Nat
        /\ Lost(id) \in Nat /\ losses[id] \in Nat /\ LossAssets \in Nat /\ 0 < LossAssets
    BY <1>1, <1>7, LostType, Terms DEF RunnerTypes, Memories, Openings, Snapshots
  <2>4. Lost(id) <= LossAssets
    BY <1>5, <1>8, <2>2, <2>3
  <2>5. losses[id] * LossAssets <= 1 * LossAssets
    BY <2>3, <2>4 DEF Lost
  <2>6. losses[id] <= 1
    BY <2>3, <2>5, Products
  <2> QED BY <1>7, <2>2, <2>3, <2>6
<1>10. PICK e : e = evidence'
  OBVIOUS
<1>11. /\ e.policyId = id /\ e.openTx = mem.openTx /\ e.lossTx = mem.tx
       /\ e.valueAfterLoss = mem.valueAfterLoss /\ abandoned' = abandoned
  BY <1>1, <1>4, <1>10
<1>12. EvidenceTruthful'
  BY <1>3, <1>4, <1>5, <1>7, <1>8, <1>9, <1>10, <1>11 DEF EvidenceTruthful, Holds, Own
<1>13. EvidenceInv'
  BY <1>1, <1>3, <1>5, <1>10, <1>11, <1>12 DEF EvidenceInv, Throw, Holds
<1> QED BY <1>2, <1>13, EndsInv DEF RunnerInv

-----------------------------------------------------------------------------
(* The theorems.                                                            *)

\* Nothing has happened at first.
LEMMA InitRunnerInv == RunnerInit => RunnerInv
<1> SUFFICES ASSUME RunnerInit PROVE RunnerInv
  OBVIOUS
<1>1. IndInv
  BY FreshIndInv DEF RunnerInit
<1>2. /\ txs = <<>> /\ Len(txs) = 0 /\ pc = "off" /\ mem = NoMem /\ evidence = Nothing
      /\ abandoned = {} /\ inflow = 0
      /\ \A id \in PolicyIds : policies[id].owner = ZeroAddress /\ losses[id] = 0
  BY DEF RunnerInit, NoPolicy
<1>3. RunnerTypes
  <2>1. mem \in Memories
    BY <1>2, NoMemType
  <2>2. txs \in Seq(Transactions)
    BY <1>2
  <2> QED BY <1>2, <2>1, <2>2 DEF RunnerInit, RunnerTypes, Labels
<1>4. \A id \in PolicyIds : ~ Own(id) /\ ~ Exists(id)
  BY <1>2, Terms DEF Own, Exists
<1>5. OwnActive = {}
  BY <1>4 DEF OwnActive, Own
<1>6. ChainInv
  BY <1>2, <1>4 DEF ChainInv
<1>7. TrackInv
  BY <1>2 DEF TrackInv, Opened, Lossy, Breached, Verified, Settled
<1>8. ~ NoneYet /\ ~ BeforeOpening /\ ~ BeforeLoss /\ pc \notin Verified
  BY <1>2 DEF NoneYet, BeforeOpening, BeforeLoss, Asked, Preparing, Verified
<1>9. ContinuationInv /\ VaultInv /\ LossInv
  <2>1. 1..Len(txs) = {}
    BY <1>2
  <2> QED BY <1>2, <1>5, <1>8, <2>1 DEF ContinuationInv, VaultInv, LossInv, NewestActive
<1>10. EvidenceInv
  BY <1>2 DEF EvidenceInv
<1> QED BY <1>1, <1>3, <1>6, <1>7, <1>9, <1>10 DEF RunnerInv

\* Every step keeps the invariant.
LEMMA NextRunnerInv == RunnerInv /\ [RunnerNext]_allVars => RunnerInv'
<1> SUFFICES ASSUME RunnerInv, [RunnerNext]_allVars PROVE RunnerInv'
  OBVIOUS
<1>1. CASE Start
  BY <1>1, StartInv
<1>2. CASE ReadBefore
  BY <1>2, ReadBeforeInv
<1>3. CASE ScanPolicy
  BY <1>3, ScanPolicyInv
<1>4. CASE Preflight
  BY <1>4, PreflightInv
<1>5. CASE GuardianReady
  BY <1>5, GuardianReadyInv
<1>6. CASE SubmitApproval
  <2>1. /\ Submit("approve", ApprovalAmount, "approving") /\ Sends(pc, "approve", "approving")
        /\ ApprovalAmount \in Nat /\ "approving" \in Labels
    BY <1>6, Terms DEF SubmitApproval, Sends, ApprovalAmount, Labels
  <2> QED BY <2>1, SubmitInv
<1>7. CASE AwaitApproval
  BY <1>7, AwaitApprovalInv
<1>8. CASE SubmitOpening
  <2>1. /\ Submit("open", 0, "opening") /\ Sends(pc, "open", "opening") /\ "opening" \in Labels
    BY <1>8 DEF SubmitOpening, Sends, Labels
  <2> QED BY <2>1, SubmitInv
<1>9. CASE AwaitOpening
  BY <1>9, AwaitOpeningInv
<1>10. CASE ReadAfterOpen
  BY <1>10, ReadAfterOpenInv
<1>11. CASE RecoverOpening
  BY <1>11, RecoverOpeningInv
<1>12. CASE VerifyOpening
  BY <1>12, VerifyOpeningInv
<1>13. CASE SubmitLoss
  <2>1. /\ Submit("loss", LossAssets, "losing") /\ Sends(pc, "loss", "losing")
        /\ LossAssets \in Nat /\ "losing" \in Labels
    BY <1>13, Terms DEF SubmitLoss, Sends, Labels
  <2> QED BY <2>1, SubmitInv
<1>14. CASE AwaitLoss
  BY <1>14, AwaitLossInv
<1>15. CASE AwaitExecution
  BY <1>15, AwaitExecutionInv
<1>16. CASE ReadSettlement
  BY <1>16, ReadSettlementInv
<1>17. CASE CheckSettlement
  BY <1>17, CheckSettlementInv
<1>18. CASE WriteEvidence
  BY <1>18, WriteEvidenceInv
<1>19. CASE Fail
  BY <1>19, FailInv
<1>20. CASE GuardianExecutes \/ OtherExecutes \/ OthersAct \/ \E n \in 1..Len(txs) : Mine(n)
  BY <1>20, ChainStepInv
<1>21. CASE UNCHANGED allVars
  <2>1. IndInv /\ RunnerTypes /\ ChainInv
    BY DEF RunnerInv
  <2>2. UNCHANGED chainVars /\ UNCHANGED runnerVars
    BY <1>21 DEF allVars
  <2>3. /\ Still /\ txs' = txs /\ OwnActive' = OwnActive /\ Owned' = Owned /\ allowance' = allowance
        /\ opening' = opening /\ losses' = losses /\ executor' = executor /\ inflow' = inflow
        /\ policies' = policies /\ usdc' = usdc /\ treasury' = treasury
    BY <2>1, <2>2, ChainUnchanged
  <2>4. IndInv' /\ ChainInv'
    BY <2>1, <2>3, StillIndInv, StillChain
  <2>5. RunnerTypes'
    BY <2>1, <2>2, <2>3 DEF RunnerTypes, runnerVars
  <2>6. Keeps
    BY <2>2, <2>3 DEF Keeps, Still, Own
  <2>7. inflow \in Nat
    BY <2>1 DEF RunnerTypes
  <2>8. Calm
    BY <2>1, <2>3, <2>4, <2>6, <2>7, Balances DEF Calm
  <2> QED BY <2>4, <2>5, <2>8, CalmInv
<1> QED BY <1>1, <1>2, <1>3, <1>4, <1>5, <1>6, <1>7, <1>8, <1>9, <1>10, <1>11, <1>12, <1>13, <1>14,
           <1>15, <1>16, <1>17, <1>18, <1>19, <1>20, <1>21 DEF RunnerNext, RunnerStep

\* The invariant of the runner and the chain it works on.
THEOREM RunnerInvariance == RunnerSpec => []RunnerInv
<1>1. RunnerInit => RunnerInv
  BY InitRunnerInv
<1>2. RunnerInv /\ [RunnerNext]_allVars => RunnerInv'
  BY NextRunnerInv
<1> QED BY <1>1, <1>2, PTL DEF RunnerSpec

\* The evidence that is published is true, whatever the runner was interrupted in,
\* whoever executed or cancelled policies meanwhile, and in whatever order the chain
\* answered.
THEOREM EvidenceIsTruthful == RunnerSpec => []EvidenceTruthful
<1>1. RunnerInv => EvidenceTruthful
  BY DEF RunnerInv, EvidenceInv, EvidenceTruthful
<1> QED BY <1>1, RunnerInvariance, PTL

\* A lifecycle that was not through its loss and its execution is continued and not
\* repeated, unless a run ended with its opening in flight.
THEOREM LifecycleContinued == RunnerSpec => []ContinuedNotRepeated
<1>1. ASSUME RunnerInv, "opening" \notin abandoned, NEW i \in PolicyIds, NEW j \in PolicyIds,
             policies[i].owner = Wallet, policies[j].owner = Wallet, i < j
      PROVE  \/ policies[i].status \in {"Cancelled", "Expired"}
             \/ policies[i].status = "Executed" /\ losses[i] >= 1
  <2>1. IndInv /\ Own(i) /\ OwnPolicyInv(i) /\ NewestActive
    BY <1>1 DEF RunnerInv, ChainInv, ContinuationInv, Own
  <2>2. policies[i].status \in Statuses /\ i \in Nat /\ j \in Nat
    BY <2>1, ChainTypes DEF Policy
  <2>3. i \notin OwnActive
    BY <1>1, <2>1, <2>2 DEF NewestActive, Owned, Own
  <2>4. policies[i].status # "Active"
    BY <1>1, <2>3 DEF OwnActive
  <2> QED BY <2>1, <2>2, <2>4 DEF OwnPolicyInv, Statuses
<1>2. RunnerInv => ContinuedNotRepeated
  BY <1>1 DEF ContinuedNotRepeated
<1> QED BY <1>2, RunnerInvariance, PTL

\* A policy is put through one loss, unless a run ended with a transaction in flight or
\* others filled the vault up by as much as a loss takes.
THEOREM OneLoss == RunnerSpec => []OneLossPerPolicy
<1>1. RunnerInv => OneLossPerPolicy
  BY DEF RunnerInv, LossInv, OneLossPerPolicy
<1> QED BY <1>1, RunnerInvariance, PTL

-----------------------------------------------------------------------------
(* The search in the log (BlockRanges) leaves out no block, for any arguments. *)

\* A window has a first block between the lower end of the search and its own
\* last block, and is no larger than allowed.
LEMMA FromBlockBounds ==
    ASSUME minimumBlock \in Nat, toBlock \in Int, maximumRangeSize \in Int,
           maximumRangeSize >= 1, minimumBlock <= toBlock
    PROVE  /\ FromBlock \in Nat /\ toBlock \in Nat
           /\ minimumBlock <= FromBlock /\ FromBlock <= toBlock
           /\ toBlock - FromBlock < maximumRangeSize
  BY DEF FromBlock

\* The ends of a recorded window are block numbers.
LEMMA WindowTypes ==
    ASSUME ranges \in Seq(BlockRange), NEW i \in 1..Len(ranges)
    PROVE  ranges[i].fromBlock \in Nat /\ ranges[i].toBlock \in Nat
<1>1. ranges[i] \in BlockRange
  OBVIOUS
<1> QED
  BY <1>1 DEF BlockRange

\* The lowest block searched is an integer.
LEMMA LowestInt ==
    ASSUME ranges \in Seq(BlockRange), maximumBlock \in Nat
    PROVE  Lowest \in Int
<1>1. CASE ranges = <<>>
  BY <1>1 DEF Lowest
<1>2. CASE ranges # <<>>
  <2>1. Len(ranges) \in 1..Len(ranges)
    BY <1>2
  <2> QED
    BY <1>2, <2>1, WindowTypes DEF Lowest
<1> QED
  BY <1>1, <1>2

\* Before the first turn nothing is searched, and nothing is claimed.
LEMMA InitLoop == SearchInit => LoopInv
  BY BlockAssumption DEF SearchInit, LoopInv, Lowest, WindowsDescend

\* A call that is rejected or has nothing left changes no window.
LEMMA EndKeeps == LoopInv /\ (Reject \/ Finish) => LoopInv'
<1> SUFFICES ASSUME LoopInv, Reject \/ Finish PROVE LoopInv'
  OBVIOUS
<1>1. /\ minimumBlock' = minimumBlock /\ maximumBlock' = maximumBlock
      /\ maximumRangeSize' = maximumRangeSize /\ toBlock' = toBlock /\ ranges' = ranges
      /\ outcome = "running" /\ outcome' \in {"returned", "rejected"}
      /\ outcome' = "returned" => toBlock < minimumBlock
  BY DEF Reject, Finish, arguments
<1>2. Lowest' = Lowest /\ (WindowsDescend' <=> WindowsDescend)
  BY <1>1 DEF Lowest, WindowsDescend
<1>3. outcome' = "returned" => Lowest <= minimumBlock
  <2>1. Lowest \in Int /\ toBlock = Lowest - 1 /\ minimumBlock \in Nat
    BY <1>1, LowestInt DEF LoopInv
  <2> QED
    BY <2>1, <1>1
<1> QED
  BY <1>1, <1>2, <1>3 DEF LoopInv, Within

\* A turn adds the window right below the blocks searched so far.
LEMMA TurnKeeps == LoopInv /\ Turn => LoopInv'
<1> SUFFICES ASSUME LoopInv, Turn PROVE LoopInv'
  OBVIOUS
<1> DEFINE new == [fromBlock |-> FromBlock, toBlock |-> toBlock]
<1>1. /\ minimumBlock \in Nat /\ maximumBlock \in Nat /\ maximumRangeSize \in Int
      /\ toBlock \in Int /\ ranges \in Seq(BlockRange) /\ toBlock = Lowest - 1
      /\ minimumBlock <= toBlock /\ maximumRangeSize >= 1
  BY DEF LoopInv, Turn
<1>2. /\ FromBlock \in Nat /\ toBlock \in Nat
      /\ minimumBlock <= FromBlock /\ FromBlock <= toBlock
      /\ toBlock - FromBlock < maximumRangeSize
  BY <1>1, FromBlockBounds
<1>3. /\ minimumBlock' = minimumBlock /\ maximumBlock' = maximumBlock
      /\ maximumRangeSize' = maximumRangeSize
      /\ ranges' = Append(ranges, new)
  BY DEF Turn, arguments
<1>4. new \in BlockRange
  BY <1>2 DEF BlockRange
<1> HIDE DEF new
<1>5. /\ ranges' \in Seq(BlockRange) /\ ranges' # <<>> /\ Len(ranges') = Len(ranges) + 1
      /\ Len(ranges) \in Nat
      /\ \A i \in 1..Len(ranges) : ranges'[i] = ranges[i]
      /\ ranges'[Len(ranges) + 1] = new
  BY <1>1, <1>3, <1>4
<1>6. new.fromBlock = FromBlock /\ new.toBlock = toBlock
  BY DEF new
<1>7. Lowest' = FromBlock
  BY <1>5, <1>6 DEF Lowest
<1>8. toBlock < maximumBlock + 1
  <2>1. CASE ranges = <<>>
    BY <2>1, <1>1 DEF Lowest
  <2>2. CASE ranges # <<>>
    <3>1. Len(ranges) \in 1..Len(ranges) /\ ranges[Len(ranges)] \in BlockRange
      BY <2>2, <1>1
    <3>2. /\ ranges[Len(ranges)].fromBlock <= ranges[Len(ranges)].toBlock
          /\ ranges[Len(ranges)].toBlock <= maximumBlock
      BY <3>1 DEF LoopInv, WindowsDescend
    <3> QED
      BY <2>2, <3>1, <3>2, <1>1 DEF Lowest, BlockRange
  <2> QED
    BY <2>1, <2>2
<1>9. \A i \in 1..Len(ranges) : /\ ranges[i].fromBlock \in Nat
                                /\ toBlock < ranges[i].fromBlock
  <2> SUFFICES ASSUME NEW i \in 1..Len(ranges)
               PROVE  ranges[i].fromBlock \in Nat /\ toBlock < ranges[i].fromBlock
    OBVIOUS
  <2>1. ranges[i].fromBlock \in Nat /\ Lowest <= ranges[i].fromBlock
    BY <1>1, WindowTypes DEF LoopInv
  <2> QED
    BY <2>1, <1>1, LowestInt
<1>10. WindowsDescend'
  <2>1. \A i \in 1..Len(ranges') :
           /\ minimumBlock <= ranges'[i].fromBlock /\ ranges'[i].toBlock <= maximumBlock
           /\ ranges'[i].fromBlock <= ranges'[i].toBlock
           /\ ranges'[i].toBlock - ranges'[i].fromBlock < maximumRangeSize
    <3> SUFFICES ASSUME NEW i \in 1..Len(ranges')
                 PROVE  /\ minimumBlock <= ranges'[i].fromBlock
                        /\ ranges'[i].toBlock <= maximumBlock
                        /\ ranges'[i].fromBlock <= ranges'[i].toBlock
                        /\ ranges'[i].toBlock - ranges'[i].fromBlock < maximumRangeSize
      OBVIOUS
    <3>1. CASE i \in 1..Len(ranges)
      <4>1. ranges'[i] = ranges[i]
        BY <3>1, <1>5
      <4> QED
        BY <3>1, <4>1 DEF LoopInv, WindowsDescend
    <3>2. CASE i = Len(ranges) + 1
      <4>1. ranges'[i].fromBlock = FromBlock /\ ranges'[i].toBlock = toBlock
        BY <3>2, <1>5, <1>6
      <4>2. toBlock <= maximumBlock
        BY <1>1, <1>2, <1>8
      <4> QED
        BY <4>1, <4>2, <1>2
    <3> QED
      BY <3>1, <3>2, <1>5
  <2>2. \A i, j \in 1..Len(ranges') : i < j => ranges'[j].toBlock < ranges'[i].fromBlock
    <3> SUFFICES ASSUME NEW i \in 1..Len(ranges'), NEW j \in 1..Len(ranges'), i < j
                 PROVE  ranges'[j].toBlock < ranges'[i].fromBlock
      OBVIOUS
    <3>1. i \in 1..Len(ranges)
      BY <1>5
    <3>2. CASE j \in 1..Len(ranges)
      <4>1. ranges'[i] = ranges[i] /\ ranges'[j] = ranges[j]
        BY <3>1, <3>2, <1>5
      <4> QED
        BY <3>1, <3>2, <4>1 DEF LoopInv, WindowsDescend
    <3>3. CASE j = Len(ranges) + 1
      <4>1. ranges'[j].toBlock = toBlock /\ ranges'[i] = ranges[i]
        BY <3>1, <3>3, <1>5, <1>6
      <4>2. toBlock < ranges[i].fromBlock
        BY <3>1, <1>9
      <4> QED
        BY <4>1, <4>2
    <3> QED
      BY <3>2, <3>3, <1>5
  <2> QED
    BY <2>1, <2>2, <1>3 DEF WindowsDescend
<1>11. \A block \in FromBlock..maximumBlock :
          \E i \in 1..Len(ranges') : Within(block, ranges'[i])
  <2> SUFFICES ASSUME NEW block \in FromBlock..maximumBlock
               PROVE  \E i \in 1..Len(ranges') : Within(block, ranges'[i])
    OBVIOUS
  <2>1. CASE block <= toBlock
    <3>1. Within(block, ranges'[Len(ranges) + 1])
      BY <2>1, <1>2, <1>5, <1>6 DEF Within
    <3> QED
      BY <3>1, <1>5
  <2>2. CASE toBlock < block
    <3>1. block \in Lowest..maximumBlock
      BY <2>2, <1>1, <1>2, LowestInt
    <3>2. PICK i \in 1..Len(ranges) : Within(block, ranges[i])
      BY <3>1 DEF LoopInv
    <3>3. i \in 1..Len(ranges') /\ ranges'[i] = ranges[i]
      BY <1>5
    <3> QED
      BY <3>2, <3>3
  <2> QED
    BY <2>1, <2>2, <1>1, <1>2
<1>12. \A i \in 1..Len(ranges') : FromBlock <= ranges'[i].fromBlock
  <2> SUFFICES ASSUME NEW i \in 1..Len(ranges') PROVE FromBlock <= ranges'[i].fromBlock
    OBVIOUS
  <2>1. CASE i \in 1..Len(ranges)
    <3>1. ranges'[i] = ranges[i]
      BY <2>1, <1>5
    <3>2. ranges[i].fromBlock \in Nat /\ toBlock < ranges[i].fromBlock
      BY <2>1, <1>9
    <3>3. FromBlock \in Nat /\ toBlock \in Nat /\ FromBlock <= toBlock
      BY <1>2
    <3>4. FromBlock <= ranges[i].fromBlock
      BY <3>2, <3>3
    <3> QED
      BY <3>1, <3>4
  <2>2. CASE i = Len(ranges) + 1
    <3>1. ranges'[i].fromBlock = FromBlock
      BY <2>2, <1>5, <1>6
    <3>2. FromBlock \in Nat
      BY <1>2
    <3> QED
      BY <3>1, <3>2
  <2> QED
    BY <2>1, <2>2, <1>5
<1>13. /\ toBlock' \in Int /\ outcome' \in {"running", "returned", "rejected"}
       /\ outcome' = "running" => toBlock' = FromBlock - 1
       /\ outcome' = "returned" => FromBlock <= minimumBlock
  BY <1>1, <1>2 DEF Turn
<1> QED
  BY <1>1, <1>2, <1>3, <1>5, <1>7, <1>10, <1>11, <1>12, <1>13 DEF LoopInv

\* The loop invariant holds throughout.
THEOREM LoopInvariance == SearchSpec => []LoopInv
<1>1. LoopInv /\ [SearchNext]_searchVars => LoopInv'
  <2> SUFFICES ASSUME LoopInv, [SearchNext]_searchVars PROVE LoopInv'
    OBVIOUS
  <2>1. CASE Reject \/ Finish
    BY <2>1, EndKeeps
  <2>2. CASE Turn
    BY <2>2, TurnKeeps
  <2>3. CASE UNCHANGED searchVars
    BY <2>3 DEF searchVars, LoopInv, Lowest, WindowsDescend, Within
  <2> QED
    BY <2>1, <2>2, <2>3 DEF SearchNext
<1> QED
  BY <1>1, InitLoop, PTL DEF SearchSpec

\* Windows are small enough, disjoint and searched newest first.
THEOREM WindowsAlwaysDescend == SearchSpec => []WindowsDescend
<1>1. LoopInv => WindowsDescend
  BY DEF LoopInv
<1> QED
  BY <1>1, LoopInvariance, PTL

\* No block between the ends of the search is left out.
THEOREM SearchIsComplete == SearchSpec => []EveryBlockSearched
<1>1. LoopInv => EveryBlockSearched
  <2> SUFFICES ASSUME LoopInv, outcome = "returned",
                      NEW block \in minimumBlock..maximumBlock
               PROVE  \E i \in 1..Len(ranges) : Within(block, ranges[i])
    BY DEF EveryBlockSearched
  <2>1. Lowest \in Int
    BY LowestInt DEF LoopInv
  <2>2. block \in Lowest..maximumBlock
    BY <2>1 DEF LoopInv
  <2> QED
    BY <2>2 DEF LoopInv
<1> QED
  BY <1>1, LoopInvariance, PTL

\* The search that resumes an opening looks at every block exactly once, from the
\* newest window to the oldest.
THEOREM EachBlockSearchedOnce == SearchSpec => []SearchedOnce
BY WindowsAlwaysDescend, SearchIsComplete, PTL DEF SearchedOnce
=============================================================================
