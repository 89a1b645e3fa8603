------------------------ MODULE GuardedManagerProofs ------------------------
(***************************************************************************)
(* Theorems of GuardedManager: the contract, its vaults and its ledger     *)
(* implement the chain the guardian was modelled and proved over, so that  *)
(* what GuardianProofs says of the guardian holds over the contract, and   *)
(* the executions of the keeper pay what the guardian asked for.           *)
(*                                                                         *)
(* The invariant is the two of the parts together (GuardedInv): that of    *)
(* the contract makes a quote tell whether an execution is accepted, that  *)
(* of the guardian makes the keeper's calls well formed.                   *)
(***************************************************************************)
EXTENDS GuardedManager, ProtectionManagerProofs

-----------------------------------------------------------------------------
(* What the contract accepts.                                               *)

\* The value of an active policy is a number, and its vault has that much.
LEMMA QuotePayable ==
  ASSUME IndInv, NEW id \in PolicyIds, IsActive(id)
  PROVE  /\ PolicyValue(id) \in Nat /\ PolicyValue(id) <= usdc[policies[id].vault]
         /\ policies[id].shares <= activeSharesByVault[policies[id].vault]
<1>1. PICK vault, shares : vault = policies[id].vault /\ shares = policies[id].shares
  OBVIOUS
<1>2. /\ vault \in Vaults /\ shares \in Nat
      /\ usdc[vault] \in Nat /\ supply[vault] \in Nat
  BY <1>1, ActivePolicyFacts
<1>3. /\ activeSharesByVault[vault] \in Nat /\ ActiveShares(vault) = activeSharesByVault[vault]
      /\ activeSharesByVault[vault] <= supply[vault]
  BY <1>2, CustodyWithinSupply
<1>4. shares <= activeSharesByVault[vault]
  <2>1. PICK custody : custody = [i \in PolicyIds |-> CustodyOf(i, vault)]
    OBVIOUS
  <2>2. custody \in [PolicyIds -> Nat]
    BY <1>2, <2>1, CustodyType DEF IndInv, TypeOK
  <2>3. custody[id] <= SumFunctionOnSet(custody, PolicyIds)
    BY <2>2, PolicyIdsFinite, SumOfNaturals
  <2>4. custody[id] = shares
    BY <1>1, <2>1 DEF CustodyOf
  <2>5. SumFunctionOnSet(custody, PolicyIds) = ActiveShares(vault)
    BY <2>1, <2>2 DEF ActiveShares, SumFunction
  <2> QED BY <1>3, <2>3, <2>4, <2>5
<1>5. PICK value : value = ToAssets(shares, usdc[vault], supply[vault])
  OBVIOUS
<1>6. value \in Nat /\ value * (supply[vault] + 1) <= shares * (usdc[vault] + 1)
  BY <1>2, <1>5, ConversionsType, QuotesFavourVault
<1>7. value <= usdc[vault]
  <2>1. PICK t, i \in Nat : t = usdc[vault] + 1 /\ i = supply[vault] + 1
    BY <1>2
  <2>2. shares < i /\ value * i <= shares * t /\ 0 < t
    BY <1>2, <1>3, <1>4, <1>6, <2>1
  <2>3. (shares + 1) * t <= i * t /\ (shares + 1) * t = shares * t + t /\ shares * t \in Nat
        /\ i * t \in Nat /\ value * i \in Nat /\ i * t = t * i
    BY <1>2, <1>6, <2>1, <2>2, Products
  <2>4. value * i < t * i
    <3>1. PICK x, y, z \in Nat : x = value * i /\ y = shares * t /\ z = i * t
      BY <2>3
    <3>2. x <= y /\ y + t <= z /\ 0 < t /\ z = t * i
      BY <2>2, <2>3, <3>1
    <3> QED BY <2>1, <3>1, <3>2
  <2>5. ~ (t <= value)
    <3>1. t <= value => t * i <= value * i
      BY <1>6, <2>1, Products
    <3> QED BY <2>1, <2>3, <2>4, <3>1
  <2> QED BY <1>2, <1>6, <2>1, <2>5
<1> QED BY <1>1, <1>4, <1>5, <1>6, <1>7 DEF PolicyValue, PreviewRedeem

\* An exit of an active policy is accepted exactly when its minimum is not above
\* the policy's value: nothing else that _exitPolicy checks can fail.
LEMMA ExitAdmitted ==
  ASSUME IndInv, NEW id \in PolicyIds, IsActive(id), NEW minimumAssets \in Nat
  PROVE  ExitAccepted(id, minimumAssets) <=> minimumAssets <= PolicyValue(id)
<1>1. PICK vault, shares, beneficiary, assets :
         /\ vault = policies[id].vault /\ shares = policies[id].shares
         /\ beneficiary = policies[id].beneficiary /\ assets = PolicyValue(id)
  OBVIOUS
<1>2. /\ vault \in Vaults /\ shares \in Nat /\ beneficiary \in Accounts /\ beneficiary # vault
      /\ assets \in Nat /\ assets <= usdc[vault] /\ shares <= activeSharesByVault[vault]
  BY <1>1, ActivePolicyFacts, QuotePayable
<1>3. /\ usdc \in [Accounts -> Nat] /\ activeSharesByVault[vault] \in Nat
      /\ shareOf[vault][Manager] \in Nat
      /\ activeSharesByVault[vault] <= shareOf[vault][Manager]
  BY <1>2, AccountsFacts DEF IndInv, TypeOK, VaultTypeOK, ShareCustody
<1>4. Move(usdc, vault, beneficiary, assets)[beneficiary] - usdc[beneficiary] = assets
  <2>1. usdc[beneficiary] \in Nat
    BY <1>2, <1>3
  <2> QED BY <1>2, <1>3, <2>1 DEF Move
<1>5. /\ shares <= shareOf[vault][Manager]
      /\ activeSharesByVault[vault] - shares <= shareOf[vault][Manager] - shares
  BY <1>2, <1>3
<1> QED BY <1>1, <1>2, <1>4, <1>5 DEF ExitAccepted

\* _exitPolicy does what its redemption, its payment and its record say, and
\* nothing keeps it from doing so but what ExitAccepted checks.
LEMMA ExitDecided ==
  ASSUME IndInv, NEW id \in PolicyIds, IsActive(id), NEW outcome, NEW minimumAssets
  PROVE  ExitPolicy(id, outcome, minimumAssets) <=>
            /\ ExitAccepted(id, minimumAssets)
            /\ usdc' = Move(usdc, policies[id].vault, policies[id].beneficiary, PolicyValue(id))
            /\ shareOf' = [shareOf EXCEPT ![policies[id].vault][Manager] = @ - policies[id].shares]
            /\ supply' = [supply EXCEPT ![policies[id].vault] = @ - policies[id].shares]
            /\ Settle(id, outcome, PolicyValue(id))
            /\ UNCHANGED <<nextPolicyId, adminVars, now>>
<1>1. PICK vault, shares, beneficiary, assets, settled :
         /\ vault = policies[id].vault /\ shares = policies[id].shares
         /\ beneficiary = policies[id].beneficiary /\ assets = PolicyValue(id)
         /\ settled = Move(usdc, vault, beneficiary, assets)
  OBVIOUS
<1>2. vault \in Vaults /\ shares \in Nat
  BY <1>1, ActivePolicyFacts
<1>3. /\ shareOf \in [Vaults -> [Accounts -> Nat]] /\ activeSharesByVault \in [Vaults -> Nat]
      /\ Manager \in Accounts
  BY AccountsFacts DEF IndInv, TypeOK, VaultTypeOK
<1>4. ASSUME Settle(id, outcome, assets),
             shareOf' = [shareOf EXCEPT ![vault][Manager] = @ - shares]
      PROVE  SharesCovered(vault) <=>
                activeSharesByVault[vault] - shares <= shareOf[vault][Manager] - shares
  <2>1. activeSharesByVault'[vault] = activeSharesByVault[vault] - shares
    BY <1>1, <1>2, <1>3, <1>4 DEF Settle
  <2>2. shareOf'[vault][Manager] = shareOf[vault][Manager] - shares
    BY <1>2, <1>3, <1>4
  <2> QED BY <2>1, <2>2 DEF SharesCovered
<1>5. ExitPolicy(id, outcome, minimumAssets) <=>
         /\ assets <= usdc[vault]
         /\ settled[beneficiary] - usdc[beneficiary] = assets
         /\ minimumAssets <= assets
         /\ usdc' = settled
         /\ shares <= shareOf[vault][Manager]
         /\ shareOf' = [shareOf EXCEPT ![vault][Manager] = @ - shares]
         /\ supply' = [supply EXCEPT ![vault] = @ - shares]
         /\ Settle(id, outcome, assets)
         /\ SharesCovered(vault)
         /\ UNCHANGED <<nextPolicyId, adminVars, now>>
  <2>1. PICK returned : returned = settled[beneficiary] - usdc[beneficiary]
    OBVIOUS
  <2> QED BY <1>1, <2>1 DEF ExitPolicy, BurnFrom, PolicyValue
<1>6. ExitAccepted(id, minimumAssets) <=>
         /\ assets <= usdc[vault]
         /\ shares <= shareOf[vault][Manager]
         /\ settled[beneficiary] - usdc[beneficiary] = assets
         /\ minimumAssets <= assets
         /\ activeSharesByVault[vault] - shares <= shareOf[vault][Manager] - shares
  BY <1>1 DEF ExitAccepted
<1> HIDE DEF Settle
<1> QED BY <1>1, <1>4, <1>5, <1>6

\* No active policy is ever stuck: in every state the contract is in, an exit of it
\* that asks for no more than the policy is worth is accepted, whatever losses, gifts
\* and exits of others came before, and whoever its beneficiary is.
THEOREM ActivePoliciesCanLeave ==
  Spec => [](\A id \in PolicyIds, minimumAssets \in Nat :
                IsActive(id) /\ minimumAssets <= PolicyValue(id) =>
                   ExitAccepted(id, minimumAssets))
<1>1. IndInv => \A id \in PolicyIds, minimumAssets \in Nat :
                   IsActive(id) /\ minimumAssets <= PolicyValue(id) =>
                      ExitAccepted(id, minimumAssets)
  BY ExitAdmitted
<1> QED BY <1>1, Invariance, PTL

-----------------------------------------------------------------------------
(* What the guardian reads of the contract.                                 *)

\* What is read of the policies: a status, and a quote that is a number.
Readings ==
    /\ \A id \in PolicyIds : /\ StatusOf(id) \in {"None"} \cup Statuses
                             /\ StatusOf(id) = "Active" <=> IsActive(id)
                             /\ StatusOf(id) = "None" <=> ~ Exists(id)
                             /\ QuoteOf(id) \in Nat
                             /\ ~ IsActive(id) => QuoteOf(id) = 0
    /\ [id \in PolicyIds |-> QuoteOf(id)] \in G!Quotes([id \in PolicyIds |-> StatusOf(id)])

\* A contract in a state of its invariant is read so.
LEMMA ReadingsTyped == IndInv => Readings
<1> SUFFICES ASSUME IndInv PROVE Readings
  OBVIOUS
<1>1. ASSUME NEW id \in PolicyIds
      PROVE  /\ StatusOf(id) \in {"None"} \cup Statuses
             /\ StatusOf(id) = "Active" <=> IsActive(id)
             /\ StatusOf(id) = "None" <=> ~ Exists(id)
             /\ QuoteOf(id) \in Nat
             /\ ~ IsActive(id) => QuoteOf(id) = 0
  <2>1. policies[id] \in Policy
    BY DEF IndInv, TypeOK
  <2>2. policies[id].status \in Statuses /\ policies[id].status # "None"
    BY <2>1 DEF Policy, Statuses
  <2>3. IsActive(id) => PolicyValue(id) \in Nat
    BY QuotePayable
  <2> QED BY <2>2, <2>3 DEF StatusOf, QuoteOf, IsActive
<1> QED BY <1>1 DEF G!Quotes, Readings

\* The same of the next state.
LEMMA ReadingsTypedNext == IndInv' => Readings'
  BY ReadingsTyped, PTL

-----------------------------------------------------------------------------
(* A call of the contract, as the guardian's chain sees it.                 *)

\* What every policy is worth afterwards, and how often that has changed.
LEMMA MovesMapped ==
  ASSUME IndInv, IndInv', MovesCounted
  PROVE  G!ValuesMove
<1>1. Readings /\ Readings'
  BY ReadingsTyped, ReadingsTypedNext
<1>2. ASSUME NEW id \in PolicyIds
      PROVE  (IsActive(id) /\ IsActive(id)' /\ PolicyValue(id)' # PolicyValue(id)) <=>
             (StatusOf(id) = "Active" /\ StatusOf(id)' = "Active" /\ QuoteOf(id)' # QuoteOf(id))
  BY <1>1 DEF Readings, QuoteOf
<1>3. [id \in PolicyIds |-> QuoteOf(id)]' \in G!Quotes([id \in PolicyIds |-> StatusOf(id)]')
  BY <1>1 DEF Readings
<1> QED BY <1>2, <1>3 DEF MovesCounted, G!ValuesMove

\* When one policy changes, the readings of the others do not.
LEMMA OneChanges ==
  ASSUME NEW d \in PolicyIds, \A id \in PolicyIds : id # d => policies'[id] = policies[id],
         now' = now
  PROVE  /\ [id \in PolicyIds |-> StatusOf(id)]' =
               [[id \in PolicyIds |-> StatusOf(id)] EXCEPT ![d] = StatusOf(d)']
         /\ [id \in PolicyIds |-> TriggerOf(id)]' =
               [[id \in PolicyIds |-> TriggerOf(id)] EXCEPT ![d] = TriggerOf(d)']
         /\ EndedPolicies' \ {d} = EndedPolicies \ {d}
<1>1. \A id \in PolicyIds : id # d => StatusOf(id)' = StatusOf(id) /\ TriggerOf(id)' = TriggerOf(id)
  BY DEF StatusOf, TriggerOf, Exists
<1>2. EndedPolicies' \ {d} = EndedPolicies \ {d}
  BY DEF EndedPolicies, IsActive, Exists
<1> QED BY <1>1, <1>2

\* What openPolicy leaves: the next policy, active, with a window that is open and a
\* trigger below the greatest principal.
LEMMA OpenTells ==
  ASSUME IndInv, Open, NEW new, new = nextPolicyId
  PROVE  /\ new \in PolicyIds /\ ~ Exists(new) /\ \A i \in PolicyIds : i < new => Exists(i)
         /\ Exists(new)' /\ policies'[new].status = "Active"
         /\ policies'[new].triggerAssets \in 0..MaxPrincipal
         /\ now < policies'[new].expiresAt /\ policies'[new].assetsReturned = 0
         /\ \A id \in PolicyIds : id # new => policies'[id] = policies[id]
         /\ now' = now
<1> USE AccountsFacts, ManagerAssumption
<1>1. PICK sender \in Users, vault \in Vaults, beneficiary \in Beneficiaries,
           principal \in Principals, lossLimit \in LossLimits,
           duration \in Durations, minimumShares \in Minimums :
           OpenPolicy(sender, vault, beneficiary, principal, lossLimit, duration,
                      minimumShares)
  BY DEF Open
<1>2. principal \in Nat /\ lossLimit \in Nat /\ duration \in Nat
  OBVIOUS
<1>3. PICK opened : opened =
             [owner |-> sender, beneficiary |-> beneficiary, vault |-> vault,
              principalAssets |-> principal,
              shares |-> EntryShares(principal, CollectFee(sender, principal), vault),
              triggerAssets |-> TriggerAssets(principal, lossLimit),
              assetsReturned |-> 0, openedAt |-> now,
              expiresAt |-> now + duration, status |-> "Active"]
  OBVIOUS
<1>4. /\ nextPolicyId <= MaxPolicies
      /\ ValidRequest(vault, beneficiary, principal, lossLimit, duration, minimumShares)
      /\ policies' = [policies EXCEPT ![nextPolicyId] = opened]
      /\ now' = now
  BY <1>1, <1>3 DEF OpenPolicy
<1>5. /\ policies \in [PolicyIds -> Policy] /\ nextPolicyId \in 1..(MaxPolicies + 1)
      /\ now \in Nat
  BY DEF IndInv, TypeOK
<1>6. new \in PolicyIds
  BY <1>4, <1>5 DEF PolicyIds
<1>7. policies'[new] = opened /\ \A id \in PolicyIds : id # new => policies'[id] = policies[id]
  BY <1>4, <1>5, <1>6
<1>8. ~ Exists(new) /\ \A i \in PolicyIds : i < new => Exists(i)
  <2>1. \A i \in PolicyIds : Exists(i) <=> i < new
    BY DEF IndInv, PoliciesWellFormed
  <2>2. ~ (new < new)
    BY <1>5
  <2> QED BY <1>6, <2>1, <2>2
<1>9. Exists(new)'
  BY <1>3, <1>7 DEF Exists
<1>10. /\ 0 < principal /\ principal <= MaxPrincipal
       /\ 0 < lossLimit /\ lossLimit < BpsDenominator /\ 0 < duration
  BY <1>2, <1>4 DEF ValidRequest, BpsDenominator
<1>11. TriggerAssets(principal, lossLimit) \in 0..MaxPrincipal
  BY <1>2, <1>10, TriggerIsLoss
<1>12. now < now + duration
  BY <1>2, <1>5, <1>10
<1> QED BY <1>3, <1>4, <1>6, <1>7, <1>8, <1>9, <1>11, <1>12

\* What an exit leaves: the policy with its outcome and what it was worth.
LEMMA ExitTells ==
  ASSUME IndInv, NEW d \in PolicyIds, IsActive(d), NEW outcome, NEW minimumAssets,
         ExitPolicy(d, outcome, minimumAssets)
  PROVE  /\ Exists(d)' /\ policies'[d].status = outcome
         /\ policies'[d].triggerAssets = policies[d].triggerAssets
         /\ policies'[d].assetsReturned = PolicyValue(d) /\ minimumAssets <= PolicyValue(d)
         /\ \A id \in PolicyIds : id # d => policies'[id] = policies[id]
         /\ now' = now
<1>1. policies \in [PolicyIds -> Policy] /\ policies[d] \in Policy
  BY DEF IndInv, TypeOK
<1>2. PICK assets : assets = PolicyValue(d)
  OBVIOUS
<1>3. /\ policies' = [policies EXCEPT ![d].status = outcome, ![d].assetsReturned = assets]
      /\ minimumAssets <= assets /\ now' = now
  BY <1>2, ExitDecided DEF Settle, ExitAccepted
<1>4. policies'[d] = [policies[d] EXCEPT !.status = outcome, !.assetsReturned = assets]
  BY <1>1, <1>3
<1>5. /\ policies'[d].status = outcome /\ policies'[d].assetsReturned = assets
      /\ policies'[d].triggerAssets = policies[d].triggerAssets
      /\ policies'[d].owner = policies[d].owner
  BY <1>1, <1>4 DEF Policy
<1>6. \A id \in PolicyIds : id # d => policies'[id] = policies[id]
  BY <1>1, <1>3
<1> QED BY <1>2, <1>3, <1>5, <1>6 DEF Exists, IsActive

\* openPolicy is the opening of the guardian's chain.
LEMMA OpenMapped ==
  ASSUME IndInv, IndInv', OpenLogged, MovesCounted, UNCHANGED <<finalized, txs>>
  PROVE  \E id \in PolicyIds : G!OpenPolicy(id)
<1>1. PICK new : new = nextPolicyId
  OBVIOUS
<1>2. Open /\ G!Emit("opened", new)
  BY <1>1 DEF OpenLogged
<1>3. /\ new \in PolicyIds /\ ~ Exists(new) /\ \A i \in PolicyIds : i < new => Exists(i)
      /\ Exists(new)' /\ policies'[new].status = "Active"
      /\ policies'[new].triggerAssets \in 0..MaxPrincipal
      /\ now < policies'[new].expiresAt
      /\ \A id \in PolicyIds : id # new => policies'[id] = policies[id]
      /\ now' = now
  BY <1>1, <1>2, OpenTells
<1>4. /\ [id \in PolicyIds |-> StatusOf(id)]' =
            [[id \in PolicyIds |-> StatusOf(id)] EXCEPT ![new] = StatusOf(new)']
      /\ [id \in PolicyIds |-> TriggerOf(id)]' =
            [[id \in PolicyIds |-> TriggerOf(id)] EXCEPT ![new] = TriggerOf(new)']
      /\ EndedPolicies' \ {new} = EndedPolicies \ {new}
  BY <1>3, OneChanges
<1>5. StatusOf(new)' = "Active" /\ TriggerOf(new)' \in 0..MaxPrincipal
  BY <1>3 DEF StatusOf, TriggerOf
<1>6. new \notin EndedPolicies /\ new \notin EndedPolicies'
  <2>1. new \notin EndedPolicies
    BY <1>3 DEF EndedPolicies, IsActive
  <2>2. now \in Nat /\ policies'[new].expiresAt \in Nat
    BY <1>3 DEF IndInv, TypeOK, Policy
  <2> QED BY <1>3, <2>1, <2>2 DEF EndedPolicies
<1>7. EndedPolicies' = EndedPolicies
  BY <1>4, <1>6
<1>8. \A i \in PolicyIds : StatusOf(i) = "None" <=> ~ Exists(i)
  BY ReadingsTyped DEF Readings
<1>9. G!ValuesMove
  BY MovesMapped
<1>10. G!OpenPolicy(new)
  BY <1>2, <1>3, <1>4, <1>5, <1>7, <1>8, <1>9 DEF G!OpenPolicy
<1> QED BY <1>3, <1>10

\* _exitPolicy takes one active policy off the guardian's chain.
LEMMA LeaveMapped ==
  ASSUME IndInv, IndInv', NEW d \in PolicyIds, IsActive(d), NEW minimumAssets,
         NEW outcome \in {"Executed", "Cancelled", "Expired"}, NEW kind,
         ExitPolicy(d, outcome, minimumAssets), G!Emit(kind, d), MovesCounted,
         UNCHANGED finalized
  PROVE  G!Leave(d, outcome, kind)
<1>1. /\ Exists(d)' /\ policies'[d].status = outcome
      /\ policies'[d].triggerAssets = policies[d].triggerAssets
      /\ \A id \in PolicyIds : id # d => policies'[id] = policies[id]
      /\ now' = now
  BY ExitTells
<1>2. /\ [id \in PolicyIds |-> StatusOf(id)]' =
            [[id \in PolicyIds |-> StatusOf(id)] EXCEPT ![d] = StatusOf(d)']
      /\ [id \in PolicyIds |-> TriggerOf(id)]' =
            [[id \in PolicyIds |-> TriggerOf(id)] EXCEPT ![d] = TriggerOf(d)']
      /\ EndedPolicies' \ {d} = EndedPolicies \ {d}
  BY <1>1, OneChanges
<1>3. StatusOf(d)' = outcome /\ TriggerOf(d)' = TriggerOf(d)
  BY <1>1 DEF StatusOf, TriggerOf
<1>4. d \notin EndedPolicies'
  BY <1>1 DEF EndedPolicies, IsActive
<1>5. EndedPolicies' = EndedPolicies \ {d}
  BY <1>2, <1>4
<1>6. [id \in PolicyIds |-> TriggerOf(id)]' = [id \in PolicyIds |-> TriggerOf(id)]
  BY <1>2, <1>3
<1>7. G!ValuesMove
  BY MovesMapped
<1> QED BY <1>2, <1>3, <1>5, <1>6, <1>7 DEF G!Leave

\* What the guardian reads tells whether the contract accepts its execution.
LEMMA QuoteDecides ==
  ASSUME IndInv, NEW id \in PolicyIds, NEW minimumAssets \in Nat
  PROVE  ExecutionAccepted(id, minimumAssets) <=> G!Executable(id, minimumAssets)
<1>1. StatusOf(id) = "Active" <=> IsActive(id)
  BY ReadingsTyped DEF Readings
<1>2. G!Executable(id, minimumAssets) <=>
         /\ StatusOf(id) = "Active" /\ id \notin EndedPolicies
         /\ QuoteOf(id) <= TriggerOf(id) /\ minimumAssets <= QuoteOf(id)
  BY DEF G!Executable
<1>3. ASSUME IsActive(id)
      PROVE  /\ id \notin EndedPolicies <=> now < policies[id].expiresAt
             /\ QuoteOf(id) = PolicyValue(id) /\ TriggerOf(id) = policies[id].triggerAssets
             /\ ExitAccepted(id, minimumAssets) <=> minimumAssets <= PolicyValue(id)
  <2>1. now \in Nat /\ policies[id].expiresAt \in Nat
    BY DEF IndInv, TypeOK, Policy
  <2>2. id \notin EndedPolicies <=> now < policies[id].expiresAt
    BY <1>3, <2>1 DEF EndedPolicies
  <2>3. ExitAccepted(id, minimumAssets) <=> minimumAssets <= PolicyValue(id)
    BY <1>3, ExitAdmitted
  <2> QED BY <1>3, <2>2, <2>3 DEF QuoteOf, TriggerOf
<1> QED BY <1>1, <1>2, <1>3 DEF ExecutionAccepted

\* An execution that happens was accepted.
LEMMA ExecutionIsAccepted ==
  ASSUME IndInv, NEW id \in PolicyIds, NEW minimumAssets, ExecuteProtection(id, minimumAssets)
  PROVE  ExecutionAccepted(id, minimumAssets)
<1>1. ExitPolicy(id, "Executed", minimumAssets) /\ IsActive(id)
  BY DEF ExecuteProtection
<1>2. ExitAccepted(id, minimumAssets)
  BY <1>1, ExitDecided
<1> QED BY <1>2 DEF ExecuteProtection, ExecutionAccepted

\* The exits of others are those the guardian's chain allows.
LEMMA ExitMapped ==
  ASSUME IndInv, IndInv', ExitLogged, MovesCounted, UNCHANGED <<finalized, txs>>
  PROVE  \E id \in PolicyIds : G!CloseByOther(id)
<1>1. PICK id \in PolicyIds, minimumAssets \in Minimums :
         \/ ExecuteProtection(id, minimumAssets) /\ G!Emit("executed", id)
         \/ (\E sender \in Users : CancelPolicy(sender, id, minimumAssets)) /\ G!Emit("cancelled", id)
         \/ CloseExpiredPolicy(id, minimumAssets) /\ G!Emit("expired", id)
  BY DEF ExitLogged
<1>2. minimumAssets \in Nat /\ 0 \in Nat
  BY ManagerAssumption
<1>3. IsActive(id)
  BY <1>1 DEF ExecuteProtection, CancelPolicy, CloseExpiredPolicy
<1>4. StatusOf(id) = "Active"
  BY <1>3, ReadingsTyped DEF Readings
<1>5. id \notin EndedPolicies <=> now < policies[id].expiresAt
  <2>1. now \in Nat /\ policies[id].expiresAt \in Nat
    BY DEF IndInv, TypeOK, Policy
  <2> QED BY <1>3, <2>1 DEF EndedPolicies
<1>6. CASE ExecuteProtection(id, minimumAssets) /\ G!Emit("executed", id)
  <2>1. ExitPolicy(id, "Executed", minimumAssets) /\ G!Emit("executed", id)
    BY <1>6 DEF ExecuteProtection
  <2>2. G!Leave(id, "Executed", "executed")
    BY <1>3, <2>1, LeaveMapped
  <2>3. G!Executable(id, minimumAssets)
    BY <1>2, <1>6, ExecutionIsAccepted, QuoteDecides
  <2>4. G!Executable(id, 0)
    <3>1. QuoteOf(id) \in Nat
      BY ReadingsTyped DEF Readings
    <3> QED BY <2>3, <3>1 DEF G!Executable
  <2> QED BY <1>4, <2>2, <2>4 DEF G!CloseByOther
<1>7. CASE (\E sender \in Users : CancelPolicy(sender, id, minimumAssets)) /\ G!Emit("cancelled", id)
  <2>1. /\ ExitPolicy(id, "Cancelled", minimumAssets) /\ G!Emit("cancelled", id)
        /\ now < policies[id].expiresAt
    BY <1>7 DEF CancelPolicy
  <2>2. G!Leave(id, "Cancelled", "cancelled")
    BY <1>3, <2>1, LeaveMapped
  <2> QED BY <1>4, <1>5, <2>1, <2>2 DEF G!CloseByOther
<1>8. CASE CloseExpiredPolicy(id, minimumAssets) /\ G!Emit("expired", id)
  <2>1. /\ ExitPolicy(id, "Expired", minimumAssets) /\ G!Emit("expired", id)
        /\ policies[id].expiresAt <= now
    BY <1>8 DEF CloseExpiredPolicy
  <2>2. G!Leave(id, "Expired", "expired")
    BY <1>3, <2>1, LeaveMapped
  <2>3. id \in EndedPolicies
    BY <1>3, <2>1 DEF EndedPolicies
  <2> QED BY <1>4, <2>2, <2>3 DEF G!CloseByOther
<1> QED BY <1>1, <1>6, <1>7, <1>8

\* What others do to the contract without an event is a change of value, the end of
\* some windows, or nothing the guardian could see.
LEMMA UnloggedMapped ==
  ASSUME IndInv, IndInv', Unlogged, MovesCounted, UNCHANGED <<finalized, txs>>
  PROVE  G!MoveValue \/ G!EndWindows \/ UNCHANGED G!chainVars
<1>1. /\ policies' = policies /\ log' = log
      /\ now' = now \/ (now < now' /\ UNCHANGED vaultVars)
  <2>1. now < now + 1
    BY DEF IndInv, TypeOK
  <2> QED BY <2>1 DEF Unlogged, Admin, SetVaultAllowed, SetTreasury, PauseOpenings, UnpauseOpenings,
                      Outside, Tick, managerVars
<1>2. \A id \in PolicyIds : /\ StatusOf(id)' = StatusOf(id) /\ TriggerOf(id)' = TriggerOf(id)
                            /\ IsActive(id)' <=> IsActive(id)
  BY <1>1 DEF StatusOf, TriggerOf, IsActive, Exists
<1>3. G!ValuesMove
  BY MovesMapped
<1>4. CASE now' = now
  <2>1. EndedPolicies' = EndedPolicies
    BY <1>1, <1>2, <1>4 DEF EndedPolicies
  <2>2. CASE [id \in PolicyIds |-> QuoteOf(id)]' = [id \in PolicyIds |-> QuoteOf(id)]
    <3>1. \A id \in PolicyIds : QuoteOf(id)' = QuoteOf(id)
      BY <2>2
    <3>2. moves' = moves
      BY <1>3, <3>1 DEF G!ValuesMove
    <3> QED BY <1>1, <1>2, <2>1, <2>2, <3>2 DEF G!chainVars
  <2>3. CASE [id \in PolicyIds |-> QuoteOf(id)]' # [id \in PolicyIds |-> QuoteOf(id)]
    BY <1>1, <1>2, <1>3, <2>1, <2>3 DEF G!MoveValue
  <2> QED BY <2>2, <2>3
<1>5. CASE now < now' /\ UNCHANGED vaultVars
  <2>1. \A id \in PolicyIds : QuoteOf(id)' = QuoteOf(id)
    BY <1>1, <1>5 DEF QuoteOf, PolicyValue, PreviewRedeem, IsActive, Exists, vaultVars
  <2>2. moves' = moves
    BY <1>3, <2>1 DEF G!ValuesMove
  <2>3. EndedPolicies \subseteq EndedPolicies'
    <3>1. now \in Nat /\ now' \in Nat /\ \A id \in PolicyIds : policies[id].expiresAt \in Nat
      BY DEF IndInv, TypeOK, Policy
    <3> QED BY <1>1, <1>2, <1>5, <3>1 DEF EndedPolicies
  <2>4. EndedPolicies' \in SUBSET {id \in PolicyIds : StatusOf(id) = "Active"}
    <3>1. \A id \in PolicyIds : StatusOf(id) = "Active" <=> IsActive(id)
      BY ReadingsTyped DEF Readings
    <3> QED BY <1>2, <3>1 DEF EndedPolicies
  <2>5. CASE EndedPolicies' = EndedPolicies
    BY <1>1, <1>2, <2>1, <2>2, <2>5 DEF G!chainVars
  <2>6. CASE EndedPolicies' # EndedPolicies
    BY <1>1, <1>2, <2>1, <2>2, <2>3, <2>4, <2>6 DEF G!EndWindows
  <2> QED BY <2>5, <2>6
<1> QED BY <1>1, <1>4, <1>5

\* A transaction of the keeper is for a policy and asks for a number.
KeeperCalls == \A n \in 1..Len(txs) : txs[n].id \in PolicyIds /\ txs[n].minimumAssets \in Nat

\* The keeper's calls of executeProtection succeed and revert as the guardian's chain
\* says.
LEMMA MineMapped ==
  ASSUME IndInv, IndInv', KeeperCalls, NEW n \in 1..Len(txs), MineKeeper(n)
  PROVE  G!Mine(n)
<1>1. PICK id, minimumAssets : id = txs[n].id /\ minimumAssets = txs[n].minimumAssets
  OBVIOUS
<1>2. id \in PolicyIds /\ minimumAssets \in Nat
  BY <1>1 DEF KeeperCalls
<1>3. /\ txs[n].result = "pending" /\ \A m \in 1..(n - 1) : txs[m].result # "pending"
      /\ finalized' = finalized
  BY DEF MineKeeper
<1>4. CASE MineSuccess(n)
  <2>1. /\ ExecuteProtection(id, minimumAssets) /\ G!Emit("executed", id) /\ MovesCounted
        /\ txs' = [txs EXCEPT ![n].result = "success"]
    BY <1>1, <1>4 DEF MineSuccess
  <2>2. G!Executable(id, minimumAssets)
    BY <1>2, <2>1, ExecutionIsAccepted, QuoteDecides
  <2>3. G!Leave(id, "Executed", "executed")
    <3>1. IsActive(id) /\ ExitPolicy(id, "Executed", minimumAssets)
      BY <2>1 DEF ExecuteProtection
    <3> QED BY <1>2, <1>3, <2>1, <3>1, LeaveMapped
  <2> QED BY <1>1, <1>3, <2>1, <2>2, <2>3 DEF G!Mine
<1>5. CASE MineRevert(n)
  <2>1. /\ ~ ExecutionAccepted(id, minimumAssets) /\ UNCHANGED <<vars, log, moves>>
        /\ txs' = [txs EXCEPT ![n].result = "reverted"]
    BY <1>1, <1>5 DEF MineRevert
  <2>2. ~ G!Executable(id, minimumAssets)
    BY <1>2, <2>1, QuoteDecides
  <2>3. UNCHANGED <<[i \in PolicyIds |-> StatusOf(i)], [i \in PolicyIds |-> TriggerOf(i)],
                    [i \in PolicyIds |-> QuoteOf(i)], EndedPolicies, log, finalized, moves>>
    BY <1>3, <2>1 DEF vars, vaultVars, managerVars, StatusOf, TriggerOf, QuoteOf, EndedPolicies,
                      PolicyValue, PreviewRedeem, IsActive, Exists
  <2> QED BY <1>1, <1>3, <2>1, <2>2, <2>3 DEF G!Mine
<1> QED BY <1>4, <1>5 DEF MineKeeper

\* Every step leaves the contract in a state of its invariant.
LEMMA StepKeepsContract ==
  ASSUME IndInv, KeeperCalls, [GuardedNext]_guardedVars
  PROVE  IndInv'
<1>1. CASE OtherStep
  <2>1. Next
    BY <1>1 DEF OtherStep, OpenLogged, ExitLogged, Unlogged, Exit, Next
  <2> QED BY <2>1, NextIndInv
<1>2. CASE \E n \in 1..Len(txs) : MineKeeper(n)
  <2>1. PICK n \in 1..Len(txs) : MineSuccess(n) \/ MineRevert(n)
    BY <1>2 DEF MineKeeper
  <2>2. CASE MineSuccess(n)
    <3>1. /\ IsActive(txs[n].id)
          /\ ExitPolicy(txs[n].id, "Executed", txs[n].minimumAssets)
      BY <2>2 DEF MineSuccess, ExecuteProtection
    <3>2. txs[n].id \in PolicyIds /\ txs[n].minimumAssets \in Nat
      BY DEF KeeperCalls
    <3> QED BY <3>1, <3>2, ExitPolicyIndInv
  <2>3. CASE MineRevert(n)
    <3>1. UNCHANGED vars
      BY <2>3 DEF MineRevert
    <3> QED BY <3>1, NextIndInv
  <2> QED BY <2>1, <2>2, <2>3
<1>3. CASE OffChain \/ UNCHANGED guardedVars
  <2>1. UNCHANGED vars
    BY <1>3 DEF OffChain, guardedVars
  <2> QED BY <2>1, NextIndInv
<1> QED BY <1>1, <1>2, <1>3 DEF GuardedNext

\* Every step of the contract under guard is one of the guardian over its chain.
LEMMA StepMapped ==
  ASSUME IndInv, KeeperCalls, [GuardedNext]_guardedVars
  PROVE  [G!Next]_(G!vars)
<1>1. IndInv'
  BY StepKeepsContract
<1>2. ASSUME UNCHANGED processVars PROVE G!ChainAlone
  BY <1>2 DEF processVars, G!ChainAlone, G!localVars, G!faultVars
<1>3. CASE OtherStep
  <2>1. /\ OpenLogged \/ ExitLogged \/ Unlogged
        /\ MovesCounted /\ UNCHANGED <<finalized, txs>> /\ UNCHANGED processVars
    BY <1>3 DEF OtherStep
  <2>2. CASE OpenLogged
    <3>1. \E id \in PolicyIds : G!OpenPolicy(id)
      BY <1>1, <2>1, <2>2, OpenMapped
    <3> QED BY <1>2, <2>1, <3>1 DEF G!Next, G!ChainStep, G!ChainNext
  <2>3. CASE ExitLogged
    <3>1. \E id \in PolicyIds : G!CloseByOther(id)
      BY <1>1, <2>1, <2>3, ExitMapped
    <3> QED BY <1>2, <2>1, <3>1 DEF G!Next, G!ChainStep, G!ChainNext
  <2>4. CASE Unlogged
    <3>1. G!MoveValue \/ G!EndWindows \/ UNCHANGED G!chainVars
      BY <1>1, <2>1, <2>4, UnloggedMapped
    <3>2. CASE G!MoveValue \/ G!EndWindows
      BY <1>2, <2>1, <3>2 DEF G!Next, G!ChainStep, G!ChainNext
    <3>3. CASE UNCHANGED G!chainVars
      <4>1. UNCHANGED <<mem, disk, pc, target, queue, current, minimum, crashes, faults>>
        BY <2>1 DEF processVars
      <4> QED BY <3>3, <4>1 DEF G!vars, G!localVars, G!faultVars
    <3> QED BY <3>1, <3>2, <3>3
  <2> QED BY <2>1, <2>2, <2>3, <2>4
<1>4. CASE \E n \in 1..Len(txs) : MineKeeper(n)
  <2>1. PICK n \in 1..Len(txs) : MineKeeper(n)
    BY <1>4
  <2>2. G!Mine(n)
    BY <1>1, <2>1, MineMapped
  <2>3. G!ChainAlone
    BY <1>2, <2>1 DEF MineKeeper
  <2> QED BY <2>2, <2>3 DEF G!Next, G!ChainStep, G!ChainNext
<1>5. CASE OffChain
  <2>1. CASE /\ G!Finalize \/ \E n \in 1..Len(txs) : G!Drop(n)
             /\ UNCHANGED processVars
    BY <1>2, <2>1 DEF G!Next, G!ChainStep, G!ChainNext
  <2>2. CASE G!Monitor \/ G!Evaluate \/ G!Execute \/ G!Fail \/ G!Crash
    BY <2>2 DEF G!Next
  <2> QED BY <1>5, <2>1, <2>2 DEF OffChain
<1>6. CASE UNCHANGED guardedVars
  <2>1. /\ UNCHANGED <<vaultVars, managerVars, now>> /\ UNCHANGED <<log, finalized, txs, moves>>
        /\ UNCHANGED <<mem, disk, pc, target, queue, current, minimum, crashes, faults>>
    BY <1>6 DEF guardedVars, vars, chainLogVars, processVars
  <2>2. UNCHANGED <<[i \in PolicyIds |-> StatusOf(i)], [i \in PolicyIds |-> TriggerOf(i)],
                    [i \in PolicyIds |-> QuoteOf(i)], EndedPolicies>>
    BY <2>1 DEF vaultVars, managerVars, StatusOf, TriggerOf, QuoteOf, EndedPolicies,
                PolicyValue, PreviewRedeem, IsActive, Exists
  <2> QED BY <2>1, <2>2 DEF G!vars, G!chainVars, G!localVars, G!faultVars
<1> QED BY <1>3, <1>4, <1>5, <1>6 DEF GuardedNext

-----------------------------------------------------------------------------
(* The guardian that was proved about.                                      *)

\* The guardian of GuardianProofs over the same readings.
GP == INSTANCE GuardianProofs
    WITH PolicyIds <- PolicyIds, Values <- Nat, Triggers <- 0..MaxPrincipal, MayClose <- TRUE,
         status <- [id \in PolicyIds |-> StatusOf(id)],
         trigger <- [id \in PolicyIds |-> TriggerOf(id)],
         value <- [id \in PolicyIds |-> QuoteOf(id)],
         ended <- EndedPolicies

\* The process reads the same logs in both instances: monitor.ts.
LEMMA SameMonitor == G!Monitor <=> GP!Monitor
<1>1. G!Start <=> GP!Start
  BY DEF G!Start, GP!Start, G!Idle, GP!Idle, G!chainVars, GP!chainVars, G!faultVars, GP!faultVars,
         G!localVars, GP!localVars
<1>2. G!ReadHead <=> GP!ReadHead
  BY DEF G!ReadHead, GP!ReadHead, G!Idle, GP!Idle, G!chainVars, GP!chainVars, G!faultVars,
         GP!faultVars
<1>3. G!ReadLogs <=> GP!ReadLogs
  BY DEF G!ReadLogs, GP!ReadLogs, G!Idle, GP!Idle, G!chainVars, GP!chainVars, G!faultVars,
         GP!faultVars, G!localVars, GP!localVars, G!Indexed, GP!Indexed, G!ApplyEvent,
         GP!ApplyEvent, G!Record, GP!Record
<1>4. G!SaveIndex <=> GP!SaveIndex
  BY DEF G!SaveIndex, GP!SaveIndex, G!Idle, GP!Idle, G!chainVars, GP!chainVars, G!faultVars,
         GP!faultVars, G!localVars, GP!localVars, G!Save, GP!Save
<1>5. G!SyncDone <=> GP!SyncDone
  BY DEF G!SyncDone, GP!SyncDone, G!Idle, GP!Idle, G!chainVars, GP!chainVars, G!faultVars,
         GP!faultVars
<1> QED BY <1>1, <1>2, <1>3, <1>4, <1>5 DEF G!Monitor, GP!Monitor

\* It visits and evaluates the same policies: runner.ts, evaluator.ts.
LEMMA SameEvaluate == G!Evaluate <=> GP!Evaluate
<1>1. G!Visit <=> GP!Visit
  BY DEF G!Visit, GP!Visit, G!Idle, GP!Idle, G!chainVars, GP!chainVars, G!faultVars, GP!faultVars
<1>2. G!CycleDone <=> GP!CycleDone
  BY DEF G!CycleDone, GP!CycleDone, G!Idle, GP!Idle, G!chainVars, GP!chainVars, G!faultVars,
         GP!faultVars, G!localVars, GP!localVars
<1>3. G!ReadPolicy <=> GP!ReadPolicy
  BY DEF G!ReadPolicy, GP!ReadPolicy, G!Idle, GP!Idle, G!chainVars, GP!chainVars, G!faultVars,
         GP!faultVars, G!localVars, GP!localVars
<1>4. G!SaveDeletion <=> GP!SaveDeletion
  BY DEF G!SaveDeletion, GP!SaveDeletion, G!Idle, GP!Idle, G!chainVars, GP!chainVars, G!faultVars,
         GP!faultVars, G!localVars, GP!localVars, G!Save, GP!Save
<1>5. G!ReadValue <=> GP!ReadValue
  BY DEF G!ReadValue, GP!ReadValue, G!Idle, GP!Idle, G!chainVars, GP!chainVars, G!faultVars,
         GP!faultVars, G!BpsDenominator, GP!BpsDenominator
<1> QED BY <1>1, <1>2, <1>3, <1>4, <1>5 DEF G!Evaluate, GP!Evaluate

\* It executes the same way: executor.ts.
LEMMA SameExecute == G!Execute <=> GP!Execute
<1>1. G!Simulate <=> GP!Simulate
  BY DEF G!Simulate, GP!Simulate, G!Idle, GP!Idle, G!chainVars, GP!chainVars, G!faultVars,
         GP!faultVars, G!localVars, GP!localVars, G!Executable, GP!Executable
<1>2. G!Submit <=> GP!Submit
  BY DEF G!Submit, GP!Submit, G!Broadcast, GP!Broadcast, G!Record, GP!Record, G!localVars,
         GP!localVars, G!faultVars, GP!faultVars
<1>3. G!SaveHash <=> GP!SaveHash
  BY DEF G!SaveHash, GP!SaveHash, G!Idle, GP!Idle, G!chainVars, GP!chainVars, G!faultVars,
         GP!faultVars, G!localVars, GP!localVars, G!Save, GP!Save
<1>4. G!ReadReceipt <=> GP!ReadReceipt
  BY DEF G!ReadReceipt, GP!ReadReceipt, G!Idle, GP!Idle, G!chainVars, GP!chainVars, G!faultVars,
         GP!faultVars, G!localVars, GP!localVars, G!Record, GP!Record
<1>5. G!SaveOutcome <=> GP!SaveOutcome
  BY DEF G!SaveOutcome, GP!SaveOutcome, G!Idle, GP!Idle, G!chainVars, GP!chainVars, G!faultVars,
         GP!faultVars, G!localVars, GP!localVars, G!Save, GP!Save
<1> QED BY <1>1, <1>2, <1>3, <1>4, <1>5 DEF G!Execute, GP!Execute

\* It fails in the same ways.
LEMMA SameFail == G!Fail <=> GP!Fail
<1>1. G!SyncFails <=> GP!SyncFails
  BY DEF G!SyncFails, GP!SyncFails, G!Idle, GP!Idle, G!chainVars, GP!chainVars, G!faultVars,
         GP!faultVars, G!localVars, GP!localVars
<1>2. G!GiveUp <=> GP!GiveUp
  BY DEF G!GiveUp, GP!GiveUp, G!Idle, GP!Idle, G!chainVars, GP!chainVars, G!faultVars,
         GP!faultVars, G!localVars, GP!localVars
<1>3. G!SubmitFails <=> GP!SubmitFails
  BY DEF G!SubmitFails, GP!SubmitFails, G!Idle, GP!Idle, G!chainVars, GP!chainVars, G!faultVars,
         GP!faultVars, G!localVars, GP!localVars
<1>4. G!SubmitAnswerLost <=> GP!SubmitAnswerLost
  BY DEF G!SubmitAnswerLost, GP!SubmitAnswerLost, G!Broadcast, GP!Broadcast, G!Fault, GP!Fault,
         G!localVars, GP!localVars
<1>5. G!SaveIndexFails <=> GP!SaveIndexFails
  BY DEF G!SaveIndexFails, GP!SaveIndexFails, G!Fault, GP!Fault, G!chainVars, GP!chainVars,
         G!localVars, GP!localVars
<1>6. G!SaveDeletionFails <=> GP!SaveDeletionFails
  BY DEF G!SaveDeletionFails, GP!SaveDeletionFails, G!Fault, GP!Fault, G!chainVars, GP!chainVars,
         G!localVars, GP!localVars
<1>7. G!SaveHashFails <=> GP!SaveHashFails
  BY DEF G!SaveHashFails, GP!SaveHashFails, G!Fault, GP!Fault, G!chainVars, GP!chainVars,
         G!localVars, GP!localVars
<1>8. G!SaveOutcomeFails <=> GP!SaveOutcomeFails
  BY DEF G!SaveOutcomeFails, GP!SaveOutcomeFails, G!Fault, GP!Fault, G!chainVars, GP!chainVars,
         G!localVars, GP!localVars
<1> QED BY <1>1, <1>2, <1>3, <1>4, <1>5, <1>6, <1>7, <1>8 DEF G!Fail, GP!Fail

\* The chain takes the same steps.
LEMMA SameChainNext == G!ChainNext <=> GP!ChainNext
<1>1. ASSUME NEW id PROVE G!OpenPolicy(id) <=> GP!OpenPolicy(id)
  BY DEF G!OpenPolicy, GP!OpenPolicy, G!ValuesMove, GP!ValuesMove, G!Quotes, GP!Quotes, G!Emit,
         GP!Emit
<1>2. ASSUME NEW id PROVE G!CloseByOther(id) <=> GP!CloseByOther(id)
  BY DEF G!CloseByOther, GP!CloseByOther, G!Leave, GP!Leave, G!ValuesMove, GP!ValuesMove, G!Quotes,
         GP!Quotes, G!Emit, GP!Emit, G!Executable, GP!Executable
<1>3. G!MoveValue <=> GP!MoveValue
  BY DEF G!MoveValue, GP!MoveValue, G!ValuesMove, GP!ValuesMove, G!Quotes, GP!Quotes
<1>4. G!EndWindows <=> GP!EndWindows
  BY DEF G!EndWindows, GP!EndWindows
<1>5. ASSUME NEW n PROVE G!Mine(n) <=> GP!Mine(n)
  BY DEF G!Mine, GP!Mine, G!Leave, GP!Leave, G!ValuesMove, GP!ValuesMove, G!Quotes, GP!Quotes,
         G!Emit, GP!Emit, G!Executable, GP!Executable
<1>6. ASSUME NEW n PROVE G!Drop(n) <=> GP!Drop(n)
  BY DEF G!Drop, GP!Drop
<1>7. G!Finalize <=> GP!Finalize
  BY DEF G!Finalize, GP!Finalize
<1> QED BY <1>1, <1>2, <1>3, <1>4, <1>5, <1>6, <1>7 DEF G!ChainNext, GP!ChainNext

\* The two instances are one specification: same initial states, same steps.
LEMMA SameGuardian == /\ G!Init <=> GP!Init
                      /\ [G!Next]_(G!vars) <=> [GP!Next]_(GP!vars)
<1>1. G!Init <=> GP!Init
  BY DEF G!Init, GP!Init, G!ChainInit, GP!ChainInit, G!EmptyState, GP!EmptyState,
         G!NoRecord, GP!NoRecord, G!Record, GP!Record
<1>2. G!Crash <=> GP!Crash
  BY DEF G!Crash, GP!Crash, G!chainVars, GP!chainVars, G!EmptyState, GP!EmptyState,
         G!NoRecord, GP!NoRecord, G!Record, GP!Record
<1>3. G!ChainStep <=> GP!ChainStep
  BY SameChainNext DEF G!ChainStep, GP!ChainStep, G!ChainAlone, GP!ChainAlone,
                       G!localVars, GP!localVars, G!faultVars, GP!faultVars
<1>4. G!Next <=> GP!Next
  BY <1>2, <1>3, SameMonitor, SameEvaluate, SameExecute, SameFail DEF G!Next, GP!Next
<1>5. UNCHANGED G!vars <=> UNCHANGED GP!vars
  BY DEF G!vars, GP!vars, G!chainVars, GP!chainVars, G!localVars, GP!localVars,
         G!faultVars, GP!faultVars
<1> QED BY <1>1, <1>4, <1>5

-----------------------------------------------------------------------------
(* The refinement.                                                          *)

\* The inductive invariant: that of the contract and that of the guardian.
GuardedInv == IndInv /\ GP!GuardianInv

\* What GuardianProofs assumes of its constants holds of those chosen here.
LEMMA GuardianConstants == GP!ChainAssumption /\ GP!GuardianAssumption
  BY ManagerAssumption, GuardedAssumption
     DEF GP!ChainAssumption, GP!GuardianAssumption, PolicyIds, BpsDenominator, GP!BpsDenominator

\* The guardian's invariant makes the keeper's calls well formed.
LEMMA CallsWellFormed == GP!GuardianInv => KeeperCalls
<1> SUFFICES ASSUME GP!GuardianInv, NEW n \in 1..Len(txs)
             PROVE  txs[n].id \in PolicyIds /\ txs[n].minimumAssets \in Nat
  BY DEF KeeperCalls
<1>1. PICK calls : calls = [id : PolicyIds, minimumAssets : Nat,
                            result : {"pending", "success", "reverted", "dropped"}]
  OBVIOUS
<1>2. txs \in Seq(calls)
  BY <1>1 DEF GP!GuardianInv, GP!TypeOK
<1>3. txs[n] \in calls
  BY <1>2
<1> QED BY <1>1, <1>3

\* Before anything happens the guardian's chain has no policy.
LEMMA InitMapped == GuardedInit => G!Init
<1> SUFFICES ASSUME GuardedInit PROVE G!Init
  OBVIOUS
<1>1. \A id \in PolicyIds : policies[id] = NoPolicy
  BY DEF GuardedInit, Init
<1>2. \A id \in PolicyIds : ~ Exists(id)
  BY <1>1 DEF Exists, NoPolicy
<1>3. \A id \in PolicyIds : StatusOf(id) = "None" /\ TriggerOf(id) = 0 /\ QuoteOf(id) = 0
  BY <1>1, <1>2 DEF StatusOf, TriggerOf, QuoteOf, IsActive, NoPolicy
<1>4. EndedPolicies = {}
  BY <1>2 DEF EndedPolicies, IsActive
<1> QED BY <1>3, <1>4 DEF GuardedInit, G!Init, G!ChainInit

\* The contract is deployed, and the guardian started, in a state of the invariant.
LEMMA InitGuardedInv == GuardedInit => GuardedInv
<1>1. GuardedInit => IndInv
  BY InitIndInv DEF GuardedInit
<1>2. GuardedInit => GP!Init
  BY InitMapped, SameGuardian
<1>3. GP!Init => GP!GuardianInv
  BY GuardianConstants, GP!InitInv
<1> QED BY <1>1, <1>2, <1>3 DEF GuardedInv

\* Every step keeps the invariant.
LEMMA NextGuardedInv == GuardedInv /\ [GuardedNext]_guardedVars => GuardedInv'
<1>1. GuardedInv /\ [GuardedNext]_guardedVars => IndInv' /\ [GP!Next]_(GP!vars)
  BY CallsWellFormed, StepKeepsContract, StepMapped, SameGuardian DEF GuardedInv
<1>2. GP!GuardianInv /\ [GP!Next]_(GP!vars) => GP!GuardianInv'
  BY GuardianConstants, GP!NextInv
<1> QED BY <1>1, <1>2 DEF GuardedInv

\* The joint invariant holds in every state of the guarded contract.
THEOREM GuardedInvariance == GuardedSpec => []GuardedInv
  BY InitGuardedInv, NextGuardedInv, PTL DEF GuardedSpec

\* The contract implements the chain of the guardian: its openings, its exits, the
\* keeper's executions, and what losses, other positions and time do to what the
\* guardian reads.  ProtectionManager.sol under apps/guardian/src.
THEOREM ContractImplementsGuardian == GuardedSpec => ImplementsGuardian
<1>1. GuardedInv /\ [GuardedNext]_guardedVars => [G!Next]_(G!vars)
  BY CallsWellFormed, StepMapped DEF GuardedInv
<1> QED BY <1>1, InitMapped, GuardedInvariance, PTL
           DEF GuardedSpec, ImplementsGuardian, G!Spec

\* What was proved of the guardian's index and of its records over a chain of quotes
\* is so over the contract: the index is the replay of the contract's events, a record
\* tells what became of a policy, nothing is sent behind a transaction on record, what
\* is waited for is indexed, and every exit asks for a minimum near a value that the
\* policy had in breach.
THEOREM GuardianHoldsOverContract == GuardedSpec => [](GuardianHolds /\ G!NoUnprotectedExit)
<1>1. GuardedSpec => GP!Spec
  <2>1. GuardedInv /\ [GuardedNext]_guardedVars => [GP!Next]_(GP!vars)
    BY CallsWellFormed, StepMapped, SameGuardian DEF GuardedInv
  <2>2. GuardedInit => GP!Init
    BY InitMapped, SameGuardian
  <2> QED BY <2>1, <2>2, GuardedInvariance, PTL DEF GuardedSpec, GP!Spec
<1>2. GP!IndexIsReplay => G!IndexIsReplay
  BY DEF G!IndexIsReplay, GP!IndexIsReplay, G!Logged, GP!Logged, G!States, GP!States,
         G!Kinds, GP!Kinds
<1>3. GP!RecordsTruthful => G!RecordsTruthful
  BY DEF G!RecordsTruthful, GP!RecordsTruthful, G!States, GP!States
<1>4. GP!NoneBehindRecord => G!NoneBehindRecord
  BY DEF G!NoneBehindRecord, GP!NoneBehindRecord, G!States, GP!States
<1>5. GP!NoUnprotectedExit => G!NoUnprotectedExit
  BY DEF G!NoUnprotectedExit, GP!NoUnprotectedExit, G!BpsDenominator, GP!BpsDenominator
<1>6. GP!SubmittedIsIndexed => G!SubmittedIsIndexed
  BY DEF G!SubmittedIsIndexed, GP!SubmittedIsIndexed, G!States, GP!States
<1>7. G!NoneBehindRecord /\ G!SubmittedIsIndexed => G!RecordsAreHeeded
  BY DEF G!RecordsAreHeeded
<1>8. GP!Spec => [](/\ GP!IndexIsReplay /\ GP!RecordsTruthful
                    /\ GP!NoneBehindRecord /\ GP!SubmittedIsIndexed /\ GP!NoUnprotectedExit)
  BY GuardianConstants, GP!IndexReplaysLog, GP!RecordsTellTheTruth, GP!NothingBehindARecord,
     GP!SubmittedIsResumed, GP!ExitsAreProtected, PTL
<1> QED BY <1>1, <1>2, <1>3, <1>4, <1>5, <1>6, <1>7, <1>8, PTL DEF GuardianHolds

-----------------------------------------------------------------------------
(* What the executions of the keeper paid.                                  *)

\* The status, the window and the quote that the guardian reads decide, in every
\* reachable state, whether its execution would be accepted: evaluator.ts:13-45
\* against executeProtection.
THEOREM QuoteIsDecisive == GuardedSpec => []QuoteDecidesExecution
<1>1. GuardedInv => QuoteDecidesExecution
  BY QuoteDecides, ManagerAssumption DEF GuardedInv, QuoteDecidesExecution
<1> QED BY <1>1, GuardedInvariance, PTL

\* An executed policy returned no more than its trigger.
ExecutionsPaid ==
    \A id \in PolicyIds :
       Exists(id) /\ policies[id].status = "Executed" =>
          policies[id].assetsReturned <= policies[id].triggerAssets

\* What a step may do to one policy: nothing, open it, or let it leave.
LEMMA PolicySteps ==
  ASSUME IndInv, KeeperCalls, [GuardedNext]_guardedVars, NEW id \in PolicyIds
  PROVE  \/ policies'[id] = policies[id]
         \/ ~ Exists(id) /\ policies'[id].status = "Active"
         \/ /\ IsActive(id)
            /\ policies'[id].status = "Executed" =>
                  policies'[id].assetsReturned <= policies'[id].triggerAssets
<1>1. CASE OpenLogged
  <2>1. PICK new : new = nextPolicyId
    OBVIOUS
  <2> QED BY <1>1, <2>1, OpenTells DEF OpenLogged
<1>2. ASSUME NEW d \in PolicyIds, NEW minimumAssets, IsActive(d),
             NEW outcome \in {"Executed", "Cancelled", "Expired"},
             ExitPolicy(d, outcome, minimumAssets),
             outcome = "Executed" => PolicyValue(d) <= policies[d].triggerAssets
      PROVE  \/ policies'[id] = policies[id]
             \/ /\ IsActive(id)
                /\ policies'[id].status = "Executed" =>
                      policies'[id].assetsReturned <= policies'[id].triggerAssets
  BY <1>2, ExitTells
<1>3. CASE ExitLogged
  <2>1. PICK d \in PolicyIds, minimumAssets \in Minimums :
           \/ ExecuteProtection(d, minimumAssets)
           \/ \E sender \in Users : CancelPolicy(sender, d, minimumAssets)
           \/ CloseExpiredPolicy(d, minimumAssets)
    BY <1>3 DEF ExitLogged
  <2>2. CASE ExecuteProtection(d, minimumAssets)
    BY <1>2, <2>2 DEF ExecuteProtection
  <2>3. CASE \E sender \in Users : CancelPolicy(sender, d, minimumAssets)
    BY <1>2, <2>3 DEF CancelPolicy
  <2>4. CASE CloseExpiredPolicy(d, minimumAssets)
    BY <1>2, <2>4 DEF CloseExpiredPolicy
  <2> QED BY <2>1, <2>2, <2>3, <2>4
<1>4. CASE Unlogged
  BY <1>4 DEF Unlogged, Admin, SetVaultAllowed, SetTreasury, PauseOpenings, UnpauseOpenings,
              Outside, Tick, managerVars
<1>5. CASE \E n \in 1..Len(txs) : MineKeeper(n)
  <2>1. PICK n \in 1..Len(txs) : MineSuccess(n) \/ MineRevert(n)
    BY <1>5 DEF MineKeeper
  <2>2. CASE MineSuccess(n)
    <3>1. txs[n].id \in PolicyIds /\ ExecuteProtection(txs[n].id, txs[n].minimumAssets)
      BY <2>2 DEF MineSuccess, KeeperCalls
    <3> QED BY <1>2, <3>1 DEF ExecuteProtection
  <2>3. CASE MineRevert(n)
    BY <2>3 DEF MineRevert, vars, managerVars
  <2> QED BY <2>1, <2>2, <2>3
<1>6. CASE OffChain \/ UNCHANGED guardedVars
  BY <1>6 DEF OffChain, guardedVars, vars, managerVars
<1> QED BY <1>1, <1>3, <1>4, <1>5, <1>6 DEF GuardedNext, OtherStep

\* What a step may do to the keeper's transactions: one of them executes its policy, or
\* no transaction comes to succeed.
LEMMA TransactionSteps ==
  ASSUME GP!GuardianInv, [GuardedNext]_guardedVars
  PROVE  \/ \A n \in 1..Len(txs') :
               txs'[n].result = "success" => n \in 1..Len(txs) /\ txs'[n] = txs[n]
         \/ \E k \in 1..Len(txs) :
               /\ MineSuccess(k) /\ Len(txs') = Len(txs)
               /\ txs'[k].id = txs[k].id /\ txs'[k].minimumAssets = txs[k].minimumAssets
               /\ \A n \in 1..Len(txs) : n # k => txs'[n] = txs[n]
<1>1. PICK calls : calls = [id : PolicyIds, minimumAssets : Nat,
                            result : {"pending", "success", "reverted", "dropped"}]
  OBVIOUS
<1>2. txs \in Seq(calls)
  BY <1>1 DEF GP!GuardianInv, GP!TypeOK
<1>3. \A n \in 1..Len(txs) : txs[n] \in calls
  BY <1>2
<1>4. CASE txs' = txs
  BY <1>4
<1>5. ASSUME NEW k \in 1..Len(txs), NEW result, txs' = [txs EXCEPT ![k].result = result]
      PROVE  /\ Len(txs') = Len(txs) /\ txs'[k].result = result
             /\ txs'[k].id = txs[k].id /\ txs'[k].minimumAssets = txs[k].minimumAssets
             /\ \A n \in 1..Len(txs) : n # k => txs'[n] = txs[n]
  <2>1. PICK call : call = [txs[k] EXCEPT !.result = result]
    OBVIOUS
  <2>2. txs' = [txs EXCEPT ![k] = call]
    BY <1>5, <2>1
  <2>3. call.result = result /\ call.id = txs[k].id /\ call.minimumAssets = txs[k].minimumAssets
    BY <1>1, <1>3, <2>1
  <2>4. /\ Len(txs') = Len(txs) /\ txs'[k] = call
        /\ \A n \in 1..Len(txs) : n # k => txs'[n] = txs[n]
    BY <1>2, <2>2
  <2> QED BY <2>3, <2>4
<1>6. CASE \E n \in 1..Len(txs) : MineKeeper(n)
  <2>1. PICK k \in 1..Len(txs) : MineSuccess(k) \/ MineRevert(k)
    BY <1>6 DEF MineKeeper
  <2>2. CASE MineSuccess(k)
    <3>1. txs' = [txs EXCEPT ![k].result = "success"]
      BY <2>2 DEF MineSuccess
    <3> QED BY <1>5, <2>2, <3>1
  <2>3. CASE MineRevert(k)
    <3>1. txs' = [txs EXCEPT ![k].result = "reverted"]
      BY <2>3 DEF MineRevert
    <3> QED BY <1>5, <3>1
  <2> QED BY <2>1, <2>2, <2>3
<1>7. CASE \E n \in 1..Len(txs) : G!Drop(n)
  <2>1. PICK k \in 1..Len(txs) : txs' = [txs EXCEPT ![k].result = "dropped"]
    BY <1>7 DEF G!Drop
  <2> QED BY <1>5, <2>1
<1>8. CASE G!Broadcast
  <2>1. PICK call : call = [id |-> current, minimumAssets |-> minimum, result |-> "pending"]
    OBVIOUS
  <2>2. txs' = Append(txs, call) /\ call.result = "pending"
    BY <1>8, <2>1 DEF G!Broadcast
  <2>3. /\ Len(txs') = Len(txs) + 1 /\ txs'[Len(txs) + 1] = call /\ Len(txs) \in Nat
        /\ \A n \in 1..Len(txs) : txs'[n] = txs[n]
    BY <1>2, <2>2
  <2> QED BY <2>2, <2>3
<1>9. CASE OffChain
  <2>1. CASE G!Finalize \/ \E n \in 1..Len(txs) : G!Drop(n)
    BY <1>4, <1>7, <2>1 DEF G!Finalize
  <2>2. CASE G!Monitor \/ G!Evaluate \/ G!Crash
    <3>1. txs' = txs
      BY <2>2 DEF G!Monitor, G!Evaluate, G!Crash, G!Start, G!ReadHead, G!ReadLogs, G!SaveIndex,
                  G!SyncDone, G!Visit, G!CycleDone, G!ReadPolicy, G!SaveDeletion, G!ReadValue,
                  G!Idle, G!chainVars
    <3> QED BY <1>4, <3>1
  <2>3. CASE G!Execute \/ G!Fail
    <3>1. txs' = txs \/ G!Broadcast
      BY <2>3 DEF G!Execute, G!Fail, G!Simulate, G!Submit, G!SaveHash, G!ReadReceipt,
                  G!SaveOutcome, G!SyncFails, G!GiveUp, G!SubmitFails, G!SubmitAnswerLost,
                  G!SaveIndexFails, G!SaveDeletionFails, G!SaveHashFails, G!SaveOutcomeFails,
                  G!Idle, G!chainVars
    <3> QED BY <1>4, <1>8, <3>1
  <2> QED BY <1>9, <2>1, <2>2, <2>3 DEF OffChain
<1>10. CASE OtherStep \/ UNCHANGED guardedVars
  <2>1. txs' = txs
    BY <1>10 DEF OtherStep, guardedVars, chainLogVars
  <2> QED BY <1>4, <2>1
<1> QED BY <1>6, <1>9, <1>10 DEF GuardedNext

\* An executed policy keeps its record, and a policy that comes to be executed was paid
\* no more than its trigger.
LEMMA PaidKeeps ==
  ASSUME GuardedInv, [GuardedNext]_guardedVars, ExecutionsPaid
  PROVE  ExecutionsPaid'
<1> SUFFICES ASSUME NEW id \in PolicyIds, Exists(id)', policies'[id].status = "Executed"
             PROVE  policies'[id].assetsReturned <= policies'[id].triggerAssets
  BY DEF ExecutionsPaid
<1>1. \/ policies'[id] = policies[id]
      \/ ~ Exists(id) /\ policies'[id].status = "Active"
      \/ /\ IsActive(id)
         /\ policies'[id].status = "Executed" =>
               policies'[id].assetsReturned <= policies'[id].triggerAssets
  BY CallsWellFormed, PolicySteps DEF GuardedInv
<1>2. CASE policies'[id] = policies[id]
  BY <1>2 DEF ExecutionsPaid, Exists
<1> QED BY <1>1, <1>2

\* The keeper's executions stay what they were, and a new one is the first of its policy.
LEMMA KeeperKeeps ==
  ASSUME GuardedInv, [GuardedNext]_guardedVars, KeeperExecutionsProtected
  PROVE  KeeperExecutionsProtected'
<1>1. IndInv /\ KeeperCalls /\ GP!GuardianInv
  BY CallsWellFormed DEF GuardedInv
<1>2. \A n \in 1..Len(txs) : txs[n].id \in PolicyIds /\ txs[n].minimumAssets \in Nat
  BY <1>1 DEF KeeperCalls
<1>3. ASSUME NEW n \in 1..Len(txs), txs[n].result = "success"
      PROVE  /\ policies'[txs[n].id] = policies[txs[n].id]
             /\ ~ IsActive(txs[n].id)
  <2>1. PICK id \in PolicyIds : id = txs[n].id
    BY <1>2
  <2>2. policies[id].status = "Executed"
    BY <1>3, <2>1 DEF KeeperExecutionsProtected
  <2>3. Exists(id)
    <3>1. ~ Exists(id) => policies[id] = NoPolicy
      BY <1>1 DEF IndInv, PoliciesWellFormed
    <3> QED BY <2>2, <3>1 DEF NoPolicy
  <2>4. \/ policies'[id] = policies[id]
        \/ ~ Exists(id) /\ policies'[id].status = "Active"
        \/ IsActive(id)
    BY <1>1, PolicySteps
  <2> QED BY <2>1, <2>2, <2>3, <2>4 DEF IsActive
<1>4. CASE \A n \in 1..Len(txs') :
              txs'[n].result = "success" => n \in 1..Len(txs) /\ txs'[n] = txs[n]
  BY <1>3, <1>4 DEF KeeperExecutionsProtected
<1>5. ASSUME NEW k \in 1..Len(txs), MineSuccess(k), Len(txs') = Len(txs),
             txs'[k].id = txs[k].id, txs'[k].minimumAssets = txs[k].minimumAssets,
             \A n \in 1..Len(txs) : n # k => txs'[n] = txs[n]
      PROVE  KeeperExecutionsProtected'
  <2>1. PICK id, least : id = txs[k].id /\ least = txs[k].minimumAssets
    OBVIOUS
  <2>2. /\ IsActive(id) /\ PolicyValue(id) <= policies[id].triggerAssets
        /\ ExitPolicy(id, "Executed", least)
    BY <1>5, <2>1 DEF MineSuccess, ExecuteProtection
  <2>3. /\ policies'[id].status = "Executed"
        /\ least <= policies'[id].assetsReturned
        /\ policies'[id].assetsReturned <= policies'[id].triggerAssets
    BY <1>1, <1>2, <2>1, <2>2, ExitTells
  <2>4. \A n \in 1..Len(txs) : txs[n].result = "success" => txs[n].id # id
    BY <1>3, <2>2
  <2> SUFFICES ASSUME NEW n \in 1..Len(txs'), txs'[n].result = "success"
               PROVE  LET policy == policies'[txs'[n].id]
                      IN /\ policy.status = "Executed"
                         /\ txs'[n].minimumAssets <= policy.assetsReturned
                         /\ policy.assetsReturned <= policy.triggerAssets
                         /\ \A m \in 1..Len(txs') :
                               txs'[m].id = txs'[n].id /\ txs'[m].result = "success" => m = n
    BY DEF KeeperExecutionsProtected
  <2>5. CASE n = k
    BY <1>5, <2>1, <2>3, <2>4, <2>5
  <2>6. CASE n # k
    <3>1. n \in 1..Len(txs) /\ txs'[n] = txs[n] /\ txs[n].result = "success"
      BY <1>5, <2>6
    <3>2. policies'[txs[n].id] = policies[txs[n].id] /\ txs[n].id # id
      BY <1>3, <2>4, <3>1
    <3>3. \A m \in 1..Len(txs) :
             txs'[m].id = txs[n].id /\ txs'[m].result = "success" => m = n
      BY <1>5, <2>1, <3>1, <3>2 DEF KeeperExecutionsProtected
    <3> QED BY <1>5, <3>1, <3>2, <3>3 DEF KeeperExecutionsProtected
  <2> QED BY <2>5, <2>6
<1>6. \/ \A n \in 1..Len(txs') :
            txs'[n].result = "success" => n \in 1..Len(txs) /\ txs'[n] = txs[n]
      \/ \E k \in 1..Len(txs) :
            /\ MineSuccess(k) /\ Len(txs') = Len(txs)
            /\ txs'[k].id = txs[k].id /\ txs'[k].minimumAssets = txs[k].minimumAssets
            /\ \A n \in 1..Len(txs) : n # k => txs'[n] = txs[n]
  BY <1>1, TransactionSteps
<1> QED BY <1>4, <1>5, <1>6

\* Of all the executions the keeper ever sends for a policy at most one succeeds, and
\* it pays between the minimum it asked for and the trigger: executor.ts and
\* executeProtection together, whoever else acts on the contract.
THEOREM KeeperIsProtected == GuardedSpec => []KeeperExecutionsProtected
<1>1. GuardedInit => KeeperExecutionsProtected
  BY DEF GuardedInit, KeeperExecutionsProtected
<1>2. GuardedInv /\ KeeperExecutionsProtected /\ [GuardedNext]_guardedVars =>
         KeeperExecutionsProtected'
  BY KeeperKeeps
<1> QED BY <1>1, <1>2, GuardedInvariance, PTL DEF GuardedSpec

\* A record that says confirmed names a policy that was paid at its trigger or below:
\* monitor.ts:27-37 and executor.ts against the contract's own record.
THEOREM ConfirmationsArePaid == GuardedSpec => []ConfirmedIsPaid
<1>1. GuardedInit => ExecutionsPaid
  BY DEF GuardedInit, Init, ExecutionsPaid, Exists, NoPolicy
<1>2. GuardedInv /\ ExecutionsPaid /\ [GuardedNext]_guardedVars => ExecutionsPaid'
  BY PaidKeeps
<1>3. IndInv /\ ExecutionsPaid /\ G!RecordsTruthful => ConfirmedIsPaid
  <2> SUFFICES ASSUME IndInv, ExecutionsPaid, G!RecordsTruthful,
                      NEW s \in G!States, NEW id \in PolicyIds,
                      s.executions[id].status = "confirmed"
               PROVE  /\ Exists(id) /\ policies[id].status = "Executed"
                      /\ policies[id].assetsReturned <= policies[id].triggerAssets
                      /\ id \notin s.policies
    BY DEF ConfirmedIsPaid
  <2>1. StatusOf(id) = "Executed" /\ id \notin s.policies
    BY DEF G!RecordsTruthful
  <2>2. Exists(id) /\ policies[id].status = "Executed"
    BY <2>1 DEF StatusOf
  <2> QED BY <2>1, <2>2 DEF ExecutionsPaid
<1>4. GuardedSpec => []G!RecordsTruthful
  BY GuardianHoldsOverContract, PTL DEF GuardianHolds
<1> QED BY <1>1, <1>2, <1>3, <1>4, GuardedInvariance, PTL DEF GuardedSpec, GuardedInv

\* Whatever the guardian takes for an execution, from a receipt or from the final
\* log, has paid the beneficiary within the policy's terms.
THEOREM SuccessesAlwaysPaid == GuardedSpec => []SuccessesArePaid
BY KeeperIsProtected, ConfirmationsArePaid, PTL DEF SuccessesArePaid
=============================================================================
