---------------------- MODULE ProtectionManagerProofs ----------------------
(***************************************************************************)
(* Theorems of ProtectionManager for every set of users and vaults, every  *)
(* amount and every value of the constructor's parameters.                 *)
(*                                                                         *)
(* TypeOK is not inductive: that a subtraction never goes below zero needs *)
(* the share accounting (ShareCustody), the supply of each vault being the *)
(* sum of its balances, and what every recorded policy looks like.         *)
(***************************************************************************)
EXTENDS ProtectionManager, SumLemmas

\* The supply of a vault is the sum of its holders' shares.
SupplyIsSum == \A v \in Vaults : supply[v] = SumFunction(shareOf[v])

\* Identifiers are used in order, a used one names a vault and a beneficiary
\* that is neither this vault nor the manager, and an unused one holds the zero
\* value.
PoliciesWellFormed ==
    /\ \A id \in PolicyIds : Exists(id) <=> id < nextPolicyId
    /\ \A id \in PolicyIds :
          Exists(id) => /\ policies[id].vault \in Vaults
                        /\ policies[id].beneficiary \in Accounts
                        /\ policies[id].beneficiary \notin {Manager, policies[id].vault}
    /\ \A id \in PolicyIds : ~ Exists(id) => policies[id] = NoPolicy
    /\ treasury # Manager

\* The inductive invariant.
IndInv == TypeOK /\ ShareCustody /\ SupplyIsSum /\ PoliciesWellFormed

-----------------------------------------------------------------------------
(* Multiplication and division, for the share price.                        *)

\* What the provers need of products of naturals.
LEMMA Products ==
  ASSUME NEW a \in Nat, NEW b \in Nat, NEW c \in Nat
  PROVE  /\ a * b \in Nat
         /\ a * b = b * a
         /\ (a + b) * c = a * c + b * c
         /\ a <= b => a * c <= b * c
         /\ c # 0 /\ a * c <= b * c => a <= b
         /\ (a * b) * c = (a * c) * b
<1>1. a * b \in Nat /\ a * b = b * a /\ (a + b) * c = a * c + b * c /\ (a * b) * c = (a * c) * b
  OBVIOUS
<1>2. ASSUME a <= b PROVE a * c <= b * c
  <2>1. PICK d \in Nat : b = a + d
    <3>1. b - a \in Nat /\ b = a + (b - a)
      BY <1>2
    <3> QED BY <3>1
  <2>2. b * c = a * c + d * c /\ d * c \in Nat /\ a * c \in Nat
    BY <2>1
  <2> QED BY <2>2
<1>3. ASSUME c # 0, a * c <= b * c PROVE a <= b
  <2> SUFFICES ASSUME b < a PROVE FALSE
    OBVIOUS
  <2>1. PICK d \in Nat : a = b + 1 + d
    <3>1. a - b - 1 \in Nat /\ a = b + 1 + (a - b - 1)
      OBVIOUS
    <3> QED BY <3>1
  <2>2. a * c = b * c + c + d * c /\ d * c \in Nat /\ b * c \in Nat
    BY <2>1
  <2> QED BY <1>3, <2>2
<1> QED BY <1>1, <1>2, <1>3

\* The quotient rounded down.
LEMMA RoundedDown ==
  ASSUME NEW n \in Nat, NEW d \in Nat, d # 0
  PROVE  /\ n \div d \in Nat
         /\ (n \div d) * d <= n
         /\ \A q \in Nat : q * d <= n => q <= n \div d
<1>1. PICK q : q = n \div d
  OBVIOUS
<1>2. q \in Nat /\ q * d <= n /\ n < (q + 1) * d
  BY <1>1
<1>3. ASSUME NEW r \in Nat, r * d <= n PROVE r <= q
  <2> SUFFICES ASSUME q + 1 <= r PROVE FALSE
    BY <1>2
  <2>1. (q + 1) * d <= r * d
    BY <1>2, Products
  <2>2. (q + 1) * d \in Nat /\ r * d \in Nat
    BY <1>2, Products
  <2> QED BY <1>2, <1>3, <2>1, <2>2
<1> QED BY <1>1, <1>2, <1>3

\* The quotient rounded up, as the vault computes it.
LEMMA RoundedUp ==
  ASSUME NEW n \in Nat, NEW d \in Nat, d # 0
  PROVE  (n + (d - 1)) \div d \in Nat /\ n <= ((n + (d - 1)) \div d) * d
<1>1. PICK q : q = (n + (d - 1)) \div d
  OBVIOUS
<1>2. n + (d - 1) \in Nat
  OBVIOUS
<1>3. q \in Nat /\ n + (d - 1) < (q + 1) * d
  BY <1>1, <1>2
<1>4. (q + 1) * d = q * d + d /\ q * d \in Nat
  BY <1>3
<1> QED BY <1>1, <1>3, <1>4

\* A quotient does not fall when the ratio does not.
LEMMA QuotientMonotone ==
  ASSUME NEW x \in Nat, NEW n \in Nat, NEW d \in Nat, NEW m \in Nat, NEW e \in Nat,
         d # 0, e # 0, n * e <= m * d
  PROVE  (x * n) \div d <= (x * m) \div e
<1>1. PICK q : q = (x * n) \div d
  OBVIOUS
<1>2. x * n \in Nat /\ x * m \in Nat
  BY Products
<1>3. q \in Nat /\ q * d <= x * n
  BY <1>1, <1>2, RoundedDown
<1>4. (q * e) * d <= (x * m) * d
  <2>1. (q * d) * e <= (x * n) * e
    BY <1>2, <1>3, Products
  <2>2. (q * d) * e = (q * e) * d
    BY <1>3, Products
  <2>3. (n * e) * x <= (m * d) * x
    <3>1. n * e \in Nat /\ m * d \in Nat
      BY Products
    <3> QED BY <3>1, Products
  <2>4. (n * e) * x = (x * n) * e /\ (m * d) * x = (x * m) * d
    OBVIOUS
  <2>5. /\ (q * d) * e \in Nat /\ (n * e) * x \in Nat /\ (m * d) * x \in Nat
    <3>1. q * d \in Nat /\ n * e \in Nat /\ m * d \in Nat
      BY <1>3, Products
    <3> QED BY <3>1, Products
  <2> QED BY <2>1, <2>2, <2>3, <2>4, <2>5
<1>5. q * e <= x * m
  <2>1. q * e \in Nat
    BY <1>3, Products
  <2> QED BY <1>2, <1>4, <2>1, Products
<1> QED BY <1>1, <1>2, <1>3, <1>5, RoundedDown

\* Assets that come in for shares worth no more do not lower the price, even
\* when the vault was given something just before.
LEMMA EnteringKeepsPrice ==
  ASSUME NEW total \in Nat, NEW given \in Nat, NEW issued \in Nat,
         NEW assets \in Nat, NEW shares \in Nat, total <= given,
         shares * (given + 1) <= assets * (issued + 1)
  PROVE  (total + 1) * (issued + shares + 1) <= (given + assets + 1) * (issued + 1)
<1>1. PICK t, g, i \in Nat : t = total + 1 /\ g = given + 1 /\ i = issued + 1
  OBVIOUS
<1>2. t * (i + shares) = t * i + t * shares /\ (g + assets) * i = g * i + assets * i
  BY <1>1
<1>3. t * i <= g * i /\ t * shares <= g * shares /\ shares * g <= assets * i
  BY <1>1, Products
<1>4. t * i \in Nat /\ g * i \in Nat /\ t * shares \in Nat /\ shares * g \in Nat
      /\ assets * i \in Nat /\ g * shares = shares * g
  BY <1>1, Products
<1>5. t * (i + shares) <= (g + assets) * i
  BY <1>2, <1>3, <1>4
<1>6. issued + shares + 1 = i + shares /\ given + assets + 1 = g + assets
  BY <1>1
<1> QED BY <1>1, <1>5, <1>6

\* Assets that leave for shares worth no less do not lower the price.
LEMMA LeavingKeepsPrice ==
  ASSUME NEW total \in Nat, NEW issued \in Nat, NEW assets \in Nat, NEW shares \in Nat,
         assets <= total, shares <= issued,
         assets * (issued + 1) <= shares * (total + 1)
  PROVE  (total + 1) * (issued - shares + 1) <= (total - assets + 1) * (issued + 1)
<1>1. PICK a, s \in Nat : a = total - assets /\ s = issued - shares
  OBVIOUS
<1>2. PICK t, i \in Nat : t = total + 1 /\ i = issued + 1
  OBVIOUS
<1>3. t = (a + 1) + assets /\ i = (s + 1) + shares
  BY <1>1, <1>2
<1>4. t * i = t * (s + 1) + shares * t /\ t * i = (a + 1) * i + assets * i
  <2>1. t * i = t * (s + 1) + t * shares
    BY <1>1, <1>2, <1>3
  <2>2. t * i = (a + 1) * i + assets * i
    BY <1>1, <1>2, <1>3, Products
  <2> QED BY <1>2, <2>1, <2>2, Products
<1>5. t * (s + 1) \in Nat /\ shares * t \in Nat /\ (a + 1) * i \in Nat /\ assets * i \in Nat
  BY <1>1, <1>2, Products
<1>6. t * (s + 1) <= (a + 1) * i
  BY <1>2, <1>4, <1>5
<1> QED BY <1>1, <1>2, <1>6

-----------------------------------------------------------------------------
(* The operators the actions are built from.                                *)

\* Which accounts there are, and which of them differ.
LEMMA AccountsFacts ==
  /\ IsFiniteSet(Accounts) /\ Users \subseteq Accounts /\ Vaults \subseteq Accounts
  /\ Manager \in Accounts /\ Manager \notin Users /\ Manager \notin Vaults
  /\ LossSink \in Accounts
BY VaultAssumption DEF Accounts

\* A transfer that its source can pay keeps balances natural and their sum.
LEMMA MoveKeepsSum ==
  ASSUME NEW D, IsFiniteSet(D), NEW f \in [D -> Nat], NEW from \in D, NEW to \in D,
         NEW amount \in Nat, amount <= f[from]
  PROVE  /\ Move(f, from, to, amount) \in [D -> Nat]
         /\ SumFunction(Move(f, from, to, amount)) = SumFunction(f)
<1> DEFINE paid == [f EXCEPT ![from] = f[from] - amount]
           moved == Move(f, from, to, amount)
<1>1. paid \in [D -> Nat] /\ paid[from] = f[from] - amount
  OBVIOUS
<1>2. moved = [x \in D |-> IF x = to THEN paid[x] + amount ELSE paid[x]]
  BY DEF Move
<1>3. moved \in [D -> Nat] /\ moved[to] = paid[to] + amount
  <2> HIDE DEF paid
  <2> QED BY <1>1, <1>2
<1>4. SumFunctionOnSet(paid, D) = SumFunctionOnSet(f, D) + paid[from] - f[from]
  <2>1. \A x \in D : x # from => paid[x] = f[x]
    OBVIOUS
  <2> HIDE DEF paid
  <2> QED BY <1>1, <2>1, SumUpdate
<1>5. SumFunctionOnSet(moved, D) = SumFunctionOnSet(paid, D) + moved[to] - paid[to]
  <2> HIDE DEF moved, paid
  <2>1. \A x \in D : x # to => moved[x] = paid[x]
    BY <1>1, <1>2
  <2> QED BY <1>1, <1>3, <2>1, SumUpdate
<1>6. SumFunctionOnSet(f, D) \in Nat /\ SumFunctionOnSet(paid, D) \in Nat
  <2> HIDE DEF paid
  <2> QED BY <1>1, SumOfNaturals
<1>7. SumFunctionOnSet(moved, D) = SumFunctionOnSet(f, D)
  <2>1. f[from] \in Nat /\ paid[to] \in Nat
    BY <1>1
  <2> HIDE DEF moved, paid
  <2> QED BY <1>1, <1>3, <1>4, <1>5, <1>6, <2>1
<1>8. DOMAIN moved = D /\ DOMAIN f = D
  BY <1>3
<1> QED BY <1>3, <1>7, <1>8 DEF SumFunction

\* The vault's conversions are naturals.
LEMMA ConversionsType ==
  ASSUME NEW x \in Nat, NEW total \in Nat, NEW issued \in Nat
  PROVE  /\ ToShares(x, total, issued) \in Nat
         /\ ToAssets(x, total, issued) \in Nat
         /\ ToSharesUp(x, total, issued) \in Nat
         /\ ToAssetsUp(x, total, issued) \in Nat
<1>1. \A n, d \in Nat : d # 0 => n \div d \in Nat
  OBVIOUS
<1>2. /\ x * (issued + 1) \in Nat /\ x * (total + 1) \in Nat
      /\ x * (issued + 1) + total \in Nat /\ x * (total + 1) + issued \in Nat
      /\ total + 1 \in Nat /\ issued + 1 \in Nat /\ total + 1 # 0 /\ issued + 1 # 0
  <2>1. \A n, m \in Nat : n * m \in Nat
    OBVIOUS
  <2> QED BY <2>1
<1> QED BY <1>1, <1>2 DEF ToShares, ToAssets, ToSharesUp, ToAssetsUp

\* Identifiers are finitely many naturals, so their shares can be summed.
LEMMA PolicyIdsFinite == IsFiniteSet(PolicyIds) /\ PolicyIds \subseteq Nat
BY ManagerAssumption, FS_Interval DEF PolicyIds

\* What the manager holds after it collected the principal and passed the fee
\* on.  No vault pays for it, and one that is the treasury receives the fee.
LEMMA CollectFeeFacts ==
  ASSUME usdc \in [Accounts -> Nat], treasury \in Accounts, treasury # Manager,
         NEW sender \in Users, NEW principal \in Nat,
         principal + ProtectionFee <= usdc[sender]
  PROVE  /\ CollectFee(sender, principal) \in [Accounts -> Nat]
         /\ CollectFee(sender, principal)[Manager] = usdc[Manager] + principal
         /\ principal <= CollectFee(sender, principal)[Manager]
         /\ \A v \in Vaults : usdc[v] <= CollectFee(sender, principal)[v]
<1> USE AccountsFacts, ManagerAssumption
<1>1. PICK pulled : pulled = Move(usdc, sender, Manager, principal + ProtectionFee)
  OBVIOUS
<1>2. PICK ledger : ledger = Move(pulled, Manager, treasury, ProtectionFee)
  OBVIOUS
<1>3. principal + ProtectionFee \in Nat /\ ProtectionFee \in Nat /\ sender \in Accounts
  OBVIOUS
<1>4. pulled \in [Accounts -> Nat]
  BY <1>1, <1>3, MoveKeepsSum
<1>5. pulled[Manager] = usdc[Manager] + (principal + ProtectionFee)
  BY <1>1, <1>3 DEF Move
<1>6. usdc[Manager] \in Nat
  OBVIOUS
<1>7. ProtectionFee <= pulled[Manager]
  BY <1>5, <1>6
<1>8. ledger \in [Accounts -> Nat]
  BY <1>2, <1>3, <1>4, <1>7, MoveKeepsSum
<1>9. ledger[Manager] = pulled[Manager] - ProtectionFee
  BY <1>2, <1>3, <1>4 DEF Move
<1>10. ASSUME NEW v \in Vaults PROVE usdc[v] <= ledger[v]
  <2>1. v \in Accounts /\ v # sender /\ v # Manager
    BY VaultAssumption
  <2>2. pulled[v] = usdc[v]
    BY <1>1, <1>3, <2>1 DEF Move
  <2>3. ledger[v] = IF v = treasury THEN pulled[v] + ProtectionFee ELSE pulled[v]
    BY <1>2, <1>3, <1>4, <2>1 DEF Move
  <2>4. usdc[v] \in Nat
    BY <2>1
  <2> QED BY <1>3, <2>2, <2>3, <2>4
<1>11. ledger = CollectFee(sender, principal)
  BY <1>1, <1>2 DEF CollectFee
<1> QED BY <1>5, <1>6, <1>8, <1>9, <1>10, <1>11

\* The part of the invariant that is about the vaults and the token.
LedgerInv == VaultTypeOK /\ SupplyIsSum

\* Issuing shares keeps the types and the supply.
LEMMA MintKeepsLedger ==
  ASSUME LedgerInv, NEW v \in Vaults, NEW receiver \in Accounts, NEW shares \in Nat,
         MintTo(v, receiver, shares), usdc' \in [Accounts -> Nat]
  PROVE  /\ LedgerInv'
         /\ \A w \in Vaults : shareOf'[w][Manager] =
               IF w = v /\ receiver = Manager THEN shareOf[w][Manager] + shares
                                              ELSE shareOf[w][Manager]
<1> USE AccountsFacts
<1>1. /\ shareOf \in [Vaults -> [Accounts -> Nat]] /\ supply \in [Vaults -> Nat]
      /\ shareOf[v] \in [Accounts -> Nat] /\ supply[v] \in Nat
  BY DEF LedgerInv, VaultTypeOK
<1>2. /\ shareOf' = [shareOf EXCEPT ![v] = [shareOf[v] EXCEPT ![receiver] = @ + shares]]
      /\ supply' = [supply EXCEPT ![v] = supply[v] + shares]
  BY <1>1 DEF MintTo
<1>3. PICK h : h = [shareOf[v] EXCEPT ![receiver] = @ + shares]
  OBVIOUS
<1>4. /\ h \in [Accounts -> Nat] /\ h[receiver] = shareOf[v][receiver] + shares
      /\ \A x \in Accounts : x # receiver => h[x] = shareOf[v][x]
  BY <1>1, <1>3
<1>5. shareOf' = [shareOf EXCEPT ![v] = h]
  BY <1>2, <1>3
<1>6. SumFunctionOnSet(h, Accounts) = SumFunctionOnSet(shareOf[v], Accounts) + shares
  <2>1. SumFunctionOnSet(h, Accounts) =
           SumFunctionOnSet(shareOf[v], Accounts) + h[receiver] - shareOf[v][receiver]
    BY <1>1, <1>4, SumUpdate
  <2>2. SumFunctionOnSet(shareOf[v], Accounts) \in Nat /\ shareOf[v][receiver] \in Nat
    BY <1>1, SumOfNaturals
  <2> QED BY <1>4, <2>1, <2>2
<1>7. VaultTypeOK'
  BY <1>1, <1>2, <1>4, <1>5 DEF VaultTypeOK
<1>8. \A w \in Vaults : supply'[w] = SumFunction(shareOf'[w])
  <2> SUFFICES ASSUME NEW w \in Vaults PROVE supply'[w] = SumFunction(shareOf'[w])
    OBVIOUS
  <2>1. supply[w] = SumFunctionOnSet(shareOf[w], Accounts)
    BY <1>1 DEF LedgerInv, SupplyIsSum, SumFunction
  <2>2. CASE w = v
    BY <1>1, <1>2, <1>4, <1>5, <1>6, <2>1, <2>2 DEF SumFunction
  <2>3. CASE w # v
    BY <1>1, <1>2, <1>5, <2>1, <2>3 DEF SumFunction
  <2> QED BY <2>2, <2>3
<1>9. \A w \in Vaults : shareOf'[w][Manager] =
               IF w = v /\ receiver = Manager THEN shareOf[w][Manager] + shares
                                              ELSE shareOf[w][Manager]
  BY <1>1, <1>4, <1>5
<1> QED BY <1>7, <1>8, <1>9 DEF LedgerInv, SupplyIsSum

\* Burning shares keeps the types and the supply.
LEMMA BurnKeepsLedger ==
  ASSUME LedgerInv, NEW v \in Vaults, NEW holder \in Accounts, NEW shares \in Nat,
         BurnFrom(v, holder, shares), usdc' \in [Accounts -> Nat]
  PROVE  /\ LedgerInv'
         /\ \A w \in Vaults : shareOf'[w][Manager] =
               IF w = v /\ holder = Manager THEN shareOf[w][Manager] - shares
                                            ELSE shareOf[w][Manager]
<1> USE AccountsFacts
<1>1. /\ shareOf \in [Vaults -> [Accounts -> Nat]] /\ supply \in [Vaults -> Nat]
      /\ shareOf[v] \in [Accounts -> Nat] /\ supply[v] \in Nat
  BY DEF LedgerInv, VaultTypeOK
<1>2. /\ shares <= shareOf[v][holder]
      /\ shareOf' = [shareOf EXCEPT ![v] = [shareOf[v] EXCEPT ![holder] = @ - shares]]
      /\ supply' = [supply EXCEPT ![v] = supply[v] - shares]
  BY <1>1 DEF BurnFrom
<1>3. PICK h : h = [shareOf[v] EXCEPT ![holder] = @ - shares]
  OBVIOUS
<1>4. /\ h \in [Accounts -> Nat] /\ h[holder] = shareOf[v][holder] - shares
      /\ \A x \in Accounts : x # holder => h[x] = shareOf[v][x]
  BY <1>1, <1>2, <1>3
<1>5. shareOf' = [shareOf EXCEPT ![v] = h]
  BY <1>2, <1>3
<1>6. /\ SumFunctionOnSet(h, Accounts) = SumFunctionOnSet(shareOf[v], Accounts) - shares
      /\ SumFunctionOnSet(h, Accounts) \in Nat
  <2>1. SumFunctionOnSet(h, Accounts) =
           SumFunctionOnSet(shareOf[v], Accounts) + h[holder] - shareOf[v][holder]
    BY <1>1, <1>4, SumUpdate
  <2>2. SumFunctionOnSet(shareOf[v], Accounts) \in Nat /\ shareOf[v][holder] \in Nat
    BY <1>1, SumOfNaturals
  <2>3. SumFunctionOnSet(h, Accounts) \in Nat
    BY <1>4, SumOfNaturals
  <2> QED BY <1>4, <2>1, <2>2, <2>3
<1>7. \A w \in Vaults : supply'[w] = SumFunction(shareOf'[w])
  <2> SUFFICES ASSUME NEW w \in Vaults PROVE supply'[w] = SumFunction(shareOf'[w])
    OBVIOUS
  <2>1. supply[w] = SumFunctionOnSet(shareOf[w], Accounts)
    BY <1>1 DEF LedgerInv, SupplyIsSum, SumFunction
  <2>2. CASE w = v
    BY <1>1, <1>2, <1>4, <1>5, <1>6, <2>1, <2>2 DEF SumFunction
  <2>3. CASE w # v
    BY <1>1, <1>2, <1>5, <2>1, <2>3 DEF SumFunction
  <2> QED BY <2>2, <2>3
<1>8. supply[v] - shares \in Nat
  BY <1>1, <1>6 DEF LedgerInv, SupplyIsSum, SumFunction
<1>9. VaultTypeOK'
  BY <1>1, <1>2, <1>4, <1>5, <1>8 DEF VaultTypeOK
<1>10. \A w \in Vaults : shareOf'[w][Manager] =
               IF w = v /\ holder = Manager THEN shareOf[w][Manager] - shares
                                            ELSE shareOf[w][Manager]
  BY <1>1, <1>4, <1>5
<1> QED BY <1>7, <1>9, <1>10 DEF LedgerInv, SupplyIsSum

\* A transaction of somebody else keeps the ledger's invariant and takes no
\* share from the manager.
LEMMA OutsideKeepsLedger ==
  ASSUME LedgerInv, VaultNext
  PROVE  LedgerInv' /\ \A w \in Vaults : shareOf[w][Manager] <= shareOf'[w][Manager]
<1> USE AccountsFacts
<1> DEFINE Goal == LedgerInv' /\ \A w \in Vaults : shareOf[w][Manager] <= shareOf'[w][Manager]
<1>1. /\ usdc \in [Accounts -> Nat] /\ supply \in [Vaults -> Nat]
      /\ shareOf \in [Vaults -> [Accounts -> Nat]]
  BY DEF LedgerInv, VaultTypeOK
<1>2. PICK amount \in Amounts :
         \/ \E user \in Users, v \in Vaults :
               \/ Deposit(user, v, amount)
               \/ Mint(user, v, amount)
               \/ Redeem(user, v, amount)
               \/ Withdraw(user, v, amount)
         \/ \E v \in Vaults : SimulateLoss(v, amount)
         \/ \E from \in Users, to \in Accounts : TransferUsdc(from, to, amount)
         \/ \E v \in Vaults, from \in Users, to \in Users \cup {Manager} :
               TransferShares(v, from, to, amount)
  BY DEF VaultNext
<1>3. amount \in Nat
  BY VaultAssumption
<1>4. ASSUME NEW user \in Users, NEW v \in Vaults, NEW assets \in Nat, NEW shares \in Nat,
             Enter(user, v, assets, shares)
      PROVE  Goal
  <2>1. usdc' \in [Accounts -> Nat]
    BY <1>1, <1>4, MoveKeepsSum DEF Enter
  <2>2. /\ LedgerInv'
        /\ \A w \in Vaults : shareOf'[w][Manager] = shareOf[w][Manager]
    BY <1>4, <2>1, MintKeepsLedger DEF Enter
  <2> QED BY <1>1, <2>2
<1>5. ASSUME NEW user \in Users, NEW v \in Vaults, NEW assets \in Nat, NEW shares \in Nat,
             Leave(user, v, assets, shares)
      PROVE  Goal
  <2>1. usdc' \in [Accounts -> Nat]
    BY <1>1, <1>5, MoveKeepsSum DEF Leave
  <2>2. /\ LedgerInv'
        /\ \A w \in Vaults : shareOf'[w][Manager] = shareOf[w][Manager]
    BY <1>5, <2>1, BurnKeepsLedger DEF Leave
  <2> QED BY <1>1, <2>2
<1>6. ASSUME NEW from \in Accounts, NEW to \in Accounts,
             amount <= usdc[from], usdc' = Move(usdc, from, to, amount),
             UNCHANGED <<shareOf, supply>>
      PROVE  Goal
  <2>1. usdc' \in [Accounts -> Nat]
    BY <1>1, <1>3, <1>6, MoveKeepsSum
  <2> QED BY <1>1, <1>6, <2>1 DEF LedgerInv, VaultTypeOK, SupplyIsSum
<1>7. ASSUME NEW user \in Users, NEW v \in Vaults
      PROVE  /\ Deposit(user, v, amount) => Goal
             /\ Mint(user, v, amount) => Goal
             /\ Redeem(user, v, amount) => Goal
             /\ Withdraw(user, v, amount) => Goal
  <2>1. /\ ToShares(amount, usdc[v], supply[v]) \in Nat
        /\ ToAssetsUp(amount, usdc[v], supply[v]) \in Nat
        /\ ToAssets(amount, usdc[v], supply[v]) \in Nat
        /\ ToSharesUp(amount, usdc[v], supply[v]) \in Nat
    BY <1>1, <1>3, ConversionsType
  <2> QED BY <1>3, <1>4, <1>5, <2>1 DEF Deposit, Mint, Redeem, Withdraw, PreviewRedeem
<1>8. ASSUME NEW v \in Vaults, SimulateLoss(v, amount) PROVE Goal
  <2>1. usdc[v] \in Nat /\ amount <= usdc[v]
    BY <1>1, <1>3, <1>8 DEF SimulateLoss
  <2> QED BY <1>6, <1>8, <2>1 DEF SimulateLoss
<1>9. ASSUME NEW from \in Users, NEW to \in Accounts, TransferUsdc(from, to, amount)
      PROVE  Goal
  BY <1>6, <1>9 DEF TransferUsdc
<1>10. ASSUME NEW v \in Vaults, NEW from \in Users, NEW to \in Users \cup {Manager},
              TransferShares(v, from, to, amount)
       PROVE  Goal
  <2>1. /\ shareOf[v] \in [Accounts -> Nat] /\ amount <= shareOf[v][from]
        /\ from \in Accounts /\ to \in Accounts /\ from # Manager
    BY <1>1, <1>10 DEF TransferShares
  <2>2. PICK h : h = Move(shareOf[v], from, to, amount)
    OBVIOUS
  <2>3. h \in [Accounts -> Nat] /\ SumFunction(h) = SumFunction(shareOf[v])
    <3>1. PICK f \in [Accounts -> Nat] : f = shareOf[v]
      BY <2>1
    <3>2. amount <= f[from] /\ h = Move(f, from, to, amount)
      BY <2>1, <2>2, <3>1
    <3>3. h \in [Accounts -> Nat] /\ SumFunction(h) = SumFunction(f)
      BY <1>3, <2>1, <3>2, MoveKeepsSum
    <3> QED BY <3>1, <3>3
  <2>4. shareOf[v][Manager] <= h[Manager]
    BY <1>1, <1>3, <2>1, <2>2 DEF Move
  <2>5. shareOf' = [shareOf EXCEPT ![v] = h] /\ usdc' = usdc /\ supply' = supply
    BY <1>10, <2>2 DEF TransferShares
  <2>6. VaultTypeOK'
    BY <1>1, <2>3, <2>5 DEF VaultTypeOK
  <2>7. SupplyIsSum'
    BY <1>1, <2>3, <2>5 DEF SupplyIsSum, LedgerInv
  <2>8. \A w \in Vaults : shareOf[w][Manager] <= shareOf'[w][Manager]
    BY <1>1, <2>4, <2>5
  <2> QED BY <2>6, <2>7, <2>8 DEF LedgerInv
<1> HIDE DEF Goal
<1>11. Goal
  BY <1>2, <1>7, <1>8, <1>9, <1>10
<1> QED BY <1>11 DEF Goal

-----------------------------------------------------------------------------
(* The sum of the active shares of a vault.                                 *)

\* Each summand is a natural, and it depends on one policy only.
LEMMA CustodyType ==
  ASSUME policies \in [PolicyIds -> Policy], NEW v \in Vaults
  PROVE  [id \in PolicyIds |-> CustodyOf(id, v)] \in [PolicyIds -> Nat]
BY DEF CustodyOf, Policy

\* Changing one policy changes the active shares of each vault by what that
\* policy contributes.
LEMMA ActiveSharesUpdate ==
  ASSUME policies \in [PolicyIds -> Policy], policies' \in [PolicyIds -> Policy],
         NEW d \in PolicyIds, NEW v \in Vaults,
         \A id \in PolicyIds : id # d => policies'[id] = policies[id]
  PROVE  /\ ActiveShares(v)' = ActiveShares(v) + CustodyOf(d, v)' - CustodyOf(d, v)
         /\ ActiveShares(v) \in Nat
         /\ CustodyOf(d, v) <= ActiveShares(v)
<1>1. PICK f : f = [id \in PolicyIds |-> CustodyOf(id, v)]
  OBVIOUS
<1>2. PICK h : h = [id \in PolicyIds |-> CustodyOf(id, v)']
  OBVIOUS
<1>3. f \in [PolicyIds -> Nat]
  BY <1>1, CustodyType
<1>4. h \in [PolicyIds -> Nat]
  BY <1>2 DEF CustodyOf, Policy
<1>5. \A id \in PolicyIds : id # d => h[id] = f[id]
  BY <1>1, <1>2 DEF CustodyOf, IsActive, Exists
<1>6. SumFunctionOnSet(h, PolicyIds) = SumFunctionOnSet(f, PolicyIds) + h[d] - f[d]
  BY <1>3, <1>4, <1>5, PolicyIdsFinite, SumUpdate
<1>7. SumFunctionOnSet(f, PolicyIds) \in Nat /\ f[d] <= SumFunctionOnSet(f, PolicyIds)
  BY <1>3, PolicyIdsFinite, SumOfNaturals
<1>8. ActiveShares(v) = SumFunctionOnSet(f, PolicyIds)
  BY <1>1, <1>3 DEF ActiveShares, SumFunction
<1>9. ActiveShares(v)' = SumFunctionOnSet(h, PolicyIds)
  BY <1>2, <1>4 DEF ActiveShares, SumFunction
<1>10. f[d] = CustodyOf(d, v) /\ h[d] = CustodyOf(d, v)'
  BY <1>1, <1>2
<1> QED BY <1>6, <1>7, <1>8, <1>9, <1>10

-----------------------------------------------------------------------------
(* The inductive invariant.                                                 *)

\* A manager without policies over new vaults is in a state of the invariant.
LEMMA FreshIndInv ==
  ASSUME VaultInit, policies = [id \in PolicyIds |-> NoPolicy], nextPolicyId = 1,
         activeSharesByVault = [v \in Vaults |-> 0], isVaultAllowed \in [Vaults -> BOOLEAN],
         treasury = FirstTreasury, paused = FALSE, now = 0
  PROVE  IndInv
<1> USE AccountsFacts, ManagerAssumption, VaultAssumption DEF VaultInit
<1>1. \A id \in PolicyIds : ~ Exists(id)
  BY DEF Exists, NoPolicy
<1>2. TypeOK
  <2>1. VaultTypeOK
    BY DEF VaultTypeOK
  <2>2. policies \in [PolicyIds -> Policy]
    BY DEF NoPolicy, Policy, Statuses
  <2>3. nextPolicyId \in 1..(MaxPolicies + 1)
    OBVIOUS
  <2> QED BY <2>1, <2>2, <2>3 DEF TypeOK
<1>3. ShareCustody
  <2> SUFFICES ASSUME NEW v \in Vaults
               PROVE  /\ ActiveShares(v) = activeSharesByVault[v]
                      /\ activeSharesByVault[v] <= shareOf[v][Manager]
    BY DEF ShareCustody
  <2>1. PICK f : f = [id \in PolicyIds |-> CustodyOf(id, v)]
    OBVIOUS
  <2>2. \A id \in PolicyIds : f[id] = 0
    BY <1>1, <2>1 DEF CustodyOf, IsActive
  <2>3. ActiveShares(v) = 0
    BY <2>1, <2>2, PolicyIdsFinite, SumOfZeros DEF ActiveShares, SumFunction
  <2> QED BY <2>3
<1>4. SupplyIsSum
  <2> SUFFICES ASSUME NEW v \in Vaults PROVE supply[v] = SumFunction(shareOf[v])
    BY DEF SupplyIsSum
  <2> QED BY SumOfZeros DEF SumFunction
<1>5. PoliciesWellFormed
  BY <1>1 DEF PoliciesWellFormed, PolicyIds
<1> QED BY <1>2, <1>3, <1>4, <1>5 DEF IndInv

\* The contracts are deployed in a state of the invariant.
LEMMA InitIndInv == Init => IndInv
  BY FreshIndInv DEF Init

\* openPolicy keeps the invariant.
LEMMA OpenPolicyIndInv ==
  ASSUME IndInv, NEW sender \in Users, NEW vault \in Vaults, NEW beneficiary \in Accounts,
         NEW principal \in Nat, NEW lossLimit \in Nat, NEW duration \in Nat,
         NEW minimumShares \in Nat,
         OpenPolicy(sender, vault, beneficiary, principal, lossLimit, duration, minimumShares)
  PROVE  IndInv'
<1> USE AccountsFacts, ManagerAssumption
<1> DEFINE ledger == CollectFee(sender, principal)
           shares == EntryShares(principal, ledger, vault)
           trigger == TriggerAssets(principal, lossLimit)
           opened == [owner |-> sender, beneficiary |-> beneficiary, vault |-> vault,
                      principalAssets |-> principal, shares |-> shares,
                      triggerAssets |-> trigger, assetsReturned |-> 0, openedAt |-> now,
                      expiresAt |-> now + duration, status |-> "Active"]
<1>1. /\ usdc \in [Accounts -> Nat] /\ supply \in [Vaults -> Nat]
      /\ shareOf \in [Vaults -> [Accounts -> Nat]] /\ LedgerInv
      /\ policies \in [PolicyIds -> Policy] /\ nextPolicyId \in Nat /\ now \in Nat
      /\ activeSharesByVault \in [Vaults -> Nat]
      /\ treasury \in Accounts /\ treasury # Manager
  BY DEF IndInv, TypeOK, VaultTypeOK, LedgerInv, PoliciesWellFormed
<1>2. /\ principal + ProtectionFee <= usdc[sender]
      /\ nextPolicyId <= MaxPolicies
      /\ usdc' = Move(ledger, Manager, vault, principal)
      /\ MintTo(vault, Manager, shares)
      /\ policies' = [policies EXCEPT ![nextPolicyId] = opened]
      /\ nextPolicyId' = nextPolicyId + 1
      /\ activeSharesByVault' =
            [activeSharesByVault EXCEPT ![vault] = activeSharesByVault[vault] + shares]
      /\ isVaultAllowed' = isVaultAllowed /\ treasury' = treasury /\ paused' = paused
      /\ now' = now
      /\ ValidRequest(vault, beneficiary, principal, lossLimit, duration, minimumShares)
  BY <1>1 DEF OpenPolicy, adminVars
<1>3. ledger \in [Accounts -> Nat] /\ principal <= ledger[Manager]
  BY <1>1, <1>2, CollectFeeFacts
<1> HIDE DEF ledger
<1>4. shares \in Nat
  BY <1>1, <1>3, ConversionsType DEF EntryShares
<1>5. trigger \in Nat
  <2>1. BpsDenominator - lossLimit \in Nat
    BY <1>2 DEF ValidRequest, BpsDenominator
  <2>2. \A a, b \in Nat : (a * b) \div BpsDenominator \in Nat
    BY DEF BpsDenominator
  <2> QED BY <2>1, <2>2 DEF TriggerAssets
<1> HIDE DEF shares, trigger
<1>6. usdc' \in [Accounts -> Nat]
  BY <1>2, <1>3, MoveKeepsSum
<1>7. /\ LedgerInv'
      /\ \A w \in Vaults : shareOf'[w][Manager] =
            IF w = vault THEN shareOf[w][Manager] + shares ELSE shareOf[w][Manager]
  BY <1>1, <1>2, <1>4, <1>6, MintKeepsLedger
<1>8. PICK new \in PolicyIds : new = nextPolicyId
  <2>1. nextPolicyId \in 1..(MaxPolicies + 1)
    BY DEF IndInv, TypeOK
  <2> QED BY <1>2, <2>1 DEF PolicyIds
<1>9. opened \in Policy
  BY <1>1, <1>4, <1>5 DEF Policy, Statuses
<1>10. /\ policies' \in [PolicyIds -> Policy]
       /\ policies'[new] = opened
       /\ \A id \in PolicyIds : id # new => policies'[id] = policies[id]
       /\ nextPolicyId' \in 1..(MaxPolicies + 1)
       /\ activeSharesByVault' \in [Vaults -> Nat]
  <2> HIDE DEF opened
  <2> QED BY <1>1, <1>2, <1>4, <1>8, <1>9
<1>11. TypeOK'
  BY <1>1, <1>2, <1>7, <1>10 DEF TypeOK, IndInv, LedgerInv
<1>12. ShareCustody'
  <2> SUFFICES ASSUME NEW v \in Vaults
               PROVE  /\ ActiveShares(v)' = activeSharesByVault'[v]
                      /\ activeSharesByVault'[v] <= shareOf'[v][Manager]
    BY DEF ShareCustody
  <2>1. ~ Exists(new)
    BY <1>1, <1>8 DEF IndInv, PoliciesWellFormed
  <2>2. CustodyOf(new, v) = 0
    BY <2>1 DEF CustodyOf, IsActive
  <2>3. CustodyOf(new, v)' = IF v = vault THEN shares ELSE 0
    <3>1. sender # ZeroAddress
      OBVIOUS
    <3>2. /\ policies'[new].owner = sender /\ policies'[new].status = "Active"
          /\ policies'[new].vault = vault /\ policies'[new].shares = shares
      BY <1>10
    <3> HIDE DEF opened
    <3> QED BY <3>1, <3>2 DEF CustodyOf, IsActive, Exists
  <2>4. ActiveShares(v)' = ActiveShares(v) + CustodyOf(new, v)' - CustodyOf(new, v)
    BY <1>1, <1>10, ActiveSharesUpdate
  <2>5. ActiveShares(v) = activeSharesByVault[v] /\ activeSharesByVault[v] <= shareOf[v][Manager]
    BY DEF IndInv, ShareCustody
  <2>6. activeSharesByVault[v] \in Nat /\ shareOf[v][Manager] \in Nat
    BY <1>1
  <2>7. activeSharesByVault'[v] = IF v = vault THEN activeSharesByVault[v] + shares
                                               ELSE activeSharesByVault[v]
    BY <1>1, <1>2
  <2> QED BY <1>4, <1>7, <2>2, <2>3, <2>4, <2>5, <2>6, <2>7
<1>13. PoliciesWellFormed'
  <2>1. ASSUME NEW id \in PolicyIds, Exists(id)'
        PROVE  /\ policies'[id].vault \in Vaults /\ policies'[id].beneficiary \in Accounts
               /\ policies'[id].beneficiary \notin {Manager, policies'[id].vault}
    <3>1. CASE id = new
      <4>1. policies'[id].vault = vault /\ policies'[id].beneficiary = beneficiary
        BY <1>10, <3>1
      <4> QED BY <1>1, <1>2, <4>1 DEF ValidRequest
    <3>2. CASE id # new
      <4>1. policies'[id] = policies[id] /\ Exists(id)
        BY <1>10, <2>1, <3>2 DEF Exists
      <4> QED BY <4>1 DEF IndInv, PoliciesWellFormed
    <3> QED BY <3>1, <3>2
  <2>2. ASSUME NEW id \in PolicyIds, ~ Exists(id)' PROVE policies'[id] = NoPolicy
    <3>1. id # new
      <4>1. policies'[new].owner = sender
        BY <1>10
      <4> QED BY <2>2, <4>1 DEF Exists
    <3>2. policies'[id] = policies[id] /\ ~ Exists(id)
      BY <1>10, <2>2, <3>1 DEF Exists
    <3> QED BY <3>2 DEF IndInv, PoliciesWellFormed
  <2>3. ASSUME NEW id \in PolicyIds PROVE Exists(id)' <=> id < nextPolicyId'
    <3>1. id \in Nat /\ nextPolicyId' = nextPolicyId + 1
      BY <1>2, PolicyIdsFinite
    <3>2. CASE id = new
      <4>1. policies'[id].owner = sender
        BY <1>10, <3>2
      <4> QED BY <1>1, <1>8, <3>1, <3>2, <4>1 DEF Exists
    <3>3. CASE id # new
      <4>1. Exists(id)' <=> Exists(id)
        BY <1>10, <3>3 DEF Exists
      <4>2. Exists(id) <=> id < nextPolicyId
        BY DEF IndInv, PoliciesWellFormed
      <4> QED BY <1>1, <1>8, <3>1, <3>3, <4>1, <4>2
    <3> QED BY <3>2, <3>3
  <2> HIDE DEF opened
  <2> QED BY <1>1, <1>2, <2>1, <2>2, <2>3 DEF PoliciesWellFormed
<1> QED BY <1>7, <1>11, <1>12, <1>13 DEF IndInv, LedgerInv

\* Every exit keeps the invariant: it burns exactly the policy's shares and
\* takes exactly those off the count.
LEMMA ExitPolicyIndInv ==
  ASSUME IndInv, NEW d \in PolicyIds, IsActive(d),
         NEW finalStatus \in {"Executed", "Cancelled", "Expired"},
         NEW minimumAssets \in Nat, ExitPolicy(d, finalStatus, minimumAssets)
  PROVE  IndInv'
<1> USE AccountsFacts, ManagerAssumption
<1> DEFINE vault == policies[d].vault
           beneficiary == policies[d].beneficiary
           shares == policies[d].shares
           assets == PreviewRedeem(vault, shares)
           settled == Move(usdc, vault, beneficiary, assets)
           returned == settled[beneficiary] - usdc[beneficiary]
           closed == [policies[d] EXCEPT !.status = finalStatus, !.assetsReturned = returned]
<1>1. /\ usdc \in [Accounts -> Nat] /\ supply \in [Vaults -> Nat]
      /\ shareOf \in [Vaults -> [Accounts -> Nat]] /\ LedgerInv
      /\ policies \in [PolicyIds -> Policy] /\ nextPolicyId \in 1..(MaxPolicies + 1)
      /\ activeSharesByVault \in [Vaults -> Nat]
  BY DEF IndInv, TypeOK, VaultTypeOK, LedgerInv
<1>2. /\ Exists(d) /\ vault \in Vaults /\ beneficiary \in Accounts
      /\ shares \in Nat /\ policies[d] \in Policy
  <2>1. policies[d] \in Policy
    BY <1>1
  <2> QED BY <2>1 DEF IndInv, PoliciesWellFormed, IsActive, Policy
<1>3. /\ assets <= usdc[vault] /\ returned = assets
      /\ usdc' = settled
      /\ BurnFrom(vault, Manager, shares)
      /\ policies' = [policies EXCEPT ![d] = closed]
      /\ activeSharesByVault' =
            [activeSharesByVault EXCEPT ![vault] = activeSharesByVault[vault] - shares]
      /\ nextPolicyId' = nextPolicyId /\ isVaultAllowed' = isVaultAllowed
      /\ treasury' = treasury /\ paused' = paused /\ now' = now
  BY <1>1, <1>2 DEF ExitPolicy, Settle, adminVars
<1>4. assets \in Nat
  BY <1>1, <1>2, ConversionsType DEF PreviewRedeem
<1>5. usdc' \in [Accounts -> Nat]
  <2> HIDE DEF assets
  <2> QED BY <1>1, <1>2, <1>3, <1>4, MoveKeepsSum
<1>6. closed \in Policy
  <2>1. returned \in Nat
    BY <1>3, <1>4
  <2> HIDE DEF returned
  <2> QED BY <1>2, <2>1 DEF Policy, Statuses
<1>7. /\ closed.owner = policies[d].owner /\ closed.vault = vault
      /\ closed.beneficiary = beneficiary /\ closed.status = finalStatus
  BY <1>2 DEF Policy
<1> HIDE DEF closed, returned, settled, assets
<1>8. /\ LedgerInv'
      /\ \A w \in Vaults : shareOf'[w][Manager] =
            IF w = vault THEN shareOf[w][Manager] - shares ELSE shareOf[w][Manager]
  BY <1>1, <1>2, <1>3, <1>5, BurnKeepsLedger
<1>9. /\ policies' \in [PolicyIds -> Policy] /\ policies'[d] = closed
      /\ \A id \in PolicyIds : id # d => policies'[id] = policies[id]
  BY <1>1, <1>3, <1>6
<1>10. ASSUME NEW v \in Vaults
       PROVE  /\ CustodyOf(d, v) = IF v = vault THEN shares ELSE 0
              /\ CustodyOf(d, v)' = 0
              /\ ActiveShares(v)' = ActiveShares(v) - CustodyOf(d, v)
              /\ ActiveShares(v) = activeSharesByVault[v]
              /\ activeSharesByVault[v] <= shareOf[v][Manager]
              /\ CustodyOf(d, v) <= activeSharesByVault[v]
  <2>1. CustodyOf(d, v) = IF v = vault THEN shares ELSE 0
    BY DEF CustodyOf
  <2>2. CustodyOf(d, v)' = 0
    BY <1>7, <1>9 DEF CustodyOf, IsActive, Exists
  <2>3. /\ ActiveShares(v)' = ActiveShares(v) + CustodyOf(d, v)' - CustodyOf(d, v)
        /\ ActiveShares(v) \in Nat /\ CustodyOf(d, v) <= ActiveShares(v)
    BY <1>1, <1>9, ActiveSharesUpdate
  <2>4. ActiveShares(v) = activeSharesByVault[v] /\ activeSharesByVault[v] <= shareOf[v][Manager]
    BY DEF IndInv, ShareCustody
  <2>5. ActiveShares(v) + CustodyOf(d, v)' - CustodyOf(d, v) = ActiveShares(v) - CustodyOf(d, v)
    BY <1>2, <2>1, <2>2, <2>3
  <2> QED BY <2>1, <2>2, <2>3, <2>4, <2>5
<1>11. /\ activeSharesByVault' \in [Vaults -> Nat]
       /\ \A v \in Vaults : activeSharesByVault'[v] =
             IF v = vault THEN activeSharesByVault[v] - shares ELSE activeSharesByVault[v]
  <2>1. CustodyOf(d, vault) = shares /\ CustodyOf(d, vault) <= activeSharesByVault[vault]
    BY <1>2, <1>10
  <2>2. activeSharesByVault[vault] - shares \in Nat
    BY <1>1, <1>2, <2>1
  <2> QED BY <1>1, <1>2, <1>3, <2>2
<1>12. TypeOK'
  BY <1>1, <1>3, <1>8, <1>9, <1>11 DEF TypeOK, IndInv, LedgerInv
<1>13. ShareCustody'
  <2> SUFFICES ASSUME NEW v \in Vaults
               PROVE  /\ ActiveShares(v)' = activeSharesByVault'[v]
                      /\ activeSharesByVault'[v] <= shareOf'[v][Manager]
    BY DEF ShareCustody
  <2>1. activeSharesByVault[v] \in Nat /\ shareOf[v][Manager] \in Nat
    BY <1>1
  <2> QED BY <1>2, <1>8, <1>10, <1>11, <2>1
<1>14. PoliciesWellFormed'
  <2>1. \A id \in PolicyIds : Exists(id)' <=> Exists(id)
    BY <1>7, <1>9 DEF Exists
  <2>2. \A id \in PolicyIds : /\ policies'[id].vault = policies[id].vault
                              /\ policies'[id].beneficiary = policies[id].beneficiary
    BY <1>7, <1>9
  <2>3. \A id \in PolicyIds : ~ Exists(id) => policies'[id] = policies[id]
    BY <1>2, <1>9
  <2> QED BY <1>3, <2>1, <2>2, <2>3 DEF IndInv, PoliciesWellFormed
<1> QED BY <1>8, <1>12, <1>13, <1>14 DEF IndInv, LedgerInv

\* A step that leaves the manager's own records alone and takes no share from
\* it keeps the book.
LEMMA BookUnchanged ==
  ASSUME IndInv, LedgerInv', UNCHANGED managerVars,
         \A w \in Vaults : shareOf[w][Manager] <= shareOf'[w][Manager],
         isVaultAllowed' \in [Vaults -> BOOLEAN], treasury' \in Accounts,
         treasury' # Manager, paused' \in BOOLEAN, now' \in Nat
  PROVE  IndInv'
<1> USE AccountsFacts
<1>1. policies' = policies /\ nextPolicyId' = nextPolicyId
      /\ activeSharesByVault' = activeSharesByVault
  BY DEF managerVars
<1>2. TypeOK'
  BY <1>1 DEF IndInv, TypeOK, LedgerInv
<1>3. ShareCustody'
  <2> SUFFICES ASSUME NEW v \in Vaults
               PROVE  /\ ActiveShares(v)' = activeSharesByVault'[v]
                      /\ activeSharesByVault'[v] <= shareOf'[v][Manager]
    BY DEF ShareCustody
  <2>1. ActiveShares(v)' = ActiveShares(v)
    BY <1>1 DEF ActiveShares, CustodyOf, IsActive, Exists
  <2>2. ActiveShares(v) = activeSharesByVault[v] /\ activeSharesByVault[v] <= shareOf[v][Manager]
    BY DEF IndInv, ShareCustody
  <2>3. /\ activeSharesByVault[v] \in Nat /\ shareOf[v][Manager] \in Nat
        /\ shareOf'[v][Manager] \in Nat
    BY DEF IndInv, TypeOK, VaultTypeOK, LedgerInv
  <2> QED BY <1>1, <2>1, <2>2, <2>3
<1>4. PoliciesWellFormed'
  BY <1>1 DEF IndInv, PoliciesWellFormed, Exists
<1> QED BY <1>2, <1>3, <1>4 DEF IndInv, LedgerInv

\* Every step keeps the invariant.
LEMMA NextIndInv == IndInv /\ [Next]_vars => IndInv'
<1> SUFFICES ASSUME IndInv, [Next]_vars PROVE IndInv'
  OBVIOUS
<1> USE AccountsFacts, ManagerAssumption
<1>0. /\ LedgerInv /\ isVaultAllowed \in [Vaults -> BOOLEAN] /\ treasury \in Accounts
      /\ treasury # Manager /\ paused \in BOOLEAN /\ now \in Nat
      /\ \A w \in Vaults : shareOf[w][Manager] \in Nat
  BY DEF IndInv, LedgerInv, TypeOK, VaultTypeOK, PoliciesWellFormed
<1>1. ASSUME UNCHANGED vaultVars
      PROVE  LedgerInv' /\ \A w \in Vaults : shareOf[w][Manager] <= shareOf'[w][Manager]
  BY <1>0, <1>1 DEF vaultVars, LedgerInv, VaultTypeOK, SupplyIsSum
<1>2. CASE Open
  BY <1>2, OpenPolicyIndInv DEF Open
<1>3. CASE Exit
  <2>1. PICK id \in PolicyIds, minimumAssets \in Minimums :
           \/ ExecuteProtection(id, minimumAssets)
           \/ \E sender \in Users : CancelPolicy(sender, id, minimumAssets)
           \/ CloseExpiredPolicy(id, minimumAssets)
    BY <1>3 DEF Exit
  <2>2. IsActive(id) /\ \E finalStatus \in {"Executed", "Cancelled", "Expired"} :
                           ExitPolicy(id, finalStatus, minimumAssets)
    BY <2>1 DEF ExecuteProtection, CancelPolicy, CloseExpiredPolicy
  <2>3. minimumAssets \in Nat
    OBVIOUS
  <2> QED BY <2>2, <2>3, ExitPolicyIndInv
<1>4. CASE Admin
  <2>1. UNCHANGED vaultVars /\ UNCHANGED managerVars /\ now' = now
    BY <1>4 DEF Admin, SetVaultAllowed, SetTreasury, PauseOpenings, UnpauseOpenings
  <2>2. /\ isVaultAllowed' \in [Vaults -> BOOLEAN] /\ treasury' \in Accounts
        /\ treasury' # Manager /\ paused' \in BOOLEAN
    BY <1>0, <1>4 DEF Admin, SetVaultAllowed, SetTreasury, PauseOpenings, UnpauseOpenings
  <2> QED BY <1>0, <1>1, <2>1, <2>2, BookUnchanged
<1>5. CASE Outside
  <2>1. VaultNext /\ UNCHANGED managerVars /\ UNCHANGED adminVars /\ now' = now
    BY <1>5 DEF Outside
  <2>2. LedgerInv' /\ \A w \in Vaults : shareOf[w][Manager] <= shareOf'[w][Manager]
    BY <1>0, <2>1, OutsideKeepsLedger
  <2> QED BY <1>0, <2>1, <2>2, BookUnchanged DEF adminVars
<1>6. CASE Tick
  BY <1>0, <1>1, <1>6, BookUnchanged DEF Tick, adminVars
<1>7. CASE UNCHANGED vars
  BY <1>0, <1>1, <1>7, BookUnchanged DEF vars, adminVars
<1> QED BY <1>2, <1>3, <1>4, <1>5, <1>6, <1>7 DEF Next

\* The inductive invariant holds in every reachable state.
THEOREM Invariance == Spec => []IndInv
<1>1. IndInv /\ [Next]_vars => IndInv'
  BY NextIndInv
<1> QED BY InitIndInv, <1>1, PTL DEF Spec

\* Balances, share counts and records keep their types: the checked arithmetic
\* of the contract never reverts an exit of an active policy.
THEOREM TypeCorrect == Spec => []TypeOK
<1>1. IndInv => TypeOK
  BY DEF IndInv
<1> QED BY Invariance, <1>1, PTL

\* The manager always holds the shares of every active policy, and
\* activeSharesByVault is exactly their sum.
THEOREM CustodyHolds == Spec => []ShareCustody
<1>1. IndInv => ShareCustody
  BY DEF IndInv
<1> QED BY Invariance, <1>1, PTL

-----------------------------------------------------------------------------
(* Every active policy can be paid.                                         *)

\* What an active policy looks like.
LEMMA ActivePolicyFacts ==
  ASSUME IndInv, NEW id \in PolicyIds, IsActive(id)
  PROVE  /\ policies[id].vault \in Vaults /\ policies[id].shares \in Nat
         /\ policies[id].beneficiary \in Accounts
         /\ policies[id].beneficiary \notin {Manager, policies[id].vault}
         /\ usdc[policies[id].vault] \in Nat /\ supply[policies[id].vault] \in Nat
<1>1. policies[id] \in Policy
  BY DEF IndInv, TypeOK
<1>2. /\ policies[id].vault \in Vaults /\ policies[id].beneficiary \in Accounts
      /\ policies[id].beneficiary \notin {Manager, policies[id].vault}
  BY DEF IndInv, PoliciesWellFormed, IsActive
<1>3. policies[id].shares \in Nat
  BY <1>1 DEF Policy
<1>4. usdc \in [Accounts -> Nat] /\ supply \in [Vaults -> Nat]
  BY DEF IndInv, TypeOK, VaultTypeOK
<1> QED BY <1>2, <1>3, <1>4, AccountsFacts

\* The manager's shares are part of the supply.
LEMMA CustodyWithinSupply ==
  ASSUME IndInv, NEW v \in Vaults
  PROVE  /\ activeSharesByVault[v] \in Nat /\ supply[v] \in Nat /\ usdc[v] \in Nat
         /\ ActiveShares(v) = activeSharesByVault[v]
         /\ activeSharesByVault[v] <= supply[v]
<1>1. /\ shareOf[v] \in [Accounts -> Nat] /\ supply[v] \in Nat
      /\ activeSharesByVault[v] \in Nat /\ usdc[v] \in Nat
  BY AccountsFacts DEF IndInv, TypeOK, VaultTypeOK
<1>2. supply[v] = SumFunctionOnSet(shareOf[v], Accounts)
  BY <1>1 DEF IndInv, SupplyIsSum, SumFunction
<1>3. PICK h \in [Accounts -> Nat] : h = shareOf[v]
  BY <1>1
<1>4. h[Manager] <= SumFunctionOnSet(h, Accounts) /\ h[Manager] \in Nat
  BY <1>3, AccountsFacts, SumOfNaturals
<1>5. ActiveShares(v) = activeSharesByVault[v] /\ activeSharesByVault[v] <= shareOf[v][Manager]
  BY DEF IndInv, ShareCustody
<1> QED BY <1>1, <1>2, <1>3, <1>4, <1>5

\* Quotes for shares that are not more than the supply do not add up to more
\* than the vault has: each is rounded down, and the price includes a virtual
\* share that nobody redeems.
LEMMA QuotesWithinAssets ==
  ASSUME NEW D, IsFiniteSet(D), NEW value \in [D -> Nat], NEW shares \in [D -> Nat],
         NEW total \in Nat, NEW issued \in Nat,
         \A x \in D : value[x] = ToAssets(shares[x], total, issued),
         SumFunctionOnSet(shares, D) <= issued
  PROVE  SumFunctionOnSet(value, D) <= total
<1>1. PICK t, i \in Nat : t = total + 1 /\ i = issued + 1
  OBVIOUS
<1>2. \A x \in D : value[x] * i <= shares[x] * t
  <2> SUFFICES ASSUME NEW x \in D PROVE value[x] * i <= shares[x] * t
    OBVIOUS
  <2>1. shares[x] * t \in Nat /\ i # 0 /\ shares[x] \in Nat
    BY <1>1, Products
  <2>2. value[x] = (shares[x] * t) \div i
    BY <1>1 DEF ToAssets
  <2> QED BY <2>1, <2>2, RoundedDown
<1>3. PICK V, S : V = SumFunctionOnSet(value, D) /\ S = SumFunctionOnSet(shares, D)
  OBVIOUS
<1>4. V \in Nat /\ S \in Nat
  BY <1>3, SumOfNaturals
<1>5. V * i <= S * t
  BY <1>2, <1>3, SumInProportion
<1>6. S * t <= issued * t
  BY <1>1, <1>3, <1>4, Products
<1>7. issued * t < i * t
  <2>1. i * t = issued * t + t /\ issued * t \in Nat
    BY <1>1
  <2> QED BY <1>1, <2>1
<1>8. V < t
  <2> SUFFICES ASSUME t <= V PROVE FALSE
    BY <1>1, <1>4
  <2>1. t * i <= V * i /\ t * i = i * t
    BY <1>1, <1>4, Products
  <2>2. V * i \in Nat /\ S * t \in Nat /\ issued * t \in Nat /\ i * t \in Nat
    BY <1>1, <1>4, Products
  <2> QED BY <1>5, <1>6, <1>7, <2>1, <2>2
<1> QED BY <1>1, <1>3, <1>4, <1>8

\* Every reachable state is one in which the vault could pay all its active
\* policies what they are quoted.
LEMMA IndInvPayable == IndInv => ActivePoliciesPayable
<1> SUFFICES ASSUME IndInv, NEW v \in Vaults
             PROVE  LET active == {id \in PolicyIds : IsActive(id) /\ policies[id].vault = v}
                    IN /\ SumFunction([id \in active |-> PolicyValue(id)]) <= usdc[v]
                       /\ \A id \in active : policies[id].beneficiary # v
  BY DEF ActivePoliciesPayable
<1>1. PICK active : active = {id \in PolicyIds : IsActive(id) /\ policies[id].vault = v}
  OBVIOUS
<1>2. active \in SUBSET PolicyIds /\ IsFiniteSet(active) /\ IsFiniteSet(PolicyIds)
  BY <1>1, PolicyIdsFinite, FS_Subset
<1>3. PICK value : value = [id \in active |-> PolicyValue(id)]
  OBVIOUS
<1>4. PICK shares : shares = [id \in active |-> policies[id].shares]
  OBVIOUS
<1>5. PICK custody : custody = [id \in PolicyIds |-> CustodyOf(id, v)]
  OBVIOUS
<1>6. /\ activeSharesByVault[v] \in Nat /\ supply[v] \in Nat /\ usdc[v] \in Nat
      /\ ActiveShares(v) = activeSharesByVault[v] /\ activeSharesByVault[v] <= supply[v]
  BY CustodyWithinSupply
<1>7. ASSUME NEW id \in active
      PROVE  /\ shares[id] = policies[id].shares /\ shares[id] \in Nat
             /\ value[id] = ToAssets(shares[id], usdc[v], supply[v]) /\ value[id] \in Nat
             /\ policies[id].beneficiary # v
  <2>1. id \in PolicyIds /\ IsActive(id) /\ policies[id].vault = v
    BY <1>1
  <2>2. policies[id].shares \in Nat /\ policies[id].beneficiary # v
    BY <2>1, ActivePolicyFacts
  <2>3. value[id] = ToAssets(policies[id].shares, usdc[v], supply[v])
    BY <1>3, <2>1 DEF PolicyValue, PreviewRedeem
  <2>4. ToAssets(policies[id].shares, usdc[v], supply[v]) \in Nat
    BY <1>6, <2>2, ConversionsType
  <2> QED BY <1>4, <2>2, <2>3, <2>4
<1>8. shares \in [active -> Nat] /\ value \in [active -> Nat]
  BY <1>3, <1>4, <1>7
<1>9. custody \in [PolicyIds -> Nat]
  BY <1>5, CustodyType DEF IndInv, TypeOK
<1>10. SumFunctionOnSet(custody, PolicyIds) = ActiveShares(v)
  BY <1>5, <1>9 DEF ActiveShares, SumFunction
<1>11. SumFunctionOnSet(shares, active) = SumFunctionOnSet(custody, PolicyIds)
  <2>1. \A x \in PolicyIds \ active : custody[x] = 0
    BY <1>1, <1>5 DEF CustodyOf
  <2>2. \A x \in active : shares[x] = custody[x]
    BY <1>1, <1>5, <1>7 DEF CustodyOf
  <2> QED BY <1>2, <1>8, <1>9, <2>1, <2>2, SumOverSupport
<1>12. SumFunctionOnSet(value, active) <= usdc[v]
  <2>1. SumFunctionOnSet(shares, active) <= supply[v]
    BY <1>6, <1>10, <1>11
  <2> QED BY <1>2, <1>6, <1>7, <1>8, <2>1, QuotesWithinAssets
<1>13. SumFunction(value) = SumFunctionOnSet(value, active)
  BY <1>8 DEF SumFunction
<1> QED BY <1>1, <1>3, <1>7, <1>12, <1>13

\* However many policies share a vault, whatever losses, gifts and rounding it
\* went through, it could pay all of them at once what it quotes them, and none
\* of them is to be paid to the vault itself.
THEOREM PoliciesPayable == Spec => []ActivePoliciesPayable
  BY Invariance, IndInvPayable, PTL

-----------------------------------------------------------------------------
(* Only a disclosed loss lowers the value of an open position.               *)

\* The price of a share of v, with the vault's virtual asset and virtual share,
\* does not fall.
PriceKept(v) == (usdc[v] + 1) * (supply'[v] + 1) <= (usdc'[v] + 1) * (supply[v] + 1)

\* The balances a price is made of.
LEMMA PriceTypes ==
  ASSUME LedgerInv, NEW v \in Vaults
  PROVE  usdc \in [Accounts -> Nat] /\ supply \in [Vaults -> Nat]
         /\ usdc[v] \in Nat /\ supply[v] \in Nat /\ v \in Accounts
BY AccountsFacts DEF LedgerInv, VaultTypeOK

\* Assets that come in for nothing do not lower the price.
LEMMA GiftKeepsPrice ==
  ASSUME LedgerInv, NEW v \in Vaults, supply'[v] = supply[v],
         usdc'[v] \in Nat, usdc[v] <= usdc'[v]
  PROVE  PriceKept(v)
<1>1. usdc[v] \in Nat /\ supply[v] \in Nat
  BY PriceTypes
<1>2. PICK a, b, c \in Nat : a = usdc[v] + 1 /\ b = usdc'[v] + 1 /\ c = supply[v] + 1
  BY <1>1
<1>3. a <= b
  BY <1>1, <1>2
<1>4. a * c <= b * c
  BY <1>2, <1>3, Products
<1> QED BY <1>2, <1>4 DEF PriceKept

\* Every conversion is rounded in the vault's favour.
LEMMA QuotesFavourVault ==
  ASSUME NEW x \in Nat, NEW total \in Nat, NEW issued \in Nat
  PROVE  /\ ToShares(x, total, issued) * (total + 1) <= x * (issued + 1)
         /\ ToAssets(x, total, issued) * (issued + 1) <= x * (total + 1)
         /\ x * (total + 1) <= ToAssetsUp(x, total, issued) * (issued + 1)
         /\ x * (issued + 1) <= ToSharesUp(x, total, issued) * (total + 1)
<1>1. PICK t, i \in Nat : t = total + 1 /\ i = issued + 1
  OBVIOUS
<1>2. t # 0 /\ i # 0 /\ x * t \in Nat /\ x * i \in Nat
  BY <1>1, Products
<1>3. total = t - 1 /\ issued = i - 1
  BY <1>1
<1>4. ToShares(x, total, issued) * t <= x * i
  BY <1>1, <1>2, RoundedDown DEF ToShares
<1>5. ToAssets(x, total, issued) * i <= x * t
  BY <1>1, <1>2, RoundedDown DEF ToAssets
<1>6. x * t <= ToAssetsUp(x, total, issued) * i
  <2>1. ToAssetsUp(x, total, issued) = (x * t + (i - 1)) \div i
    BY <1>1, <1>3 DEF ToAssetsUp
  <2> QED BY <1>2, <2>1, RoundedUp
<1>7. x * i <= ToSharesUp(x, total, issued) * t
  <2>1. ToSharesUp(x, total, issued) = (x * i + (t - 1)) \div t
    BY <1>1, <1>3 DEF ToSharesUp
  <2> QED BY <1>2, <2>1, RoundedUp
<1> QED BY <1>1, <1>4, <1>5, <1>6, <1>7

\* A deposit, of somebody else or the manager's, on the ledger the vault quotes.
LEMMA MintingKeepsPrice ==
  ASSUME LedgerInv, NEW v \in Vaults, NEW w \in Vaults, NEW receiver \in Accounts,
         NEW assets \in Nat, NEW shares \in Nat, NEW ledger \in [Accounts -> Nat],
         NEW from \in Accounts \ Vaults, usdc[v] <= ledger[v],
         usdc' = Move(ledger, from, w, assets), MintTo(w, receiver, shares),
         shares * (ledger[w] + 1) <= assets * (supply[w] + 1)
  PROVE  PriceKept(v)
<1> USE AccountsFacts
<1>1. /\ usdc[v] \in Nat /\ supply[v] \in Nat /\ ledger[v] \in Nat /\ v \in Accounts /\ v # from
      /\ supply \in [Vaults -> Nat]
  BY PriceTypes
<1>2. CASE v = w
  <2>1. usdc'[v] = ledger[v] + assets
    BY <1>1, <1>2 DEF Move
  <2>2. supply'[v] = supply[v] + shares
    BY <1>1, <1>2 DEF MintTo
  <2>3. (usdc[v] + 1) * (supply[v] + shares + 1) <= (ledger[v] + assets + 1) * (supply[v] + 1)
    BY <1>1, <1>2, EnteringKeepsPrice
  <2> QED BY <2>1, <2>2, <2>3 DEF PriceKept
<1>3. CASE v # w
  <2>1. usdc'[v] = ledger[v]
    BY <1>1, <1>3 DEF Move
  <2>2. supply'[v] = supply[v]
    BY <1>1, <1>3 DEF MintTo
  <2> QED BY <1>1, <2>1, <2>2, GiftKeepsPrice
<1> QED BY <1>2, <1>3

\* A redemption, of somebody else or the manager's.  Its receiver may be a
\* vault, but not the one that pays.
LEMMA BurningKeepsPrice ==
  ASSUME LedgerInv, NEW v \in Vaults, NEW w \in Vaults, NEW holder \in Accounts,
         NEW assets \in Nat, NEW shares \in Nat, NEW to \in Accounts, to # w,
         assets <= usdc[w], usdc' = Move(usdc, w, to, assets), BurnFrom(w, holder, shares),
         LedgerInv', assets * (supply[w] + 1) <= shares * (usdc[w] + 1)
  PROVE  PriceKept(v)
<1> USE AccountsFacts
<1>1. /\ usdc[v] \in Nat /\ supply[v] \in Nat /\ v \in Accounts
      /\ supply \in [Vaults -> Nat] /\ usdc \in [Accounts -> Nat]
  BY PriceTypes
<1>2. supply'[v] \in Nat /\ usdc'[v] \in Nat
  BY <1>1 DEF LedgerInv, VaultTypeOK
<1>3. CASE v = w
  <2>1. usdc'[v] = usdc[v] - assets
    BY <1>1, <1>3 DEF Move
  <2>2. supply'[v] = supply[v] - shares
    BY <1>1, <1>3 DEF BurnFrom
  <2>3. shares <= supply[v] /\ assets <= usdc[v]
    BY <1>1, <1>2, <1>3, <2>2
  <2>4. (usdc[v] + 1) * (supply[v] - shares + 1) <= (usdc[v] - assets + 1) * (supply[v] + 1)
    BY <1>1, <1>3, <2>3, LeavingKeepsPrice
  <2> QED BY <2>1, <2>2, <2>4 DEF PriceKept
<1>4. CASE v # w
  <2>1. usdc[v] <= usdc'[v]
    BY <1>1, <1>4 DEF Move
  <2>2. supply'[v] = supply[v]
    BY <1>1, <1>4 DEF BurnFrom
  <2> QED BY <1>2, <2>1, <2>2, GiftKeepsPrice
<1> QED BY <1>3, <1>4

\* Somebody else's transaction lowers the price of a vault only by disclosing a
\* loss of this vault.
LEMMA OutsideKeepsPrice ==
  ASSUME LedgerInv, VaultNext, NEW v \in Vaults, ~ \E loss \in Amounts : SimulateLoss(v, loss)
  PROVE  PriceKept(v)
<1> USE AccountsFacts
<1>1. /\ usdc \in [Accounts -> Nat] /\ supply \in [Vaults -> Nat] /\ v \in Accounts
      /\ usdc[v] \in Nat /\ v \notin Users
  BY PriceTypes, VaultAssumption
<1>2. LedgerInv'
  BY OutsideKeepsLedger
<1>3. usdc'[v] \in Nat
  BY <1>1, <1>2 DEF LedgerInv, VaultTypeOK
<1>4. PICK amount \in Amounts :
         \/ \E user \in Users, w \in Vaults :
               \/ Deposit(user, w, amount)
               \/ Mint(user, w, amount)
               \/ Redeem(user, w, amount)
               \/ Withdraw(user, w, amount)
         \/ \E w \in Vaults : SimulateLoss(w, amount)
         \/ \E from \in Users, to \in Accounts : TransferUsdc(from, to, amount)
         \/ \E w \in Vaults, from \in Users, to \in Users \cup {Manager} :
               TransferShares(w, from, to, amount)
  BY DEF VaultNext
<1>5. amount \in Nat
  BY VaultAssumption
<1>6. ASSUME NEW user \in Users, NEW w \in Vaults,
             NEW assets \in Nat, NEW shares \in Nat, Enter(user, w, assets, shares),
             shares * (usdc[w] + 1) <= assets * (supply[w] + 1)
      PROVE  PriceKept(v)
  <2>1. user \in Accounts /\ user \in Accounts \ Vaults
    BY VaultAssumption
  <2>2. usdc' = Move(usdc, user, w, assets) /\ MintTo(w, user, shares)
    BY <1>6 DEF Enter
  <2>3. usdc[v] <= usdc[v]
    BY <1>1
  <2> QED BY <1>1, <1>6, <2>1, <2>2, <2>3, MintingKeepsPrice
<1>7. ASSUME NEW user \in Users, NEW w \in Vaults,
             NEW assets \in Nat, NEW shares \in Nat, Leave(user, w, assets, shares),
             assets * (supply[w] + 1) <= shares * (usdc[w] + 1)
      PROVE  PriceKept(v)
  <2>1. user \in Accounts /\ user # w
    BY VaultAssumption
  <2> QED BY <1>2, <1>7, <2>1, BurningKeepsPrice DEF Leave
<1>8. ASSUME NEW user \in Users, NEW w \in Vaults
      PROVE  /\ Deposit(user, w, amount) => PriceKept(v)
             /\ Mint(user, w, amount) => PriceKept(v)
             /\ Redeem(user, w, amount) => PriceKept(v)
             /\ Withdraw(user, w, amount) => PriceKept(v)
  <2>1. usdc[w] \in Nat /\ supply[w] \in Nat
    BY PriceTypes
  <2>2. /\ ToShares(amount, usdc[w], supply[w]) \in Nat
        /\ ToAssetsUp(amount, usdc[w], supply[w]) \in Nat
        /\ ToAssets(amount, usdc[w], supply[w]) \in Nat
        /\ ToSharesUp(amount, usdc[w], supply[w]) \in Nat
    BY <1>5, <2>1, ConversionsType
  <2>3. /\ ToShares(amount, usdc[w], supply[w]) * (usdc[w] + 1) <= amount * (supply[w] + 1)
        /\ ToAssets(amount, usdc[w], supply[w]) * (supply[w] + 1) <= amount * (usdc[w] + 1)
        /\ amount * (usdc[w] + 1) <= ToAssetsUp(amount, usdc[w], supply[w]) * (supply[w] + 1)
        /\ amount * (supply[w] + 1) <= ToSharesUp(amount, usdc[w], supply[w]) * (usdc[w] + 1)
    BY <1>5, <2>1, QuotesFavourVault
  <2>4. Deposit(user, w, amount) => PriceKept(v)
    BY <1>5, <1>6, <2>2, <2>3 DEF Deposit
  <2>5. Mint(user, w, amount) => PriceKept(v)
    BY <1>5, <1>6, <2>2, <2>3 DEF Mint
  <2>6. Redeem(user, w, amount) => PriceKept(v)
    BY <1>5, <1>7, <2>2, <2>3 DEF Redeem, PreviewRedeem
  <2>7. Withdraw(user, w, amount) => PriceKept(v)
    BY <1>5, <1>7, <2>2, <2>3 DEF Withdraw
  <2> QED BY <2>4, <2>5, <2>6, <2>7
<1>9. ASSUME NEW w \in Vaults, SimulateLoss(w, amount) PROVE PriceKept(v)
  <2>1. w # v
    BY <1>9
  <2>2. usdc'[v] = usdc[v]
    BY <1>1, <1>9, <2>1, VaultAssumption DEF SimulateLoss, Move
  <2> QED BY <1>1, <1>9, <2>2, GiftKeepsPrice DEF SimulateLoss
<1>10. ASSUME NEW from \in Users, NEW to \in Accounts, TransferUsdc(from, to, amount)
       PROVE  PriceKept(v)
  <2>1. usdc[v] <= usdc'[v]
    BY <1>1, <1>5, <1>10 DEF TransferUsdc, Move
  <2> QED BY <1>3, <1>10, <2>1, GiftKeepsPrice DEF TransferUsdc
<1>11. ASSUME NEW w \in Vaults, NEW from \in Users, NEW to \in Users \cup {Manager},
              TransferShares(w, from, to, amount)
       PROVE  PriceKept(v)
  BY <1>1, <1>11, GiftKeepsPrice DEF TransferShares
<1> QED BY <1>4, <1>8, <1>9, <1>10, <1>11

\* openPolicy does not lower the price of any vault.
LEMMA OpenKeepsPrice ==
  ASSUME IndInv, NEW v \in Vaults, NEW sender \in Users, NEW vault \in Vaults,
         NEW beneficiary \in Accounts, NEW principal \in Nat, NEW lossLimit \in Nat,
         NEW duration \in Nat, NEW minimumShares \in Nat,
         OpenPolicy(sender, vault, beneficiary, principal, lossLimit, duration, minimumShares)
  PROVE  PriceKept(v)
<1> USE AccountsFacts
<1>1. PICK ledger : ledger = CollectFee(sender, principal)
  OBVIOUS
<1>2. PICK shares : shares = EntryShares(principal, ledger, vault)
  OBVIOUS
<1>3. /\ LedgerInv /\ usdc \in [Accounts -> Nat] /\ supply \in [Vaults -> Nat]
      /\ treasury \in Accounts /\ treasury # Manager
  BY DEF IndInv, LedgerInv, TypeOK, VaultTypeOK, PoliciesWellFormed
<1>4. /\ principal + ProtectionFee <= usdc[sender]
      /\ usdc' = Move(ledger, Manager, vault, principal)
      /\ MintTo(vault, Manager, shares)
  BY <1>1, <1>2 DEF OpenPolicy
<1>5. ledger \in [Accounts -> Nat] /\ \A w \in Vaults : usdc[w] <= ledger[w]
  BY <1>1, <1>3, <1>4, CollectFeeFacts
<1>6. /\ shares \in Nat
      /\ shares * (ledger[vault] + 1) <= principal * (supply[vault] + 1)
  <2>1. ledger[vault] \in Nat /\ supply[vault] \in Nat
    BY <1>3, <1>5
  <2> QED BY <1>2, <2>1, ConversionsType, QuotesFavourVault DEF EntryShares
<1>7. Manager \in Accounts \ Vaults /\ usdc[v] <= ledger[v]
  BY <1>5
<1> QED BY <1>3, <1>4, <1>5, <1>6, <1>7, MintingKeepsPrice

\* An exit does not lower the price of any vault: not of the one that pays,
\* and not of one that is the beneficiary.
LEMMA ExitKeepsPrice ==
  ASSUME IndInv, IndInv', NEW v \in Vaults, NEW d \in PolicyIds, IsActive(d),
         NEW finalStatus, NEW minimumAssets, ExitPolicy(d, finalStatus, minimumAssets)
  PROVE  PriceKept(v)
<1>1. PICK vault, to, shares : /\ vault = policies[d].vault
                               /\ to = policies[d].beneficiary
                               /\ shares = policies[d].shares
  OBVIOUS
<1>2. PICK assets : assets = PreviewRedeem(vault, shares)
  OBVIOUS
<1>3. /\ vault \in Vaults /\ to \in Accounts /\ to # vault /\ shares \in Nat
      /\ usdc[vault] \in Nat /\ supply[vault] \in Nat
  BY <1>1, ActivePolicyFacts
<1>4. LedgerInv /\ LedgerInv'
  BY DEF IndInv, LedgerInv, TypeOK
<1>5. /\ assets <= usdc[vault] /\ usdc' = Move(usdc, vault, to, assets)
      /\ BurnFrom(vault, Manager, shares)
  BY <1>1, <1>2 DEF ExitPolicy
<1>6. assets \in Nat /\ assets * (supply[vault] + 1) <= shares * (usdc[vault] + 1)
  BY <1>2, <1>3, ConversionsType, QuotesFavourVault DEF PreviewRedeem
<1> QED BY <1>3, <1>4, <1>5, <1>6, AccountsFacts, BurningKeepsPrice

\* No step but the disclosure of a loss lowers the price of a vault.
LEMMA StepKeepsPrice ==
  ASSUME IndInv, IndInv', [Next]_vars, NEW v \in Vaults,
         ~ \E loss \in Amounts : SimulateLoss(v, loss)
  PROVE  PriceKept(v)
<1> USE AccountsFacts, ManagerAssumption
<1>1. LedgerInv /\ usdc[v] \in Nat
  <2>1. LedgerInv
    BY DEF IndInv, LedgerInv, TypeOK
  <2> QED BY <2>1, PriceTypes
<1>2. ASSUME UNCHANGED vaultVars PROVE PriceKept(v)
  BY <1>1, <1>2, GiftKeepsPrice DEF vaultVars
<1>3. CASE Open
  BY <1>3, OpenKeepsPrice DEF Open
<1>4. CASE Exit
  <2>1. PICK id \in PolicyIds, minimumAssets \in Minimums :
           \/ ExecuteProtection(id, minimumAssets)
           \/ \E sender \in Users : CancelPolicy(sender, id, minimumAssets)
           \/ CloseExpiredPolicy(id, minimumAssets)
    BY <1>4 DEF Exit
  <2>2. IsActive(id) /\ \E finalStatus \in {"Executed", "Cancelled", "Expired"} :
                           ExitPolicy(id, finalStatus, minimumAssets)
    BY <2>1 DEF ExecuteProtection, CancelPolicy, CloseExpiredPolicy
  <2> QED BY <2>2, ExitKeepsPrice
<1>5. CASE Admin
  BY <1>2, <1>5 DEF Admin, SetVaultAllowed, SetTreasury, PauseOpenings, UnpauseOpenings
<1>6. CASE Outside
  BY <1>1, <1>6, OutsideKeepsPrice DEF Outside
<1>7. CASE Tick
  BY <1>2, <1>7 DEF Tick
<1>8. CASE UNCHANGED vars
  BY <1>2, <1>8 DEF vars
<1> QED BY <1>3, <1>4, <1>5, <1>6, <1>7, <1>8 DEF Next

\* A step leaves an existing policy's vault and shares as they were.
LEMMA TermsKept ==
  ASSUME IndInv, [Next]_vars, NEW id \in PolicyIds, Exists(id)
  PROVE  policies'[id].vault = policies[id].vault /\ policies'[id].shares = policies[id].shares
<1>1. policies \in [PolicyIds -> Policy]
  BY DEF IndInv, TypeOK
<1>2. CASE UNCHANGED policies
  BY <1>2
<1>3. CASE Open
  <2>1. policies'[id] = policies[id] \/ id = nextPolicyId
    BY <1>1, <1>3 DEF Open, OpenPolicy
  <2>2. id # nextPolicyId
    <3>1. id < nextPolicyId /\ id \in Nat
      BY PolicyIdsFinite DEF IndInv, PoliciesWellFormed
    <3> QED BY <3>1
  <2> QED BY <1>1, <2>1, <2>2
<1>4. CASE Exit
  <2>1. PICK d, status, assets :
           /\ d \in PolicyIds
           /\ policies' = [policies EXCEPT ![d].status = status, ![d].assetsReturned = assets]
    <3>1. PICK d \in PolicyIds, minimumAssets \in Minimums :
             \/ ExecuteProtection(d, minimumAssets)
             \/ \E sender \in Users : CancelPolicy(sender, d, minimumAssets)
             \/ CloseExpiredPolicy(d, minimumAssets)
      BY <1>4 DEF Exit
    <3>2. \E status : ExitPolicy(d, status, minimumAssets)
      BY <3>1 DEF ExecuteProtection, CancelPolicy, CloseExpiredPolicy
    <3>3. \E status, assets : Settle(d, status, assets)
      BY <3>2 DEF ExitPolicy
    <3> QED BY <3>3 DEF Settle
  <2>2. policies[id] \in Policy
    BY <1>1
  <2>3. CASE id = d
    BY <1>1, <2>1, <2>2, <2>3 DEF Policy
  <2>4. CASE id # d
    BY <1>1, <2>1, <2>4
  <2> QED BY <2>3, <2>4
<1>5. CASE Admin \/ Outside \/ Tick \/ UNCHANGED vars
  <2>1. UNCHANGED policies
    BY <1>5 DEF Admin, SetVaultAllowed, SetTreasury, PauseOpenings, UnpauseOpenings, Outside,
                Tick, vars, managerVars
  <2> QED BY <2>1
<1> QED BY <1>3, <1>4, <1>5 DEF Next

\* A policy whose vault and shares stay is worth no less when the price is kept.
LEMMA PriceKeepsValue ==
  ASSUME IndInv, IndInv', NEW id \in PolicyIds, IsActive(id), PriceKept(policies[id].vault),
         policies'[id].vault = policies[id].vault, policies'[id].shares = policies[id].shares
  PROVE  PolicyValue(id) <= PolicyValue(id)' /\ PolicyValue(id) \in Nat /\ PolicyValue(id)' \in Nat
<1>1. PICK v \in Vaults, shares \in Nat : v = policies[id].vault /\ shares = policies[id].shares
  BY ActivePolicyFacts
<1>2. policies'[id].vault = v /\ policies'[id].shares = shares
  BY <1>1
<1>3. /\ usdc[v] \in Nat /\ supply[v] \in Nat /\ usdc'[v] \in Nat /\ supply'[v] \in Nat
  BY <1>1, AccountsFacts DEF IndInv, TypeOK, VaultTypeOK
<1>4. PolicyValue(id) = (shares * (usdc[v] + 1)) \div (supply[v] + 1)
  BY <1>1 DEF PolicyValue, PreviewRedeem, ToAssets
<1>5. PolicyValue(id)' = (shares * (usdc'[v] + 1)) \div (supply'[v] + 1)
  BY <1>2 DEF PolicyValue, PreviewRedeem, ToAssets
<1>6. PICK n, d, m, e \in Nat : /\ n = usdc[v] + 1 /\ d = supply[v] + 1
                                /\ m = usdc'[v] + 1 /\ e = supply'[v] + 1
  BY <1>3
<1>7. d # 0 /\ e # 0 /\ n * e <= m * d
  BY <1>1, <1>3, <1>6 DEF PriceKept
<1>8. (shares * n) \div d <= (shares * m) \div e
  BY <1>7, QuotientMonotone
<1>9. (shares * n) \div d \in Nat /\ (shares * m) \div e \in Nat
  <2>1. shares * n \in Nat /\ shares * m \in Nat
    BY Products
  <2> QED BY <1>7, <2>1, RoundedDown
<1> QED BY <1>4, <1>5, <1>6, <1>8, <1>9

\* An open position is worth less after a step only when the step discloses a
\* loss of its vault: deposits, redemptions, openings, exits, fees and gifts of
\* others, in any amounts, cannot bring a policy closer to its trigger.
THEOREM ValueFallsOnlyByLoss == Spec => OnlyLossLowersValue
<1>1. ASSUME IndInv, IndInv', [Next]_vars, NEW id \in PolicyIds, IsActive(id), IsActive(id)',
             PolicyValue(id)' < PolicyValue(id)
      PROVE  \E loss \in Amounts : SimulateLoss(policies[id].vault, loss)
  <2>1. policies[id].vault \in Vaults
    BY <1>1, ActivePolicyFacts
  <2>2. policies'[id].vault = policies[id].vault /\ policies'[id].shares = policies[id].shares
    BY <1>1, TermsKept DEF IsActive
  <2>3. SUFFICES ASSUME ~ \E loss \in Amounts : SimulateLoss(policies[id].vault, loss) PROVE FALSE
    OBVIOUS
  <2>4. PriceKept(policies[id].vault)
    BY <1>1, <2>1, <2>3, StepKeepsPrice
  <2> QED BY <1>1, <2>2, <2>4, PriceKeepsValue
<1>2. IndInv /\ IndInv' /\ [Next]_vars =>
        [\A id \in PolicyIds :
           IsActive(id) /\ IsActive(id)' /\ PolicyValue(id)' < PolicyValue(id) =>
             \E loss \in Amounts : SimulateLoss(policies[id].vault, loss)]_vars
  BY <1>1
<1> QED BY Invariance, <1>2, PTL DEF Spec, OnlyLossLowersValue

-----------------------------------------------------------------------------
(* The manager passes on what it collects.                                  *)

\* A transfer between two other accounts does not touch the manager.
LEMMA ManagerNotParty ==
  ASSUME NEW ledger \in [Accounts -> Nat], NEW from \in Accounts, NEW to \in Accounts,
         NEW amount \in Nat, from # Manager, to # Manager
  PROVE  Move(ledger, from, to, amount)[Manager] = ledger[Manager]
BY AccountsFacts DEF Move

\* No transaction leaves the manager with a different balance, except a user's
\* transfer to it: the fee goes to the treasury, the principal to the vault, and
\* the proceeds of an exit to the beneficiary.  The losses of a vault must not
\* be sent to the manager: DemoRiskVault does not check that they are not, but
\* its sink is a burn address in every deployment.
THEOREM ManagerPassesEverythingOn == LossSink # Manager /\ Spec => ManagerKeepsNoUsdc
<1> USE AccountsFacts, ManagerAssumption
<1> SUFFICES ASSUME LossSink # Manager PROVE Spec => ManagerKeepsNoUsdc
  OBVIOUS
<1> DEFINE Gift == \E from \in Users, amount \in Amounts : TransferUsdc(from, Manager, amount)
<1>1. ASSUME IndInv, [Next]_vars, usdc'[Manager] # usdc[Manager] PROVE Gift
  <2>1. /\ usdc \in [Accounts -> Nat] /\ supply \in [Vaults -> Nat]
        /\ treasury \in Accounts /\ treasury # Manager /\ usdc[Manager] \in Nat
    BY <1>1 DEF IndInv, TypeOK, VaultTypeOK, PoliciesWellFormed
  <2>2. CASE Open
    <3>1. PICK sender \in Users, vault \in Vaults, principal \in Principals :
             /\ principal + ProtectionFee <= usdc[sender]
             /\ usdc' = Move(CollectFee(sender, principal), Manager, vault, principal)
      BY <2>2 DEF Open, OpenPolicy
    <3>2. principal \in Nat
      OBVIOUS
    <3>3. PICK ledger : ledger = CollectFee(sender, principal)
      OBVIOUS
    <3>4. ledger \in [Accounts -> Nat] /\ ledger[Manager] = usdc[Manager] + principal
      BY <2>1, <3>1, <3>2, <3>3, CollectFeeFacts
    <3>5. usdc'[Manager] = ledger[Manager] - principal
      BY <3>1, <3>3, <3>4 DEF Move
    <3> QED BY <1>1, <2>1, <3>2, <3>4, <3>5
  <2>3. CASE Exit
    <3>1. PICK id \in PolicyIds, minimumAssets \in Minimums :
             \/ ExecuteProtection(id, minimumAssets)
             \/ \E sender \in Users : CancelPolicy(sender, id, minimumAssets)
             \/ CloseExpiredPolicy(id, minimumAssets)
      BY <2>3 DEF Exit
    <3>2. IsActive(id) /\ \E status : ExitPolicy(id, status, minimumAssets)
      BY <3>1 DEF ExecuteProtection, CancelPolicy, CloseExpiredPolicy
    <3>3. PICK vault, to, shares : /\ vault = policies[id].vault
                                   /\ to = policies[id].beneficiary
                                   /\ shares = policies[id].shares
      OBVIOUS
    <3>4. PICK assets : assets = PreviewRedeem(vault, shares)
      OBVIOUS
    <3>5. usdc' = Move(usdc, vault, to, assets)
      BY <3>2, <3>3, <3>4 DEF ExitPolicy
    <3>6. /\ vault \in Vaults /\ to \in Accounts /\ to # Manager /\ shares \in Nat
          /\ usdc[vault] \in Nat /\ supply[vault] \in Nat
      BY <1>1, <3>2, <3>3, ActivePolicyFacts
    <3>7. assets \in Nat
      BY <3>4, <3>6, ConversionsType DEF PreviewRedeem
    <3>8. vault \in Accounts /\ vault # Manager
      BY <3>6
    <3> QED BY <1>1, <2>1, <3>5, <3>6, <3>7, <3>8, ManagerNotParty
  <2>4. CASE Outside
    <3>1. VaultNext
      BY <2>4 DEF Outside
    <3>2. ASSUME NEW from \in Accounts, NEW to \in Accounts, NEW amount \in Nat,
                 from # Manager, to # Manager, usdc' = Move(usdc, from, to, amount)
          PROVE  FALSE
      BY <1>1, <2>1, <3>2, ManagerNotParty
    <3>3. PICK amount \in Amounts :
             \/ \E user \in Users, v \in Vaults :
                   \/ Deposit(user, v, amount)
                   \/ Mint(user, v, amount)
                   \/ Redeem(user, v, amount)
                   \/ Withdraw(user, v, amount)
             \/ \E v \in Vaults : SimulateLoss(v, amount)
             \/ \E from \in Users, to \in Accounts : TransferUsdc(from, to, amount)
             \/ \E v \in Vaults, from \in Users, to \in Users \cup {Manager} :
                   TransferShares(v, from, to, amount)
      BY <3>1 DEF VaultNext
    <3>4. amount \in Nat
      BY VaultAssumption
    <3>5. ASSUME NEW user \in Users, NEW v \in Vaults
          PROVE  ~ \/ Deposit(user, v, amount)
                   \/ Mint(user, v, amount)
                   \/ Redeem(user, v, amount)
                   \/ Withdraw(user, v, amount)
      <4>1. /\ user \in Accounts /\ v \in Accounts /\ user # Manager /\ v # Manager
            /\ usdc[v] \in Nat /\ supply[v] \in Nat
        BY <2>1
      <4>2. /\ ToAssetsUp(amount, usdc[v], supply[v]) \in Nat
            /\ ToAssets(amount, usdc[v], supply[v]) \in Nat
        BY <3>4, <4>1, ConversionsType
      <4>3. ~ Deposit(user, v, amount) /\ ~ Mint(user, v, amount)
        BY <3>2, <3>4, <4>1, <4>2 DEF Deposit, Mint, Enter
      <4>4. ~ Redeem(user, v, amount) /\ ~ Withdraw(user, v, amount)
        BY <3>2, <3>4, <4>1, <4>2 DEF Redeem, Withdraw, Leave, PreviewRedeem
      <4> QED BY <4>3, <4>4
    <3>6. ASSUME NEW v \in Vaults PROVE ~ SimulateLoss(v, amount)
      BY <1>1, <3>2, <3>4 DEF SimulateLoss
    <3>7. ASSUME NEW v \in Vaults, NEW from \in Users, NEW to \in Users \cup {Manager}
          PROVE  ~ TransferShares(v, from, to, amount)
      BY <1>1 DEF TransferShares
    <3>8. PICK from \in Users, to \in Accounts : TransferUsdc(from, to, amount)
      BY <3>3, <3>5, <3>6, <3>7
    <3>9. to = Manager
      BY <3>2, <3>4, <3>8 DEF TransferUsdc
    <3> QED BY <3>8, <3>9
  <2>5. CASE Admin \/ Tick \/ UNCHANGED vars
    <3>1. usdc' = usdc
      BY <2>5 DEF Admin, SetVaultAllowed, SetTreasury, PauseOpenings, UnpauseOpenings, Tick,
                  vars, vaultVars
    <3> QED BY <1>1, <3>1
  <2> QED BY <1>1, <2>2, <2>3, <2>4, <2>5 DEF Next
<1>2. IndInv /\ [Next]_vars => [usdc'[Manager] # usdc[Manager] => Gift]_vars
  BY <1>1
<1> QED BY Invariance, <1>2, PTL DEF Spec, ManagerKeepsNoUsdc

-----------------------------------------------------------------------------
(* The contract implements PolicyLifecycle.                                 *)

\* The abstract specification and the contract agree on which policies exist.
LEMMA SamePoliciesExist ==
  ASSUME IndInv, NEW id \in PolicyIds
  PROVE  /\ Lifecycle!Exists(id) <=> Exists(id)
         /\ Lifecycle!IsActive(id) <=> IsActive(id)
<1>1. ~ Exists(id) => policies[id] = NoPolicy
  BY DEF IndInv, PoliciesWellFormed
<1>2. Exists(id) => policies[id] # NoPolicy
  BY DEF Exists, NoPolicy
<1> QED BY <1>1, <1>2 DEF Lifecycle!Exists, Lifecycle!IsActive, IsActive

\* A loss limit leaves a trigger below the principal.
LEMMA TriggerIsLoss ==
  ASSUME NEW principal \in Nat, NEW lossLimit \in Nat,
         0 < principal, 0 < lossLimit, lossLimit < BpsDenominator
  PROVE  TriggerAssets(principal, lossLimit) \in Nat
         /\ TriggerAssets(principal, lossLimit) < principal
<1>1. PICK rest \in Nat : rest = BpsDenominator - lossLimit
  BY DEF BpsDenominator
<1>2. PICK product \in Nat : product = principal * rest
  BY <1>1, Products
<1>3. product < principal * BpsDenominator
  <2>1. principal * BpsDenominator = principal * rest + principal * lossLimit
    BY <1>1 DEF BpsDenominator
  <2>2. principal <= principal * lossLimit /\ principal * lossLimit \in Nat
    BY Products
  <2> QED BY <1>2, <2>1, <2>2
<1>4. TriggerAssets(principal, lossLimit) = product \div BpsDenominator
  BY <1>1, <1>2 DEF TriggerAssets
<1> QED BY <1>2, <1>3, <1>4 DEF BpsDenominator

\* openPolicy is the opening the lifecycle describes.
LEMMA OpenImplements ==
  ASSUME IndInv, Open
  PROVE  \E id \in PolicyIds : Lifecycle!Open(id)
<1> USE AccountsFacts, ManagerAssumption
<1>1. PICK sender \in Users, vault \in Vaults, beneficiary \in Beneficiaries,
           principal \in Principals, lossLimit \in LossLimits,
           duration \in Durations, minimumShares \in Minimums :
           OpenPolicy(sender, vault, beneficiary, principal, lossLimit, duration,
                      minimumShares)
  BY DEF Open
<1>2. /\ principal \in Nat /\ lossLimit \in Nat /\ duration \in Nat /\ minimumShares \in Nat
      /\ beneficiary \in Accounts
  OBVIOUS
<1>3. PICK ledger : ledger = CollectFee(sender, principal)
  OBVIOUS
<1>4. PICK shares, trigger : /\ shares = EntryShares(principal, ledger, vault)
                             /\ trigger = TriggerAssets(principal, lossLimit)
  OBVIOUS
<1>5. PICK opened : opened =
             [owner |-> sender, beneficiary |-> beneficiary, vault |-> vault,
              principalAssets |-> principal, shares |-> shares,
              triggerAssets |-> trigger, assetsReturned |-> 0, openedAt |-> now,
              expiresAt |-> now + duration, status |-> "Active"]
  OBVIOUS
<1>6. /\ nextPolicyId <= MaxPolicies
      /\ ValidRequest(vault, beneficiary, principal, lossLimit, duration, minimumShares)
      /\ principal + ProtectionFee <= usdc[sender]
      /\ minimumShares <= shares
      /\ trigger # 0
      /\ policies' = [policies EXCEPT ![nextPolicyId] = opened]
      /\ now' = now
  BY <1>1, <1>3, <1>4, <1>5 DEF OpenPolicy
<1>7. /\ policies \in [PolicyIds -> Policy] /\ nextPolicyId \in 1..(MaxPolicies + 1)
      /\ now \in Nat /\ usdc \in [Accounts -> Nat] /\ supply[vault] \in Nat
      /\ treasury \in Accounts /\ treasury # Manager
  BY DEF IndInv, TypeOK, VaultTypeOK, PoliciesWellFormed
<1>8. PICK new \in PolicyIds : new = nextPolicyId
  BY <1>6, <1>7 DEF PolicyIds
<1>9. shares \in Nat
  <2>1. ledger \in [Accounts -> Nat]
    BY <1>2, <1>3, <1>6, <1>7, CollectFeeFacts
  <2>2. ledger[vault] \in Nat
    BY <2>1
  <2> QED BY <1>2, <1>4, <1>7, <2>2, ConversionsType DEF EntryShares
<1>10. /\ 0 < principal /\ MinLossLimit <= lossLimit /\ lossLimit <= MaxLossLimit
       /\ MinDuration <= duration /\ minimumShares # 0 /\ beneficiary # vault
  BY <1>6 DEF ValidRequest
<1>11. trigger \in Nat /\ trigger < principal
  <2>1. 0 < lossLimit /\ lossLimit < BpsDenominator
    BY <1>2, <1>10 DEF BpsDenominator
  <2> QED BY <1>2, <1>4, <1>10, <2>1, TriggerIsLoss
<1>12. now < now + duration /\ 0 < shares /\ 0 < trigger
  BY <1>2, <1>6, <1>7, <1>9, <1>10, <1>11
<1>13. ~ Lifecycle!Exists(new) /\ \A i \in PolicyIds : i < new => Lifecycle!Exists(i)
  <2>1. \A i \in PolicyIds : Exists(i) <=> i < new
    BY <1>8 DEF IndInv, PoliciesWellFormed
  <2>2. ~ (new < new)
    BY <1>7, <1>8
  <2> QED BY <2>1, <2>2, SamePoliciesExist
<1>14. policies'[new] = opened /\ policies' = [policies EXCEPT ![new] = opened]
  BY <1>6, <1>7, <1>8
<1>15. /\ opened.status = "Active" /\ opened.assetsReturned = 0 /\ opened.openedAt = now
       /\ now < opened.expiresAt /\ 0 < opened.triggerAssets
       /\ opened.triggerAssets < opened.principalAssets /\ 0 < opened.shares
       /\ opened.beneficiary # opened.vault
  BY <1>5, <1>10, <1>11, <1>12
<1> QED BY <1>6, <1>8, <1>13, <1>14, <1>15 DEF Lifecycle!Open

\* Each of the three exits is the settlement the lifecycle describes.
LEMMA ExitImplements ==
  ASSUME IndInv, Exit
  PROVE  \E id \in PolicyIds, outcome \in {"Executed", "Cancelled", "Expired"} :
            Lifecycle!Settle(id, outcome)
<1>1. PICK id \in PolicyIds, minimumAssets \in Minimums :
         \/ ExecuteProtection(id, minimumAssets)
         \/ \E sender \in Users : CancelPolicy(sender, id, minimumAssets)
         \/ CloseExpiredPolicy(id, minimumAssets)
  BY DEF Exit
<1>2. PICK outcome \in {"Executed", "Cancelled", "Expired"} :
         /\ IsActive(id)
         /\ ExitPolicy(id, outcome, minimumAssets)
         /\ outcome = "Executed" => PolicyValue(id) <= policies[id].triggerAssets
         /\ IF outcome = "Expired" THEN policies[id].expiresAt <= now
                                   ELSE now < policies[id].expiresAt
  <2>1. CASE ExecuteProtection(id, minimumAssets)
    BY <2>1 DEF ExecuteProtection
  <2>2. CASE \E sender \in Users : CancelPolicy(sender, id, minimumAssets)
    BY <2>2 DEF CancelPolicy
  <2>3. CASE CloseExpiredPolicy(id, minimumAssets)
    BY <2>3 DEF CloseExpiredPolicy
  <2> QED BY <1>1, <2>1, <2>2, <2>3
<1>3. /\ policies[id].vault \in Vaults /\ policies[id].shares \in Nat
      /\ usdc[policies[id].vault] \in Nat /\ supply[policies[id].vault] \in Nat
  BY <1>2, ActivePolicyFacts
<1>4. PICK assets : assets = PolicyValue(id)
  OBVIOUS
<1>5. assets \in Nat
  BY <1>3, <1>4, ConversionsType DEF PolicyValue, PreviewRedeem
<1>6. /\ policies' = [policies EXCEPT ![id].status = outcome, ![id].assetsReturned = assets]
      /\ now' = now
  BY <1>2, <1>4 DEF ExitPolicy, Settle, PolicyValue
<1>7. policies'[id].assetsReturned = assets
  <2>1. policies \in [PolicyIds -> Policy] /\ policies[id] \in Policy
    BY DEF IndInv, TypeOK
  <2> QED BY <1>6, <2>1 DEF Policy
<1>8. Lifecycle!IsActive(id)
  BY <1>2, SamePoliciesExist
<1>9. 0 <= assets /\ (outcome = "Executed" => assets <= policies[id].triggerAssets)
  BY <1>2, <1>4, <1>5
<1>10. Lifecycle!Settle(id, outcome)
  BY <1>2, <1>6, <1>7, <1>8, <1>9 DEF Lifecycle!Settle
<1> QED BY <1>10

\* Every behaviour of the contract is one of PolicyLifecycle: each step opens
\* the next identifier, settles one active policy inside its window and for no
\* more than its trigger if it was executed, lets time pass, or changes nothing
\* of the policies.
THEOREM ContractImplementsLifecycle == Spec => ImplementsLifecycle
<1>1. Init => Lifecycle!Init
  BY DEF Init, Lifecycle!Init
<1>2. ASSUME IndInv, [Next]_vars PROVE [Lifecycle!Next]_(Lifecycle!vars)
  <2>1. CASE Open
    BY <1>2, <2>1, OpenImplements DEF Lifecycle!Next
  <2>2. CASE Exit
    BY <1>2, <2>2, ExitImplements DEF Lifecycle!Next
  <2>3. CASE Tick
    <3>1. now < now' /\ policies' = policies
      BY <1>2, <2>3 DEF Tick, managerVars, IndInv, TypeOK
    <3> QED BY <3>1 DEF Lifecycle!Next, Lifecycle!Advance
  <2>4. CASE Admin \/ Outside \/ UNCHANGED vars
    <3>1. policies' = policies /\ now' = now
      BY <2>4 DEF Admin, SetVaultAllowed, SetTreasury, PauseOpenings, UnpauseOpenings, Outside,
                  vars, managerVars
    <3> QED BY <3>1 DEF Lifecycle!vars
  <2> QED BY <1>2, <2>1, <2>2, <2>3, <2>4 DEF Next
<1>3. IndInv /\ [Next]_vars => [Lifecycle!Next]_(Lifecycle!vars)
  BY <1>2
<1> QED BY Invariance, <1>1, <1>3, PTL DEF Spec, ImplementsLifecycle, Lifecycle!Spec
=============================================================================
