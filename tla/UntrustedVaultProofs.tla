------------------------ MODULE UntrustedVaultProofs ------------------------
(***************************************************************************)
(* Theorems of UntrustedVault for every fee, all amounts, any number of    *)
(* policies and any answers of the untrusted vault.                        *)
(*                                                                         *)
(* The state between two transactions is sound (Rest), and while a call of *)
(* the manager is under way its frame says how the present state differs   *)
(* from the one to go back to (InCall).  Because the guard is entered for  *)
(* as long as a frame is on the stack, there is never a second frame.      *)
(***************************************************************************)
EXTENDS UntrustedVault, SumLemmas, SequenceTheorems

PolicyRecord == [vault : Vaults, shares : Nat \ {0}, minimum : Nat,
                 status : {"Active", "Closed"}, returned : Nat]

World == [usdc : [Accounts -> Nat], allowance : [Vaults -> Nat],
          policies : Seq(PolicyRecord), active : [Vaults -> Nat],
          custody : Nat, entered : BOOLEAN]

NoAllowance == [v \in Vaults |-> 0]

\* What policy p counts for in activeSharesByVault of v.
Counts(p, v) == IF p.vault = v /\ p.status = "Active" THEN p.shares ELSE 0

\* The active shares of v, and what all policies are recorded to have returned.
ActiveShares(w, v) == SumFunction([id \in Ids(w) |-> Counts(w.policies[id], v)])
AllReturned(w) == SumFunction([id \in Ids(w) |-> w.policies[id].returned])

\* A policy that is active has returned nothing, and one of the honest vault that
\* is closed has returned what its shares were worth.
PolicyTruthful(p) == /\ p.status = "Active" => p.returned = 0
                     /\ p.status = "Closed" /\ p.vault = Honest => p.returned = p.shares

\* A state between two transactions.
Rest(w) ==
    /\ w \in World
    /\ ~ w.entered
    /\ w.allowance = NoAllowance
    /\ \A v \in Vaults : w.active[v] = ActiveShares(w, v)
    /\ w.active[Honest] <= w.custody /\ w.custody <= w.usdc[Honest]
    /\ \A id \in Ids(w) : PolicyTruthful(w.policies[id])
    /\ AllReturned(w) <= w.usdc[Beneficiary]

\* What has changed since openPolicy was called: the vault may still take what it
\* is approved for, and this is what the manager holds more than before.
InOpening(f, w) ==
    /\ f.call = "open"
    /\ w.policies = f.saved.policies /\ w.active = f.saved.active
    /\ \A v \in Vaults \ {f.vault} : w.allowance[v] = 0
    /\ w.usdc[Manager] = f.saved.usdc[Manager] + w.allowance[f.vault]
    /\ f.vault = Honest => f.amount # 0 /\ w.allowance[Honest] = f.amount

\* What has changed since an exit was asked for: the policy is closed, and its
\* shares are not counted any more.
InExit(f, w) ==
    /\ f.call = "exit"
    /\ f.id \in Ids(f.saved)
    /\ LET p == f.saved.policies[f.id]
       IN /\ p.vault = f.vault /\ p.status = "Active"
          /\ w.policies = [f.saved.policies EXCEPT ![f.id] = [p EXCEPT !.status = "Closed"]]
          /\ w.active = [f.saved.active EXCEPT ![p.vault] = @ - p.shares]
    /\ w.allowance = NoAllowance
    /\ w.usdc[Manager] = f.saved.usdc[Manager]
    /\ f.vault = Honest => w.usdc = f.saved.usdc

\* A state in the middle of a call of the manager.
InCall(f, w) ==
    /\ w \in World /\ w.entered
    /\ Rest(f.saved)
    /\ f.vault \in Vaults /\ f.amount \in Nat
    /\ f.balance = f.saved.usdc[Beneficiary] /\ f.custody = f.saved.custody
    /\ w.custody = f.saved.custody
    /\ f.saved.usdc[Beneficiary] <= w.usdc[Beneficiary]
    /\ f.saved.usdc[Honest] <= w.usdc[Honest]
    /\ InOpening(f, w) \/ InExit(f, w)

\* The inductive invariant.
UntrustedInv == \/ stack = <<>> /\ Rest(world)
                \/ stack = <<Top>> /\ InCall(Top, world)

-----------------------------------------------------------------------------
(* Balances and records.                                                    *)

\* Which accounts differ.
LEMMA AccountsDiffer ==
  /\ Manager \in Accounts /\ Honest \in Accounts /\ Untrusted \in Accounts
  /\ Owner \in Accounts /\ Beneficiary \in Accounts /\ Treasury \in Accounts
  /\ Honest \in Vaults /\ Untrusted \in Vaults /\ Vaults \subseteq Accounts
  /\ Manager \notin {Owner, Beneficiary, Treasury, Honest, Untrusted}
  /\ Honest # Untrusted /\ Owner \notin {Honest, Untrusted}
  /\ Beneficiary \notin {Owner, Honest, Untrusted}
  /\ \A v \in Vaults : v = Honest \/ v = Untrusted
BY UntrustedAssumption DEF Accounts, Vaults

\* A transfer that its source can pay.
LEMMA MoveBalances ==
  ASSUME NEW ledger \in [Accounts -> Nat], NEW from \in Accounts, NEW to \in Accounts,
         NEW amount \in Nat, amount <= ledger[from]
  PROVE  /\ Move(ledger, from, to, amount) \in [Accounts -> Nat]
         /\ \A x \in Accounts : x # from => ledger[x] <= Move(ledger, from, to, amount)[x]
         /\ \A x \in Accounts : x # from /\ x # to =>
               Move(ledger, from, to, amount)[x] = ledger[x]
         /\ from # to => /\ Move(ledger, from, to, amount)[from] = ledger[from] - amount
                         /\ Move(ledger, from, to, amount)[to] = ledger[to] + amount
<1>1. CASE from = to
  BY <1>1 DEF Move
<1>2. CASE from # to
  <2>1. PICK m : m = Move(ledger, from, to, amount)
    OBVIOUS
  <2>2. m = [ledger EXCEPT ![from] = ledger[from] - amount, ![to] = ledger[to] + amount]
    BY <1>2, <2>1 DEF Move
  <2>3. ledger[from] - amount \in Nat /\ ledger[to] + amount \in Nat
    OBVIOUS
  <2>4. /\ m \in [Accounts -> Nat] /\ m[from] = ledger[from] - amount
        /\ m[to] = ledger[to] + amount
        /\ \A x \in Accounts : x # from /\ x # to => m[x] = ledger[x]
    BY <1>2, <2>2, <2>3
  <2>5. ASSUME NEW x \in Accounts, x # from PROVE ledger[x] <= m[x]
    BY <1>2, <2>4, <2>5
  <2> QED BY <1>2, <2>1, <2>4, <2>5
<1> QED BY <1>1, <1>2

\* The fields of a world.
LEMMA WorldFields ==
  ASSUME NEW w \in World
  PROVE  /\ w.usdc \in [Accounts -> Nat] /\ w.allowance \in [Vaults -> Nat]
         /\ w.policies \in Seq(PolicyRecord) /\ w.active \in [Vaults -> Nat]
         /\ w.custody \in Nat /\ w.entered \in BOOLEAN
         /\ Len(w.policies) \in Nat /\ Ids(w) = 1..Len(w.policies)
         /\ \A id \in Ids(w) : w.policies[id] \in PolicyRecord
<1>1. w.policies \in Seq(PolicyRecord)
  BY DEF World
<1>2. \A id \in 1..Len(w.policies) : w.policies[id] \in PolicyRecord
  BY <1>1
<1> QED BY <1>1, <1>2 DEF World, Ids

\* The fields of a policy.
LEMMA PolicyFields ==
  ASSUME NEW p \in PolicyRecord
  PROVE  /\ p.vault \in Vaults /\ p.shares \in Nat \ {0} /\ p.minimum \in Nat
         /\ p.status \in {"Active", "Closed"} /\ p.returned \in Nat
         /\ \A v \in Vaults : Counts(p, v) \in Nat
BY DEF PolicyRecord, Counts

\* The sums over the policies of a world are naturals, and no summand exceeds them.
LEMMA WorldSums ==
  ASSUME NEW w \in World
  PROVE  /\ AllReturned(w) \in Nat
         /\ AllReturned(w) = SumFunctionOnSet([id \in Ids(w) |-> w.policies[id].returned], Ids(w))
         /\ \A v \in Vaults :
               /\ ActiveShares(w, v) \in Nat
               /\ ActiveShares(w, v) =
                     SumFunctionOnSet([id \in Ids(w) |-> Counts(w.policies[id], v)], Ids(w))
               /\ \A id \in Ids(w) : Counts(w.policies[id], v) <= ActiveShares(w, v)
<1>1. IsFiniteSet(Ids(w))
  <2>1. Len(w.policies) \in Nat
    BY WorldFields
  <2> QED BY <2>1, FS_Interval DEF Ids
<1>2. PICK f : f = [id \in Ids(w) |-> w.policies[id].returned]
  OBVIOUS
<1>3. f \in [Ids(w) -> Nat]
  <2>1. \A id \in Ids(w) : w.policies[id].returned \in Nat
    BY WorldFields, PolicyFields
  <2> QED BY <1>2, <2>1
<1>4. SumFunctionOnSet(f, Ids(w)) \in Nat /\ SumFunction(f) = SumFunctionOnSet(f, Ids(w))
  BY <1>1, <1>3, SumOfNaturals DEF SumFunction
<1>5. ASSUME NEW v \in Vaults
      PROVE  /\ ActiveShares(w, v) \in Nat
             /\ ActiveShares(w, v) =
                   SumFunctionOnSet([id \in Ids(w) |-> Counts(w.policies[id], v)], Ids(w))
             /\ \A id \in Ids(w) : Counts(w.policies[id], v) <= ActiveShares(w, v)
  <2>1. PICK g : g = [id \in Ids(w) |-> Counts(w.policies[id], v)]
    OBVIOUS
  <2>2. g \in [Ids(w) -> Nat]
    <3>1. \A id \in Ids(w) : Counts(w.policies[id], v) \in Nat
      BY WorldFields, PolicyFields
    <3> QED BY <2>1, <3>1
  <2>3. /\ SumFunctionOnSet(g, Ids(w)) \in Nat
        /\ SumFunction(g) = SumFunctionOnSet(g, Ids(w))
        /\ \A id \in Ids(w) : g[id] <= SumFunctionOnSet(g, Ids(w))
    BY <1>1, <2>2, SumOfNaturals DEF SumFunction
  <2> QED BY <2>1, <2>3 DEF ActiveShares
<1> QED BY <1>2, <1>4, <1>5 DEF AllReturned

\* A world whose policies are the same has the same sums.
LEMMA SameSums ==
  ASSUME NEW s, NEW t, t.policies = s.policies
  PROVE  /\ Ids(t) = Ids(s) /\ AllReturned(t) = AllReturned(s)
         /\ \A v \in Vaults : ActiveShares(t, v) = ActiveShares(s, v)
BY DEF Ids, AllReturned, ActiveShares

-----------------------------------------------------------------------------
(* What an opening and an exit make of a state between transactions.        *)

\* A policy added to a sound state, with its shares counted, leaves one.
LEMMA OpenedSound ==
  ASSUME NEW s, Rest(s), NEW t \in World, NEW p \in PolicyRecord,
         p.status = "Active", p.returned = 0, ~ t.entered, t.allowance = NoAllowance,
         t.policies = Append(s.policies, p),
         t.active = [s.active EXCEPT ![p.vault] = s.active[p.vault] + p.shares],
         s.usdc[Beneficiary] <= t.usdc[Beneficiary],
         t.active[Honest] <= t.custody, t.custody <= t.usdc[Honest]
  PROVE  Rest(t)
<1> USE AccountsDiffer
<1>1. s \in World /\ AllReturned(s) <= s.usdc[Beneficiary]
      /\ \A id \in Ids(s) : PolicyTruthful(s.policies[id])
  BY DEF Rest
<1>2. PICK n \in Nat : n = Len(s.policies)
  BY <1>1, WorldFields
<1> DEFINE E == 1..n
           D == 1..(n + 1)
           m == n + 1
<1>3. /\ Ids(s) = E /\ Ids(t) = D
      /\ \A id \in E : t.policies[id] = s.policies[id] /\ s.policies[id] \in PolicyRecord
      /\ t.policies[m] = p
  <2>1. s.policies \in Seq(PolicyRecord) /\ Ids(s) = E
        /\ \A id \in Ids(s) : s.policies[id] \in PolicyRecord
    BY <1>1, <1>2, WorldFields
  <2>2. Len(t.policies) = n + 1
    BY <1>2, <2>1
  <2> QED BY <1>2, <2>1, <2>2 DEF Ids
<1>4. /\ s.usdc \in [Accounts -> Nat] /\ t.usdc \in [Accounts -> Nat]
      /\ s.active \in [Vaults -> Nat] /\ p.shares \in Nat /\ p.vault \in Vaults
  BY <1>1, WorldFields, PolicyFields
<1>5. E \subseteq D /\ m \in D /\ \A x \in D : x \in E \/ x = m
  OBVIOUS
<1>6. ASSUME NEW g \in [E -> Nat], NEW h, DOMAIN h = D, h = [x \in D |-> h[x]],
             \A x \in E : h[x] = g[x], h[m] \in Nat
      PROVE  SumFunctionOnSet(h, D) = SumFunctionOnSet(g, E) + h[m]
  <2>1. h \in [D -> Nat]
    <3> HIDE DEF D, E, m
    <3>1. \A x \in D : h[x] \in Nat
      BY <1>5, <1>6
    <3> QED BY <1>6, <3>1
  <2> QED BY <1>6, <2>1, SumAppend
<1> HIDE DEF D, E, m
<1>7. AllReturned(t) <= t.usdc[Beneficiary]
  <2>1. PICK g : g = [id \in E |-> s.policies[id].returned]
    OBVIOUS
  <2>2. PICK h : h = [id \in D |-> t.policies[id].returned]
    OBVIOUS
  <2>3. g \in [E -> Nat]
    BY <1>3, <2>1, PolicyFields
  <2>4. \A id \in E : h[id] = g[id]
    BY <1>3, <1>5, <2>1, <2>2
  <2>5. h[m] = 0
    BY <1>3, <1>5, <2>2
  <2>6. DOMAIN h = D /\ h = [x \in D |-> h[x]]
    BY <2>2
  <2>7. SumFunctionOnSet(h, D) = SumFunctionOnSet(g, E) + h[m]
    <3>1. h[m] \in Nat
      BY <2>5
    <3> QED BY <1>6, <2>3, <2>4, <2>6, <3>1
  <2>8. SumFunctionOnSet(g, E) = AllReturned(s) /\ AllReturned(s) \in Nat
    BY <1>1, <1>3, <2>1, WorldSums
  <2>9. SumFunctionOnSet(h, D) = AllReturned(t)
    BY <1>3, <2>2, WorldSums
  <2>10. s.usdc[Beneficiary] \in Nat /\ t.usdc[Beneficiary] \in Nat
    BY <1>4
  <2> QED BY <1>1, <2>5, <2>7, <2>8, <2>9, <2>10
<1>8. ASSUME NEW v \in Vaults PROVE t.active[v] = ActiveShares(t, v)
  <2>1. PICK g : g = [id \in E |-> Counts(s.policies[id], v)]
    OBVIOUS
  <2>2. PICK h : h = [id \in D |-> Counts(t.policies[id], v)]
    OBVIOUS
  <2>3. g \in [E -> Nat]
    BY <1>3, <2>1, PolicyFields
  <2>4. \A id \in E : h[id] = g[id]
    BY <1>3, <1>5, <2>1, <2>2
  <2>5. h[m] = IF v = p.vault THEN p.shares ELSE 0
    BY <1>3, <1>5, <2>2 DEF Counts
  <2>6. DOMAIN h = D /\ h = [x \in D |-> h[x]]
    BY <2>2
  <2>7. SumFunctionOnSet(h, D) = SumFunctionOnSet(g, E) + h[m]
    <3>1. h[m] \in Nat
      BY <1>4, <2>5
    <3> QED BY <1>6, <2>3, <2>4, <2>6, <3>1
  <2>8. SumFunctionOnSet(g, E) = ActiveShares(s, v) /\ ActiveShares(s, v) \in Nat
    BY <1>1, <1>3, <2>1, WorldSums
  <2>9. SumFunctionOnSet(h, D) = ActiveShares(t, v)
    BY <1>3, <2>2, WorldSums
  <2>10. s.active[v] = ActiveShares(s, v)
    BY DEF Rest
  <2>11. t.active[v] = IF v = p.vault THEN s.active[v] + p.shares ELSE s.active[v]
    BY <1>4
  <2> QED BY <1>4, <2>5, <2>7, <2>8, <2>9, <2>10, <2>11
<1>9. \A id \in Ids(t) : PolicyTruthful(t.policies[id])
  <2>1. PolicyTruthful(p)
    BY DEF PolicyTruthful
  <2>2. \A id \in E : PolicyTruthful(t.policies[id])
    BY <1>1, <1>3
  <2> QED BY <1>3, <1>5, <2>1, <2>2
<1> QED BY <1>7, <1>8, <1>9 DEF Rest

\* t is s with its policy p, at d, replaced by a closed one, for what the
\* beneficiary gained, and its shares not counted any more.
ClosesInto(s, t, d, p, closed) ==
  /\ t \in World /\ ~ t.entered /\ t.allowance = NoAllowance
  /\ d \in Ids(s) /\ p = s.policies[d] /\ p.status = "Active" /\ closed \in PolicyRecord
  /\ closed.status = "Closed" /\ closed.vault = p.vault /\ closed.shares = p.shares
  /\ p.vault = Honest => closed.returned = p.shares
  /\ t.policies = [s.policies EXCEPT ![d] = closed]
  /\ t.active = [s.active EXCEPT ![p.vault] = s.active[p.vault] - p.shares]
  /\ s.usdc[Beneficiary] + closed.returned <= t.usdc[Beneficiary]
  /\ t.active[Honest] <= t.custody /\ t.custody <= t.usdc[Honest]

\* Closing one policy leaves a sound state.
LEMMA ExitedSound ==
  ASSUME NEW s, NEW t, NEW d, NEW p, NEW closed, Rest(s), ClosesInto(s, t, d, p, closed)
  PROVE  Rest(t)
<1> USE AccountsDiffer
<1>1. s \in World /\ AllReturned(s) <= s.usdc[Beneficiary]
      /\ \A id \in Ids(s) : PolicyTruthful(s.policies[id])
  BY DEF Rest
<1> USE DEF ClosesInto
<1>2. PICK D : D = Ids(s)
  OBVIOUS
<1>3. /\ Ids(t) = D /\ d \in D /\ IsFiniteSet(D)
      /\ \A id \in D : s.policies[id] \in PolicyRecord
      /\ \A id \in D : id # d => t.policies[id] = s.policies[id]
      /\ t.policies[d] = closed
  <2>1. /\ s.policies \in Seq(PolicyRecord) /\ D = 1..Len(s.policies)
        /\ Len(s.policies) \in Nat /\ \A id \in D : s.policies[id] \in PolicyRecord
    BY <1>1, <1>2, WorldFields
  <2>2. Len(t.policies) = Len(s.policies)
    BY <1>2, <2>1, ExceptSeq
  <2>3. \A id \in D : t.policies[id] = IF id = d THEN closed ELSE s.policies[id]
    BY <1>2, <2>1, ExceptSeq
  <2>4. IsFiniteSet(D)
    BY <2>1, FS_Interval
  <2> QED BY <1>2, <2>1, <2>2, <2>3, <2>4 DEF Ids
<1>4. /\ s.usdc \in [Accounts -> Nat] /\ t.usdc \in [Accounts -> Nat]
      /\ s.active \in [Vaults -> Nat] /\ p.shares \in Nat /\ p.vault \in Vaults
      /\ closed.returned \in Nat /\ p.returned = 0
  BY <1>1, <1>2, <1>3, WorldFields, PolicyFields DEF PolicyTruthful
<1>5. AllReturned(t) <= t.usdc[Beneficiary]
  <2>1. PICK g : g = [id \in D |-> s.policies[id].returned]
    OBVIOUS
  <2>2. PICK h : h = [id \in D |-> t.policies[id].returned]
    OBVIOUS
  <2>3. g \in [D -> Nat]
    BY <1>3, <2>1, PolicyFields
  <2>4. \A id \in D : id # d => h[id] = g[id]
    BY <1>3, <2>1, <2>2
  <2>5. h[d] = closed.returned /\ g[d] = 0
    BY <1>3, <1>2, <1>4, <2>1, <2>2
  <2>6. h \in [D -> Nat]
    <3>1. \A id \in D : h[id] \in Nat
      BY <1>4, <2>3, <2>4, <2>5
    <3> QED BY <2>2, <3>1
  <2>7. SumFunctionOnSet(h, D) = SumFunctionOnSet(g, D) + h[d] - g[d]
    BY <1>3, <2>3, <2>4, <2>6, SumUpdate
  <2>8. SumFunctionOnSet(g, D) = AllReturned(s) /\ AllReturned(s) \in Nat
        /\ SumFunctionOnSet(h, D) = AllReturned(t)
    BY <1>1, <1>2, <1>3, <2>1, <2>2, WorldSums
  <2>9. s.usdc[Beneficiary] \in Nat /\ t.usdc[Beneficiary] \in Nat
    BY <1>4
  <2> QED BY <1>1, <1>4, <2>5, <2>7, <2>8, <2>9
<1>6. ASSUME NEW v \in Vaults PROVE t.active[v] = ActiveShares(t, v)
  <2>1. PICK g : g = [id \in D |-> Counts(s.policies[id], v)]
    OBVIOUS
  <2>2. PICK h : h = [id \in D |-> Counts(t.policies[id], v)]
    OBVIOUS
  <2>3. g \in [D -> Nat]
    BY <1>3, <2>1, PolicyFields
  <2>4. \A id \in D : id # d => h[id] = g[id]
    BY <1>3, <2>1, <2>2
  <2>5. h[d] = 0 /\ g[d] = IF v = p.vault THEN p.shares ELSE 0
    BY <1>2, <1>3, <2>1, <2>2 DEF Counts
  <2>6. h \in [D -> Nat]
    <3>1. \A id \in D : h[id] \in Nat
      BY <2>3, <2>4, <2>5
    <3> QED BY <2>2, <3>1
  <2>7. SumFunctionOnSet(h, D) = SumFunctionOnSet(g, D) + h[d] - g[d]
    BY <1>3, <2>3, <2>4, <2>6, SumUpdate
  <2>8. SumFunctionOnSet(g, D) = ActiveShares(s, v) /\ ActiveShares(s, v) \in Nat
        /\ SumFunctionOnSet(h, D) = ActiveShares(t, v)
    <3>1. SumFunctionOnSet(g, D) = ActiveShares(s, v) /\ ActiveShares(s, v) \in Nat
      BY <1>1, <1>2, <2>1, WorldSums
    <3>2. SumFunctionOnSet(h, D) = ActiveShares(t, v)
      BY <1>3, <2>2, WorldSums
    <3> QED BY <3>1, <3>2
  <2>9. s.active[v] = ActiveShares(s, v)
    BY DEF Rest
  <2>10. t.active[v] = IF v = p.vault THEN s.active[v] - p.shares ELSE s.active[v]
    BY <1>4
  <2> QED BY <1>4, <2>5, <2>7, <2>8, <2>9, <2>10
<1>7. \A id \in Ids(t) : PolicyTruthful(t.policies[id])
  <2>1. PolicyTruthful(closed)
    BY DEF PolicyTruthful
  <2>2. \A id \in D : id # d => PolicyTruthful(t.policies[id])
    BY <1>1, <1>2, <1>3
  <2> QED BY <1>3, <2>1, <2>2
<1> QED BY <1>5, <1>6, <1>7 DEF Rest

-----------------------------------------------------------------------------
(* The steps.  Control is with nobody's call, or in the one call under way. *)

\* A stack of one frame.
LEMMA OneFrame ==
  ASSUME NEW f
  PROVE  /\ Append(<<>>, f) = <<f>> /\ Front(<<f>>) = <<>> /\ Last(<<f>>) = f
         /\ <<f>> # <<>> /\ Len(<<f>>) = 1 /\ Len(<<>>) = 0 /\ <<f>>[1] = f
BY DEF Front, Last

\* Who acts at rest, who in a call, and what is then known.
LEMMA WhereControlIs ==
  ASSUME UntrustedInv
  PROVE  /\ world \in World
         /\ Idle => stack = <<>> /\ Rest(world) /\ ~ world.entered
         /\ ~ Idle => /\ stack = <<Top>> /\ InCall(Top, world) /\ world.entered
                      /\ Front(stack) = <<>> /\ Committed = Top.saved
         /\ MayEnter => Idle
<1>1. CASE stack = <<>> /\ Rest(world)
  BY <1>1 DEF Idle, Rest, MayEnter
<1>2. CASE stack = <<Top>> /\ InCall(Top, world)
  <2>1. stack # <<>> /\ Front(stack) = <<>> /\ stack[1] = Top
    BY <1>2, OneFrame
  <2> QED BY <1>2, <2>1 DEF Idle, InCall, MayEnter, Committed
<1> QED BY <1>1, <1>2 DEF UntrustedInv

\* A new call goes on an empty stack.
LEMMA EntersFacts ==
  ASSUME stack = <<>>, NEW w, NEW call, NEW vault, NEW id, NEW amount,
         Enters(w, call, vault, id, amount)
  PROVE  /\ world' = w
         /\ stack' = <<[call |-> call, vault |-> vault, id |-> id, amount |-> amount,
                        balance |-> world.usdc[Beneficiary],
                        custody |-> world.custody, saved |-> world]>>
         /\ stack' = <<Top'>>
         /\ Top' = [call |-> call, vault |-> vault, id |-> id, amount |-> amount,
                    balance |-> world.usdc[Beneficiary],
                    custody |-> world.custody, saved |-> world]
<1>1. PICK f : f = [call |-> call, vault |-> vault, id |-> id, amount |-> amount,
                    balance |-> world.usdc[Beneficiary],
                    custody |-> world.custody, saved |-> world]
  OBVIOUS
<1>2. stack' = <<f>> /\ world' = w
  BY <1>1, OneFrame DEF Enters
<1>3. Top' = f
  BY <1>2, OneFrame DEF Top
<1> QED BY <1>1, <1>2, <1>3

\* The balances when principal and fee came in and the fee went out.
LEMMA OpeningBalances ==
  ASSUME NEW u \in [Accounts -> Nat], NEW principal \in Nat, principal + Fee <= u[Owner],
         NEW b, b = Move(Move(u, Owner, Manager, principal + Fee), Manager, Treasury, Fee)
  PROVE  /\ b \in [Accounts -> Nat] /\ b[Manager] = u[Manager] + principal
         /\ u[Beneficiary] <= b[Beneficiary] /\ u[Honest] <= b[Honest]
<1>1. Fee \in Nat
  BY UntrustedAssumption
<1>2. PICK total \in Nat : total = principal + Fee
  BY <1>1
<1>3. PICK a : a = Move(u, Owner, Manager, total)
  OBVIOUS
<1>4. /\ a \in [Accounts -> Nat] /\ a[Manager] = u[Manager] + total
      /\ \A x \in Accounts : x # Owner => u[x] <= a[x]
  <2>1. total <= u[Owner]
    BY <1>2
  <2>2. Owner \in Accounts /\ Manager \in Accounts /\ Owner # Manager
    BY AccountsDiffer
  <2> QED BY <1>3, <2>1, <2>2, MoveBalances
<1>5. u[Manager] \in Nat /\ a[Manager] \in Nat
  BY <1>4, AccountsDiffer
<1>6. /\ b \in [Accounts -> Nat] /\ b[Manager] = a[Manager] - Fee
      /\ \A x \in Accounts : x # Manager => a[x] <= b[x]
  <2>1. b = Move(a, Manager, Treasury, Fee)
    BY <1>2, <1>3
  <2>2. Fee <= a[Manager]
    BY <1>1, <1>2, <1>4, <1>5
  <2>3. Treasury \in Accounts /\ Manager \in Accounts /\ Treasury # Manager
    BY AccountsDiffer
  <2> QED BY <1>1, <1>4, <2>1, <2>2, <2>3, MoveBalances
<1>7. b[Manager] = u[Manager] + principal
  BY <1>1, <1>2, <1>4, <1>5, <1>6
<1>8. ASSUME NEW x \in {Beneficiary, Honest} PROVE u[x] <= b[x]
  <2>1. x \in Accounts /\ x # Owner /\ x # Manager
    BY AccountsDiffer
  <2>2. u[x] \in Nat /\ a[x] \in Nat /\ b[x] \in Nat
    BY <1>4, <1>6, <2>1
  <2> QED BY <1>4, <1>6, <2>1, <2>2
<1> QED BY <1>6, <1>7, <1>8

\* The state when openPolicy has called the vault.
LEMMA OpenEntersCall ==
  ASSUME NEW s, Rest(s), NEW vault \in Vaults, NEW principal \in Nat \ {0},
         principal + Fee <= s.usdc[Owner],
         NEW t, t = [s EXCEPT !.usdc = Move(Move(@, Owner, Manager, principal + Fee),
                                            Manager, Treasury, Fee),
                              !.allowance[vault] = principal,
                              !.entered = TRUE],
         NEW f, f = [call |-> "open", vault |-> vault, id |-> 0, amount |-> principal,
                     balance |-> s.usdc[Beneficiary], custody |-> s.custody, saved |-> s]
  PROVE  InCall(f, t)
<1> USE AccountsDiffer
<1>1. s \in World /\ s.allowance = NoAllowance
  BY DEF Rest
<1>2. s.usdc \in [Accounts -> Nat] /\ s.allowance \in [Vaults -> Nat]
  BY ONLY <1>1, WorldFields
<1>3. PICK b : b = Move(Move(s.usdc, Owner, Manager, principal + Fee),
                        Manager, Treasury, Fee)
  OBVIOUS
<1>4. b \in [Accounts -> Nat] /\ b[Manager] = s.usdc[Manager] + principal
  BY ONLY <1>2, <1>3, principal \in Nat \ {0}, principal + Fee <= s.usdc[Owner],
          OpeningBalances
<1>5. /\ s.usdc[Beneficiary] <= b[Beneficiary] /\ s.usdc[Honest] <= b[Honest]
  BY ONLY <1>2, <1>3, principal \in Nat \ {0}, principal + Fee <= s.usdc[Owner],
          OpeningBalances
<1>6. PICK al : al = [s.allowance EXCEPT ![vault] = principal]
  OBVIOUS
<1>7. /\ al \in [Vaults -> Nat] /\ al[vault] = principal
       /\ \A v \in Vaults \ {vault} : al[v] = 0
  BY <1>1, <1>2, <1>6 DEF NoAllowance
<1>8. t = [s EXCEPT !.usdc = b, !.allowance = al, !.entered = TRUE]
  BY <1>3, <1>6
<1>9. /\ t \in World /\ t.usdc = b /\ t.allowance = al /\ t.entered
       /\ t.policies = s.policies /\ t.active = s.active /\ t.custody = s.custody
  BY <1>1, <1>4, <1>7, <1>8 DEF World
<1>10. /\ f.call = "open" /\ f.vault = vault /\ f.amount = principal /\ f.saved = s
       /\ f.balance = s.usdc[Beneficiary] /\ f.custody = s.custody
  OBVIOUS
<1>11. InOpening(f, t)
  BY <1>4, <1>7, <1>9, <1>10 DEF InOpening
<1> QED BY <1>5, <1>9, <1>10, <1>11 DEF InCall

\* The state when an exit has called the vault.
LEMMA ExitEntersCall ==
  ASSUME NEW s, Rest(s), NEW id \in Ids(s), NEW minimum \in Nat,
         NEW p, p = s.policies[id], p.status = "Active",
         NEW t, t = [s EXCEPT !.policies[id].status = "Closed",
                              !.active[p.vault] = @ - p.shares,
                              !.entered = TRUE],
         NEW f, f = [call |-> "exit", vault |-> p.vault, id |-> id, amount |-> minimum,
                     balance |-> s.usdc[Beneficiary], custody |-> s.custody, saved |-> s]
  PROVE  InCall(f, t)
<1> USE AccountsDiffer
<1>1. s \in World /\ s.allowance = NoAllowance
  BY DEF Rest
<1>2. /\ s.usdc \in [Accounts -> Nat] /\ s.active \in [Vaults -> Nat]
      /\ s.policies \in Seq(PolicyRecord) /\ Ids(s) = 1..Len(s.policies)
      /\ p \in PolicyRecord /\ p.vault \in Vaults /\ p.shares \in Nat
  BY <1>1, WorldFields, PolicyFields
<1>3. PICK c : c = [p EXCEPT !.status = "Closed"]
  OBVIOUS
<1>4. c \in PolicyRecord
  BY <1>2, <1>3 DEF PolicyRecord
<1>5. PICK ps : ps = [s.policies EXCEPT ![id] = c]
  OBVIOUS
<1>6. ps \in Seq(PolicyRecord)
  BY <1>2, <1>4, <1>5, ExceptSeq
<1>7. p.shares <= s.active[p.vault]
  <2>1. s.active[p.vault] = ActiveShares(s, p.vault)
    BY <1>2 DEF Rest
  <2>2. Counts(p, p.vault) = p.shares
    BY DEF Counts
  <2>3. Counts(p, p.vault) <= ActiveShares(s, p.vault)
    BY <1>1, <1>2, WorldSums
  <2> QED BY <2>1, <2>2, <2>3
<1>8. PICK ac : ac = [s.active EXCEPT ![p.vault] = s.active[p.vault] - p.shares]
  OBVIOUS
<1>9. ac \in [Vaults -> Nat]
  <2>1. s.active[p.vault] - p.shares \in Nat
    BY SMTT(30), <1>2, <1>7
  <2> QED BY <1>2, <1>8, <2>1
<1>10. t = [s EXCEPT !.policies = ps, !.active = ac, !.entered = TRUE]
  BY <1>3, <1>5, <1>8
<1>11. /\ t \in World /\ t.usdc = s.usdc /\ t.allowance = s.allowance /\ t.entered
       /\ t.policies = ps /\ t.active = ac /\ t.custody = s.custody
  BY <1>1, <1>6, <1>9, <1>10 DEF World
<1>12. /\ f.call = "exit" /\ f.vault = p.vault /\ f.amount = minimum /\ f.saved = s
       /\ f.balance = s.usdc[Beneficiary] /\ f.custody = s.custody /\ f.id = id
  OBVIOUS
<1>13. InExit(f, t)
  BY <1>1, <1>3, <1>5, <1>8, <1>11, <1>12 DEF InExit
<1>14. s.usdc[Beneficiary] \in Nat /\ s.usdc[Honest] \in Nat
  BY <1>2
<1> QED BY <1>2, <1>11, <1>12, <1>13, <1>14 DEF InCall

\* A transfer between two transactions that takes from neither the honest vault
\* nor the beneficiary.
LEMMA TransferAtRest ==
  ASSUME NEW s, Rest(s), NEW u \in [Accounts -> Nat],
         s.usdc[Honest] <= u[Honest], s.usdc[Beneficiary] <= u[Beneficiary],
         NEW t, t = [s EXCEPT !.usdc = u]
  PROVE  Rest(t)
<1>1. s \in World /\ AllReturned(s) <= s.usdc[Beneficiary] /\ s.custody <= s.usdc[Honest]
  BY DEF Rest
<1>2. /\ t \in World /\ t.usdc = u /\ t.policies = s.policies /\ t.active = s.active
      /\ t.custody = s.custody /\ t.allowance = s.allowance /\ t.entered = s.entered
  BY <1>1 DEF World
<1>3. Ids(t) = Ids(s) /\ AllReturned(t) = AllReturned(s)
      /\ \A v \in Vaults : ActiveShares(t, v) = ActiveShares(s, v)
  BY <1>2, SameSums
<1>4. /\ AllReturned(s) \in Nat /\ s.custody \in Nat
      /\ s.usdc[Honest] \in Nat /\ s.usdc[Beneficiary] \in Nat
      /\ u[Honest] \in Nat /\ u[Beneficiary] \in Nat
  <2>1. s.usdc \in [Accounts -> Nat] /\ s.custody \in Nat
    BY <1>1, WorldFields
  <2> QED BY <1>1, <2>1, WorldSums, AccountsDiffer
<1>5. AllReturned(t) <= t.usdc[Beneficiary] /\ t.custody <= t.usdc[Honest]
  BY <1>1, <1>2, <1>3, <1>4
<1> QED BY <1>2, <1>3, <1>5 DEF Rest

\* A transfer of the untrusted vault in the middle of its call, which may use up
\* some of what it is approved for.
LEMMA TransferInCall ==
  ASSUME NEW f, NEW s, InCall(f, s), f.vault = Untrusted,
         NEW u \in [Accounts -> Nat], NEW taken \in Nat, taken <= s.allowance[Untrusted],
         u[Manager] = s.usdc[Manager] - taken,
         s.usdc[Honest] <= u[Honest], s.usdc[Beneficiary] <= u[Beneficiary],
         NEW t, t = [s EXCEPT !.usdc = u, !.allowance[Untrusted] = @ - taken]
  PROVE  InCall(f, t)
<1> USE AccountsDiffer
<1>1. s \in World /\ Rest(f.saved)
  BY DEF InCall
<1>2. /\ s.usdc \in [Accounts -> Nat] /\ s.allowance \in [Vaults -> Nat]
      /\ f.saved.usdc \in [Accounts -> Nat]
  <2>1. f.saved \in World
    BY <1>1 DEF Rest
  <2> QED BY <1>1, <2>1, WorldFields
<1>3. PICK al : al = [s.allowance EXCEPT ![Untrusted] = s.allowance[Untrusted] - taken]
  OBVIOUS
<1>4. /\ al \in [Vaults -> Nat] /\ al[Untrusted] = s.allowance[Untrusted] - taken
      /\ al[Honest] = s.allowance[Honest]
  <2>1. s.allowance[Untrusted] - taken \in Nat
    BY <1>2
  <2> QED BY <1>2, <1>3, <2>1
<1>5. /\ t \in World /\ t.usdc = u /\ t.policies = s.policies /\ t.active = s.active
      /\ t.custody = s.custody /\ t.allowance = al /\ t.entered = s.entered
  BY <1>1, <1>3, <1>4 DEF World
<1>6. /\ f.saved.usdc[Beneficiary] <= t.usdc[Beneficiary]
      /\ f.saved.usdc[Honest] <= t.usdc[Honest]
  <2>1. /\ f.saved.usdc[Beneficiary] <= s.usdc[Beneficiary]
        /\ f.saved.usdc[Honest] <= s.usdc[Honest]
    BY DEF InCall
  <2> QED BY <1>2, <1>5, <2>1
<1>7. CASE InOpening(f, s)
  <2>1. /\ f.call = "open" /\ t.policies = f.saved.policies /\ t.active = f.saved.active
        /\ s.allowance[Honest] = 0
        /\ s.usdc[Manager] = f.saved.usdc[Manager] + s.allowance[Untrusted]
    BY <1>5, <1>7 DEF InOpening
  <2>2. \A v \in Vaults \ {f.vault} : t.allowance[v] = 0
    BY <1>4, <1>5, <2>1
  <2>3. t.usdc[Manager] = f.saved.usdc[Manager] + t.allowance[f.vault]
    BY <1>2, <1>4, <1>5, <2>1
  <2>4. InOpening(f, t)
    BY <2>1, <2>2, <2>3 DEF InOpening
  <2> QED BY <1>5, <1>6, <2>4 DEF InCall
<1>8. CASE InExit(f, s)
  <2>1. s.allowance = NoAllowance /\ s.usdc[Manager] = f.saved.usdc[Manager]
    BY <1>8 DEF InExit
  <2>2. taken = 0
    BY <2>1 DEF NoAllowance
  <2>3. al = NoAllowance
    BY <1>3, <2>1, <2>2 DEF NoAllowance
  <2>4. t.usdc[Manager] = f.saved.usdc[Manager]
    BY <1>2, <1>5, <2>1, <2>2
  <2>5. InExit(f, t)
    BY <1>5, <1>8, <2>3, <2>4 DEF InExit
  <2> QED BY <1>5, <1>6, <2>5 DEF InCall
<1> QED BY <1>7, <1>8 DEF InCall

\* t is what openPolicy makes, with shares of vault, of the state w that the vault
\* left of s.
OpenedFrom(s, w, vault, shares, t) ==
  /\ w \in World /\ vault \in Vaults /\ shares \in Nat \ {0}
  /\ w.policies = s.policies /\ w.active = s.active
  /\ \A v \in Vaults \ {vault} : w.allowance[v] = 0
  /\ s.usdc[Beneficiary] <= w.usdc[Beneficiary] /\ w.custody <= w.usdc[Honest]
  /\ t = [w EXCEPT !.allowance[vault] = 0,
                   !.policies = Append(@, [vault |-> vault, shares |-> shares,
                                           minimum |-> 0, status |-> "Active",
                                           returned |-> 0]),
                   !.active[vault] = @ + shares,
                   !.entered = FALSE]
  /\ t.active[Honest] <= t.custody

\* The end of an opening leaves a state between transactions.
LEMMA OpenedAtRest ==
  ASSUME NEW s, NEW w, NEW vault, NEW shares, NEW t,
         Rest(s), OpenedFrom(s, w, vault, shares, t)
  PROVE  Rest(t) /\ t.usdc = w.usdc
<1> USE AccountsDiffer DEF OpenedFrom
<1>1. s \in World
  BY DEF Rest
<1>2. /\ w.allowance \in [Vaults -> Nat] /\ w.active \in [Vaults -> Nat]
      /\ w.policies \in Seq(PolicyRecord)
  BY WorldFields
<1>3. PICK p : p = [vault |-> vault, shares |-> shares, minimum |-> 0,
                    status |-> "Active", returned |-> 0]
  OBVIOUS
<1>4. /\ p \in PolicyRecord /\ p.vault = vault /\ p.shares = shares
      /\ p.status = "Active" /\ p.returned = 0
  BY <1>3 DEF PolicyRecord
<1>5. PICK al : al = [w.allowance EXCEPT ![vault] = 0]
  OBVIOUS
<1>6. al \in [Vaults -> Nat] /\ al = NoAllowance
  BY <1>2, <1>5 DEF NoAllowance
<1>7. PICK ac : ac = [w.active EXCEPT ![vault] = w.active[vault] + shares]
  OBVIOUS
<1>8. ac \in [Vaults -> Nat]
  <2>1. w.active[vault] + shares \in Nat
    BY <1>2
  <2> QED BY <1>2, <1>7, <2>1
<1>9. PICK ps : ps = Append(w.policies, p)
  OBVIOUS
<1>10. ps \in Seq(PolicyRecord)
  BY <1>2, <1>4, <1>9
<1>11. t = [w EXCEPT !.allowance = al, !.policies = ps, !.active = ac, !.entered = FALSE]
  BY <1>3, <1>5, <1>7, <1>9
<1>12. /\ t \in World /\ t.usdc = w.usdc /\ t.allowance = al /\ t.policies = ps
       /\ t.active = ac /\ t.custody = w.custody /\ t.entered = FALSE
  BY <1>6, <1>8, <1>10, <1>11 DEF World
<1>13. t.active = [s.active EXCEPT ![p.vault] = s.active[p.vault] + p.shares]
  BY <1>4, <1>7, <1>12
<1>14. t.policies = Append(s.policies, p)
  BY <1>9, <1>12
<1>15. /\ ~ t.entered /\ t.allowance = NoAllowance /\ t.active[Honest] <= t.custody
       /\ s.usdc[Beneficiary] <= t.usdc[Beneficiary] /\ t.custody <= t.usdc[Honest]
  BY <1>6, <1>12
<1>16. Rest(t)
  BY ONLY Rest(s), <1>4, <1>12, <1>13, <1>14, <1>15, OpenedSound
<1> QED BY <1>12, <1>16

\* t is what _exitPolicy makes, for its policy p, at d, of the state w that the
\* vault left of s.
ExitedFrom(s, w, d, p, returned, minimum, t) ==
  /\ w \in World /\ d \in Ids(s) /\ p = s.policies[d] /\ p.status = "Active"
  /\ w.policies = [s.policies EXCEPT ![d] = [p EXCEPT !.status = "Closed"]]
  /\ w.active = [s.active EXCEPT ![p.vault] = @ - p.shares]
  /\ w.allowance = NoAllowance
  /\ returned \in Nat /\ minimum \in Nat
  /\ p.vault = Honest => returned = p.shares
  /\ s.usdc[Beneficiary] + returned <= w.usdc[Beneficiary]
  /\ w.active[Honest] <= w.custody /\ w.custody <= w.usdc[Honest]
  /\ t = [w EXCEPT !.policies[d] = [w.policies[d] EXCEPT !.returned = returned,
                                                         !.minimum = minimum],
                   !.entered = FALSE]

\* The end of an exit leaves a state between transactions.
LEMMA ExitedAtRest ==
  ASSUME NEW s, NEW w, NEW d, NEW p, NEW returned, NEW minimum, NEW t,
         Rest(s), ExitedFrom(s, w, d, p, returned, minimum, t)
  PROVE  Rest(t) /\ t.usdc = w.usdc
<1> USE AccountsDiffer DEF ExitedFrom
<1>1. s \in World
  BY DEF Rest
<1>2. /\ s.policies \in Seq(PolicyRecord) /\ d \in 1..Len(s.policies)
      /\ p \in PolicyRecord /\ p.vault \in Vaults /\ p.shares \in Nat
  BY <1>1, WorldFields, PolicyFields
<1>3. w.policies[d] = [p EXCEPT !.status = "Closed"]
  BY <1>2, ExceptSeq
<1>4. PICK c : c = [w.policies[d] EXCEPT !.returned = returned, !.minimum = minimum]
  OBVIOUS
<1>5. c \in PolicyRecord /\ c.status = "Closed" /\ c.vault = p.vault
      /\ c.shares = p.shares /\ c.returned = returned
  BY <1>2, <1>3, <1>4 DEF PolicyRecord
<1>6. PICK ps : ps = [w.policies EXCEPT ![d] = c]
  OBVIOUS
<1>7. ps = [s.policies EXCEPT ![d] = c]
  BY <1>2, <1>6
<1>8. ps \in Seq(PolicyRecord)
  BY <1>2, <1>5, <1>7, ExceptSeq
<1>9. t = [w EXCEPT !.policies = ps, !.entered = FALSE]
  BY <1>4, <1>6
<1>10. /\ t \in World /\ t.usdc = w.usdc /\ t.allowance = w.allowance /\ t.policies = ps
       /\ t.active = w.active /\ t.custody = w.custody /\ t.entered = FALSE
  BY <1>8, <1>9 DEF World
<1>11. ClosesInto(s, t, d, p, c)
  BY <1>5, <1>7, <1>10 DEF ClosesInto
<1>12. Rest(t)
  BY ONLY Rest(s), <1>11, ExitedSound
<1> QED BY <1>10, <1>12

\* What a frame and the state it goes with have to do with each other.
LEMMA CallFacts ==
  ASSUME NEW f, NEW w, InCall(f, w)
  PROVE  /\ w \in World /\ f.saved \in World /\ Rest(f.saved) /\ f.vault \in Vaults
         /\ f.amount \in Nat /\ w.custody = f.saved.custody
         /\ w.usdc \in [Accounts -> Nat] /\ f.saved.usdc \in [Accounts -> Nat]
         /\ f.saved.usdc[Beneficiary] <= w.usdc[Beneficiary]
         /\ f.saved.usdc[Honest] <= w.usdc[Honest]
         /\ w.custody <= w.usdc[Honest]
         /\ f.balance = f.saved.usdc[Beneficiary] /\ f.custody = f.saved.custody
         /\ f.saved.custody \in Nat /\ f.saved.usdc[Manager] \in Nat
         /\ f.saved.usdc[Manager] <= w.usdc[Manager]
<1> USE AccountsDiffer
<1>1. /\ w \in World /\ f.saved \in World /\ Rest(f.saved) /\ f.vault \in Vaults
      /\ f.amount \in Nat /\ w.custody = f.saved.custody
      /\ f.saved.usdc[Beneficiary] <= w.usdc[Beneficiary]
      /\ f.saved.usdc[Honest] <= w.usdc[Honest]
      /\ f.balance = f.saved.usdc[Beneficiary] /\ f.custody = f.saved.custody
      /\ f.saved.custody <= f.saved.usdc[Honest]
  BY DEF InCall, Rest
<1>2. /\ w.usdc \in [Accounts -> Nat] /\ f.saved.usdc \in [Accounts -> Nat]
      /\ f.saved.custody \in Nat /\ w.allowance \in [Vaults -> Nat]
  BY ONLY <1>1, WorldFields
<1>3. w.custody <= w.usdc[Honest]
  BY <1>1, <1>2
<1>4. f.saved.usdc[Manager] <= w.usdc[Manager]
  <2>1. CASE InOpening(f, w)
    BY <1>1, <1>2, <2>1 DEF InOpening
  <2>2. CASE InExit(f, w)
    BY <1>2, <2>2 DEF InExit
  <2> QED BY <2>1, <2>2 DEF InCall
<1>5. f.saved.usdc[Manager] \in Nat
  BY <1>2
<1> QED BY <1>1, <1>2, <1>3, <1>4, <1>5

\* r is what the honest vault, called by f to take a principal, makes of w.
ServedOpening(f, w, r) ==
  /\ f.call = "open" /\ f.vault = Honest
  /\ r = [w EXCEPT !.usdc = Move(@, Manager, Honest, f.amount),
                   !.allowance[Honest] = @ - f.amount,
                   !.custody = @ + f.amount]

\* The honest vault takes the principal for as many shares.
LEMMA HonestTakesPrincipal ==
  ASSUME NEW f, NEW w, NEW r, InCall(f, w), ServedOpening(f, w, r)
  PROVE  /\ r \in World /\ f.amount \in Nat \ {0} /\ r.custody - f.custody = f.amount
         /\ r.policies = f.saved.policies /\ r.active = f.saved.active
         /\ \A v \in Vaults \ {Honest} : r.allowance[v] = 0
         /\ f.saved.usdc[Beneficiary] <= r.usdc[Beneficiary]
         /\ r.custody <= r.usdc[Honest]
         /\ f.saved.usdc[Manager] <= r.usdc[Manager]
<1> USE AccountsDiffer DEF ServedOpening
<1>1. /\ w \in World /\ f.saved \in World /\ w.custody = f.saved.custody
      /\ w.usdc \in [Accounts -> Nat] /\ f.saved.usdc \in [Accounts -> Nat]
      /\ f.saved.usdc[Beneficiary] <= w.usdc[Beneficiary]
      /\ f.custody = f.saved.custody /\ w.custody <= w.usdc[Honest]
      /\ f.saved.custody \in Nat /\ f.saved.usdc[Manager] \in Nat
  BY CallFacts
<1>2. /\ f.amount \in Nat \ {0} /\ w.allowance[Honest] = f.amount
      /\ w.policies = f.saved.policies /\ w.active = f.saved.active
      /\ w.allowance[Untrusted] = 0
      /\ w.usdc[Manager] = f.saved.usdc[Manager] + f.amount
  BY DEF InCall, InOpening, InExit
<1>3. w.allowance \in [Vaults -> Nat]
  BY ONLY <1>1, WorldFields
<1>4. PICK u : u = Move(w.usdc, Manager, Honest, f.amount)
  OBVIOUS
<1>5. /\ u \in [Accounts -> Nat] /\ u[Honest] = w.usdc[Honest] + f.amount
      /\ u[Beneficiary] = w.usdc[Beneficiary] /\ u[Manager] = f.saved.usdc[Manager]
  <2>1. f.amount <= w.usdc[Manager]
    BY <1>1, <1>2
  <2>2. /\ u \in [Accounts -> Nat] /\ u[Honest] = w.usdc[Honest] + f.amount
        /\ u[Beneficiary] = w.usdc[Beneficiary] /\ u[Manager] = w.usdc[Manager] - f.amount
    <3>1. w.usdc \in [Accounts -> Nat] /\ f.amount \in Nat
      BY <1>1, <1>2
    <3>2. /\ Honest \in Accounts /\ Beneficiary \in Accounts /\ Manager \in Accounts
          /\ Honest # Beneficiary /\ Manager # Honest /\ Manager # Beneficiary
      OBVIOUS
    <3> QED BY ONLY <1>4, <2>1, <3>1, <3>2, MoveBalances
  <2> QED BY <1>1, <1>2, <2>2
<1>6. PICK al : al = [w.allowance EXCEPT ![Honest] = w.allowance[Honest] - f.amount]
  OBVIOUS
<1>7. al \in [Vaults -> Nat] /\ al[Untrusted] = 0
  <2>1. w.allowance[Honest] - f.amount \in Nat
    BY <1>2
  <2> QED BY <1>2, <1>3, <1>6, <2>1
<1>8. PICK c \in Nat : c = w.custody + f.amount
  BY <1>1, <1>2
<1>9. r = [w EXCEPT !.usdc = u, !.allowance = al, !.custody = c]
  BY <1>4, <1>6, <1>8
<1>10. /\ r \in World /\ r.usdc = u /\ r.allowance = al /\ r.custody = c
       /\ r.policies = w.policies /\ r.active = w.active
  BY <1>1, <1>5, <1>7, <1>9 DEF World
<1>11. c - f.custody = f.amount /\ c <= u[Honest]
  BY <1>1, <1>2, <1>5, <1>8
<1> QED BY <1>1, <1>2, <1>5, <1>7, <1>10, <1>11

\* r is what the honest vault, called by f to pay the shares of p, makes of w.
ServedExit(f, w, p, r) ==
  /\ f.call = "exit" /\ f.vault = Honest /\ p = f.saved.policies[f.id]
  /\ r = [w EXCEPT !.usdc = Move(@, Honest, Beneficiary, w.policies[f.id].shares),
                   !.custody = @ - w.policies[f.id].shares]

\* The honest vault pays a policy's shares out to the beneficiary.
LEMMA HonestPaysShares ==
  ASSUME NEW f, NEW w, NEW p, NEW r, InCall(f, w), ServedExit(f, w, p, r)
  PROVE  /\ r \in World /\ w.policies[f.id].shares = p.shares /\ p.shares \in Nat
         /\ r.policies = w.policies /\ r.active = w.active /\ r.allowance = w.allowance
         /\ r.usdc[Beneficiary] - f.balance = p.shares
         /\ f.saved.usdc[Beneficiary] + p.shares <= r.usdc[Beneficiary]
         /\ r.active[Honest] <= r.custody /\ r.custody <= r.usdc[Honest]
         /\ f.saved.usdc[Manager] <= r.usdc[Manager]
<1> USE AccountsDiffer DEF ServedExit
<1>1. /\ w \in World /\ f.saved \in World /\ Rest(f.saved) /\ w.custody = f.saved.custody
      /\ w.usdc \in [Accounts -> Nat] /\ f.saved.usdc \in [Accounts -> Nat]
      /\ f.balance = f.saved.usdc[Beneficiary] /\ w.custody <= w.usdc[Honest]
      /\ f.saved.custody \in Nat
  BY CallFacts
<1>2. InExit(f, w)
  BY DEF InCall, InOpening
<1>3. /\ f.id \in Ids(f.saved) /\ p.vault = Honest /\ p.status = "Active"
      /\ w.policies = [f.saved.policies EXCEPT ![f.id] = [p EXCEPT !.status = "Closed"]]
      /\ w.active = [f.saved.active EXCEPT ![Honest] = f.saved.active[Honest] - p.shares]
      /\ w.usdc = f.saved.usdc
  BY <1>2 DEF InExit
<1>4. /\ p \in PolicyRecord /\ p.shares \in Nat /\ f.saved.active \in [Vaults -> Nat]
      /\ w.policies[f.id] = [p EXCEPT !.status = "Closed"]
  <2>1. /\ f.saved.policies \in Seq(PolicyRecord) /\ f.id \in 1..Len(f.saved.policies)
        /\ p \in PolicyRecord /\ f.saved.active \in [Vaults -> Nat]
    BY <1>1, <1>3, WorldFields
  <2>2. p.shares \in Nat
    BY <2>1, PolicyFields
  <2>3. w.policies[f.id] = [p EXCEPT !.status = "Closed"]
    BY <1>3, <2>1, ExceptSeq
  <2> QED BY <2>1, <2>2, <2>3
<1>5. w.policies[f.id].shares = p.shares
  BY <1>4 DEF PolicyRecord
<1>6. /\ p.shares <= f.saved.active[Honest] /\ f.saved.active[Honest] <= f.saved.custody
      /\ w.active[Honest] = f.saved.active[Honest] - p.shares
  <2>1. f.saved.active[Honest] = ActiveShares(f.saved, Honest)
        /\ f.saved.active[Honest] <= f.saved.custody
    BY <1>1 DEF Rest
  <2>2. Counts(p, Honest) <= ActiveShares(f.saved, Honest)
    BY <1>1, <1>3, WorldSums
  <2>3. Counts(p, Honest) = p.shares
    BY <1>3 DEF Counts
  <2> QED BY <1>3, <1>4, <2>1, <2>2, <2>3
<1>7. PICK n \in Nat : n = p.shares
  BY <1>4
<1>8. PICK u : u = Move(w.usdc, Honest, Beneficiary, n)
  OBVIOUS
<1>9. n <= w.usdc[Honest]
  BY <1>1, <1>4, <1>6, <1>7
<1>10. /\ u \in [Accounts -> Nat] /\ u[Honest] = w.usdc[Honest] - n
       /\ u[Beneficiary] = w.usdc[Beneficiary] + n /\ u[Manager] = w.usdc[Manager]
  <2>1. w.usdc \in [Accounts -> Nat]
    BY <1>1
  <2>2. /\ Honest \in Accounts /\ Beneficiary \in Accounts /\ Manager \in Accounts
        /\ Honest # Beneficiary /\ Manager # Honest /\ Manager # Beneficiary
    OBVIOUS
  <2> QED BY ONLY <1>8, <1>9, <2>1, <2>2, MoveBalances
<1>11. PICK c \in Nat : c = w.custody - n
  BY <1>1, <1>4, <1>6, <1>7
<1>12. r = [w EXCEPT !.usdc = u, !.custody = c]
  BY <1>5, <1>7, <1>8, <1>11
<1>13. /\ r \in World /\ r.usdc = u /\ r.allowance = w.allowance /\ r.custody = c
       /\ r.policies = w.policies /\ r.active = w.active
  BY <1>1, <1>10, <1>12 DEF World
<1>14. /\ u[Beneficiary] - f.balance = n /\ f.saved.usdc[Beneficiary] + n <= u[Beneficiary]
       /\ w.active[Honest] <= c /\ c <= u[Honest] /\ f.saved.usdc[Manager] <= u[Manager]
  <2>1. /\ w.usdc[Beneficiary] \in Nat /\ w.usdc[Honest] \in Nat /\ w.usdc[Manager] \in Nat
        /\ f.saved.active[Honest] \in Nat
    BY <1>1, <1>4
  <2> QED BY <1>1, <1>3, <1>6, <1>7, <1>10, <1>11, <2>1
<1> QED BY <1>4, <1>5, <1>7, <1>13, <1>14

-----------------------------------------------------------------------------
(* The invariant, action by action.                                         *)

\* The state that counts when no call is under way: what the manager then holds
\* has not fallen.
LEMMA LeavesAtRest ==
  ASSUME UntrustedInv, ~ Idle, NEW t, Leaves(t), Rest(t),
         Top.saved.usdc[Manager] <= t.usdc[Manager]
  PROVE  UntrustedInv' /\ Committed'.usdc[Manager] >= Committed.usdc[Manager]
<1>1. stack = <<Top>> /\ Front(stack) = <<>> /\ Committed = Top.saved /\ InCall(Top, world)
  BY WhereControlIs
<1>2. world' = t /\ stack' = <<>>
  BY <1>1 DEF Leaves
<1>3. UntrustedInv'
  BY <1>2 DEF UntrustedInv
<1>4. Committed' = t
  BY <1>2 DEF Committed, Idle
<1>5. Top.saved.usdc[Manager] \in Nat /\ t.usdc[Manager] \in Nat
  <2>1. Top.saved.usdc[Manager] \in Nat
    BY <1>1, CallFacts
  <2>2. t \in World
    BY DEF Rest
  <2> QED BY <2>1, <2>2, WorldFields, AccountsDiffer
<1> QED BY <1>1, <1>3, <1>4, <1>5

\* A new call: the state to go back to is the one it started from.
LEMMA EntersInCall ==
  ASSUME UntrustedInv, Idle, NEW t, NEW call, NEW vault, NEW id, NEW amount,
         Enters(t, call, vault, id, amount),
         NEW f, f = [call |-> call, vault |-> vault, id |-> id, amount |-> amount,
                     balance |-> world.usdc[Beneficiary],
                     custody |-> world.custody, saved |-> world],
         InCall(f, t)
  PROVE  UntrustedInv' /\ Committed'.usdc[Manager] >= Committed.usdc[Manager]
<1>1. stack = <<>> /\ world \in World /\ Committed = world
  BY WhereControlIs DEF Committed
<1>2. world' = t /\ stack' = <<f>> /\ Top' = f
  BY <1>1, EntersFacts
<1>3. UntrustedInv'
  BY <1>2 DEF UntrustedInv
<1>4. Committed' = world
  <2>1. stack' # <<>> /\ stack'[1] = f
    BY <1>2, OneFrame
  <2> QED BY <2>1 DEF Committed, Idle
<1>5. world.usdc[Manager] \in Nat
  BY <1>1, WorldFields, AccountsDiffer
<1> QED BY <1>1, <1>3, <1>4, <1>5

\* openPolicy, up to the call of the vault.
LEMMA OpenKeeps ==
  ASSUME UntrustedInv, NEW vault \in Vaults, NEW principal \in Principals,
         Open(vault, principal)
  PROVE  UntrustedInv' /\ Committed'.usdc[Manager] >= Committed.usdc[Manager]
<1>1. Idle /\ principal + Fee <= world.usdc[Owner] /\ Rest(world)
  BY WhereControlIs DEF Open
<1>2. PICK t : t = [world EXCEPT
                      !.usdc = Move(Move(@, Owner, Manager, principal + Fee),
                                    Manager, Treasury, Fee),
                      !.allowance[vault] = principal,
                      !.entered = TRUE]
  OBVIOUS
<1>3. PICK f : f = [call |-> "open", vault |-> vault, id |-> 0, amount |-> principal,
                    balance |-> world.usdc[Beneficiary], custody |-> world.custody,
                    saved |-> world]
  OBVIOUS
<1>4. Enters(t, "open", vault, 0, principal)
  BY <1>1, <1>2 DEF Open
<1>5. principal \in Nat \ {0}
  BY UntrustedAssumption
<1>6. InCall(f, t)
  BY <1>1, <1>2, <1>3, <1>5, OpenEntersCall
<1> QED BY <1>1, <1>3, <1>4, <1>6, EntersInCall

\* _exitPolicy, up to the call of the vault.
LEMMA ExitKeeps ==
  ASSUME UntrustedInv, NEW id \in 1..MaxPolicies, NEW minimum \in Minimums,
         Exit(id, minimum)
  PROVE  UntrustedInv' /\ Committed'.usdc[Manager] >= Committed.usdc[Manager]
<1>1. Idle /\ Rest(world) /\ world \in World
  BY WhereControlIs DEF Exit
<1>2. PICK p : p = world.policies[id]
  OBVIOUS
<1>3. id \in Ids(world) /\ p.status = "Active"
  <2>1. id <= Len(world.policies) /\ p.status = "Active"
    BY <1>2 DEF Exit
  <2>2. Len(world.policies) \in Nat
    BY <1>1, WorldFields
  <2> QED BY <2>1, <2>2 DEF Ids
<1>4. PICK t : t = [world EXCEPT !.policies[id].status = "Closed",
                                 !.active[p.vault] = @ - p.shares,
                                 !.entered = TRUE]
  OBVIOUS
<1>5. PICK f : f = [call |-> "exit", vault |-> p.vault, id |-> id, amount |-> minimum,
                    balance |-> world.usdc[Beneficiary], custody |-> world.custody,
                    saved |-> world]
  OBVIOUS
<1>6. Enters(t, "exit", p.vault, id, minimum)
  BY <1>2, <1>4 DEF Exit
<1>7. minimum \in Nat
  BY UntrustedAssumption
<1>8. InCall(f, t)
  BY <1>1, <1>2, <1>3, <1>4, <1>5, <1>7, ExitEntersCall
<1> QED BY <1>1, <1>5, <1>6, <1>8, EntersInCall

\* A step that the stack does not notice, between two transactions or in a call.
LEMMA WithoutCall ==
  ASSUME UntrustedInv, UNCHANGED stack,
         Idle => Rest(world') /\ world'.usdc[Manager] >= world.usdc[Manager],
         ~ Idle => InCall(Top, world')
  PROVE  UntrustedInv' /\ Committed'.usdc[Manager] >= Committed.usdc[Manager]
<1>1. Top' = Top
  BY DEF Top
<1>2. CASE Idle
  <2>1. Committed = world /\ Committed' = world' /\ stack' = <<>>
    BY <1>2 DEF Committed, Idle
  <2> QED BY <1>2, <2>1 DEF UntrustedInv
<1>3. CASE ~ Idle
  <2>1. stack = <<Top>> /\ InCall(Top, world) /\ Committed = Top.saved
    BY <1>3, WhereControlIs
  <2>2. stack' = <<Top'>>
    BY <1>1, <2>1
  <2>3. UntrustedInv'
    BY <1>1, <1>3, <2>2 DEF UntrustedInv
  <2>4. Committed' = Committed
    BY <1>3 DEF Committed, Idle
  <2>5. Committed.usdc[Manager] \in Nat
    BY <2>1, CallFacts
  <2> QED BY <2>3, <2>4, <2>5
<1> QED BY <1>2, <1>3

\* The untrusted vault spends what is its own.
LEMMA SpendKeeps ==
  ASSUME UntrustedInv, NEW to \in {Beneficiary, Owner}, Spend(to, 1)
  PROVE  UntrustedInv' /\ Committed'.usdc[Manager] >= Committed.usdc[Manager]
<1> USE AccountsDiffer
<1>1. world \in World
  BY WhereControlIs
<1>2. world.usdc \in [Accounts -> Nat] /\ world.allowance \in [Vaults -> Nat]
  BY ONLY <1>1, WorldFields
<1>3. PICK u : u = Move(world.usdc, Untrusted, to, 1)
  OBVIOUS
<1>4. world' = [world EXCEPT !.usdc = u] /\ UNCHANGED stack /\ 1 <= world.usdc[Untrusted]
  BY <1>3 DEF Spend
<1>5. /\ u \in [Accounts -> Nat] /\ u[Manager] = world.usdc[Manager]
      /\ world.usdc[Honest] <= u[Honest] /\ world.usdc[Beneficiary] <= u[Beneficiary]
  <2>1. /\ Untrusted \in Accounts /\ to \in Accounts /\ Manager \in Accounts
        /\ Honest \in Accounts /\ Beneficiary \in Accounts
        /\ Untrusted # Manager /\ Untrusted # Honest /\ Untrusted # Beneficiary
        /\ to # Manager
    OBVIOUS
  <2>2. 1 <= world.usdc[Untrusted]
    BY <1>4
  <2>3. /\ u \in [Accounts -> Nat]
        /\ \A x \in Accounts : x # Untrusted => world.usdc[x] <= u[x]
        /\ \A x \in Accounts : x # Untrusted /\ x # to => u[x] = world.usdc[x]
    <3>1. 1 \in Nat
      OBVIOUS
    <3> QED BY ONLY SMTT(30), <1>2, <1>3, <2>1, <2>2, <3>1, MoveBalances
  <2> QED BY <2>1, <2>3
<1>6. ASSUME Idle PROVE Rest(world') /\ world'.usdc[Manager] >= world.usdc[Manager]
  <2>1. Rest(world)
    BY <1>6, WhereControlIs
  <2>2. Rest(world')
    BY ONLY <1>4, <1>5, <2>1, TransferAtRest
  <2>3. world'.usdc = u
    BY <1>1, <1>4 DEF World
  <2> QED BY <1>2, <1>5, <2>2, <2>3
<1>7. ASSUME ~ Idle PROVE InCall(Top, world')
  <2>1. InCall(Top, world) /\ Top.vault = Untrusted
    BY <1>7, WhereControlIs DEF Spend, UntrustedActs
  <2>2. world.usdc[Manager] \in Nat /\ world.allowance[Untrusted] \in Nat
    BY <1>2
  <2>3. u[Manager] = world.usdc[Manager] - 0 /\ 0 <= world.allowance[Untrusted]
    BY <1>5, <2>2
  <2>4. world' = [world EXCEPT !.usdc = u, !.allowance[Untrusted] = @ - 0]
    <3>1. PICK al : al = [world.allowance EXCEPT ![Untrusted] = world.allowance[Untrusted] - 0]
      OBVIOUS
    <3>2. al = world.allowance
      BY <1>2, <2>2, <3>1
    <3>3. world' = [world EXCEPT !.usdc = u, !.allowance = al]
      BY <1>1, <1>4, <3>2 DEF World
    <3> QED BY <3>1, <3>3
  <2> QED BY ONLY <1>5, <2>1, <2>3, <2>4, TransferInCall
<1> QED BY <1>4, <1>6, <1>7, WithoutCall

\* The untrusted vault takes of what it is approved for.
LEMMA TakeKeeps ==
  ASSUME UntrustedInv, Take(1)
  PROVE  UntrustedInv' /\ Committed'.usdc[Manager] >= Committed.usdc[Manager]
<1> USE AccountsDiffer
<1>1. world \in World
  BY WhereControlIs
<1>2. world.usdc \in [Accounts -> Nat] /\ world.allowance \in [Vaults -> Nat]
  BY ONLY <1>1, WorldFields
<1>3. PICK u : u = Move(world.usdc, Manager, Untrusted, 1)
  OBVIOUS
<1>4. /\ world' = [world EXCEPT !.usdc = u, !.allowance[Untrusted] = @ - 1]
      /\ UNCHANGED stack /\ 1 <= world.usdc[Manager] /\ 1 <= world.allowance[Untrusted]
  BY <1>3 DEF Take
<1>5. /\ u \in [Accounts -> Nat] /\ u[Manager] = world.usdc[Manager] - 1
      /\ world.usdc[Honest] <= u[Honest] /\ world.usdc[Beneficiary] <= u[Beneficiary]
  <2>1. /\ Untrusted \in Accounts /\ Manager \in Accounts
        /\ Honest \in Accounts /\ Beneficiary \in Accounts
        /\ Untrusted # Manager /\ Manager # Honest /\ Manager # Beneficiary
    OBVIOUS
  <2>2. 1 <= world.usdc[Manager]
    BY <1>4
  <2> QED BY ONLY <1>2, <1>3, <2>1, <2>2, MoveBalances
<1>6. ASSUME Idle PROVE FALSE
  <2>1. Rest(world)
    BY <1>6, WhereControlIs
  <2> QED BY <1>4, <2>1 DEF Rest, NoAllowance
<1>7. ASSUME ~ Idle PROVE InCall(Top, world')
  <2>1. InCall(Top, world) /\ Top.vault = Untrusted
    BY <1>7, WhereControlIs DEF Take, UntrustedActs
  <2> QED BY ONLY <1>4, <1>5, <2>1, TransferInCall
<1> QED BY <1>4, <1>6, <1>7, WithoutCall

\* Assets that somebody sends to the manager.
LEMMA GiftKeeps ==
  ASSUME UntrustedInv, Gift
  PROVE  UntrustedInv' /\ Committed'.usdc[Manager] >= Committed.usdc[Manager]
<1> USE AccountsDiffer
<1>1. world \in World /\ Rest(world) /\ Idle
  BY WhereControlIs DEF Gift
<1>2. world.usdc \in [Accounts -> Nat]
  BY ONLY <1>1, WorldFields
<1>3. PICK u : u = Move(world.usdc, Owner, Manager, 1)
  OBVIOUS
<1>4. /\ world' = [world EXCEPT !.usdc = u] /\ UNCHANGED stack /\ 0 < world.usdc[Owner]
  BY <1>3 DEF Gift
<1>5. /\ u \in [Accounts -> Nat] /\ u[Manager] = world.usdc[Manager] + 1
      /\ world.usdc[Honest] <= u[Honest] /\ world.usdc[Beneficiary] <= u[Beneficiary]
  <2>1. /\ Owner \in Accounts /\ Manager \in Accounts
        /\ Honest \in Accounts /\ Beneficiary \in Accounts
        /\ Owner # Manager /\ Owner # Honest /\ Owner # Beneficiary
    OBVIOUS
  <2>2. 1 <= world.usdc[Owner]
    BY <1>2, <1>4
  <2> QED BY ONLY <1>2, <1>3, <2>1, <2>2, MoveBalances
<1>6. Rest(world') /\ world'.usdc[Manager] >= world.usdc[Manager]
  <2>1. Rest(world')
    BY ONLY <1>1, <1>4, <1>5, TransferAtRest
  <2>2. world'.usdc = u
    BY <1>1, <1>4 DEF World
  <2> QED BY <1>2, <1>5, <2>1, <2>2
<1> QED BY <1>1, <1>4, <1>6, WithoutCall

\* The honest vault serves an opening, and the manager finishes it.
LEMMA HonestOpens ==
  ASSUME UntrustedInv, HonestAnswers, Top.call = "open"
  PROVE  UntrustedInv' /\ Committed'.usdc[Manager] >= Committed.usdc[Manager]
<1> USE AccountsDiffer
<1>1. ~ Idle /\ Top.vault = Honest /\ InCall(Top, world)
  BY WhereControlIs DEF HonestAnswers
<1>2. PICK f : f = Top
  OBVIOUS
<1>3. PICK r : r = [world EXCEPT !.usdc = Move(@, Manager, Honest, f.amount),
                                 !.allowance[Honest] = @ - f.amount,
                                 !.custody = @ + f.amount]
  OBVIOUS
<1>4. r = Served
  BY <1>2, <1>3 DEF Served
<1>5. /\ r \in World /\ f.amount \in Nat \ {0} /\ r.custody - f.custody = f.amount
      /\ r.policies = f.saved.policies /\ r.active = f.saved.active
      /\ \A v \in Vaults \ {Honest} : r.allowance[v] = 0
      /\ f.saved.usdc[Beneficiary] <= r.usdc[Beneficiary]
      /\ r.custody <= r.usdc[Honest] /\ f.saved.usdc[Manager] <= r.usdc[Manager]
  <2>1. InCall(f, world) /\ ServedOpening(f, world, r)
    BY <1>1, <1>2, <1>3 DEF ServedOpening
  <2> QED BY ONLY <2>1, HonestTakesPrincipal
<1>6. Opened(r, f.amount)
  BY <1>2, <1>4 DEF HonestAnswers, Answered
<1>7. PICK t : t = [r EXCEPT
                      !.allowance[Honest] = 0,
                      !.policies = Append(@, [vault |-> Honest, shares |-> f.amount,
                                              minimum |-> 0, status |-> "Active",
                                              returned |-> 0]),
                      !.active[Honest] = @ + f.amount,
                      !.entered = FALSE]
  OBVIOUS
<1>8. t.active[Honest] <= t.custody /\ Leaves(t)
  BY <1>1, <1>2, <1>5, <1>6, <1>7 DEF Opened
<1>9. Rest(t) /\ t.usdc = r.usdc
  <2>1. Rest(f.saved)
    BY <1>1, <1>2, CallFacts
  <2>2. OpenedFrom(f.saved, r, Honest, f.amount, t)
    BY <1>5, <1>7, <1>8 DEF OpenedFrom
  <2> QED BY ONLY <2>1, <2>2, OpenedAtRest
<1>10. Top.saved.usdc[Manager] <= t.usdc[Manager]
  BY <1>2, <1>5, <1>9
<1> QED BY <1>1, <1>8, <1>9, <1>10, LeavesAtRest

\* The honest vault serves an exit, and the manager finishes it.
LEMMA HonestExits ==
  ASSUME UntrustedInv, HonestAnswers, Top.call = "exit"
  PROVE  UntrustedInv' /\ Committed'.usdc[Manager] >= Committed.usdc[Manager]
<1> USE AccountsDiffer
<1>1. ~ Idle /\ Top.vault = Honest /\ InCall(Top, world)
  BY WhereControlIs DEF HonestAnswers
<1>2. PICK f : f = Top
  OBVIOUS
<1>3. PICK p : p = f.saved.policies[f.id]
  OBVIOUS
<1>4. PICK r : r = [world EXCEPT
                      !.usdc = Move(@, Honest, Beneficiary, world.policies[f.id].shares),
                      !.custody = @ - world.policies[f.id].shares]
  OBVIOUS
<1>5. r = Served
  BY <1>2, <1>4 DEF Served
<1>6. /\ r \in World /\ world.policies[f.id].shares = p.shares /\ p.shares \in Nat
      /\ r.policies = world.policies /\ r.active = world.active
      /\ r.allowance = world.allowance
      /\ r.usdc[Beneficiary] - f.balance = p.shares
      /\ f.saved.usdc[Beneficiary] + p.shares <= r.usdc[Beneficiary]
      /\ r.active[Honest] <= r.custody /\ r.custody <= r.usdc[Honest]
      /\ f.saved.usdc[Manager] <= r.usdc[Manager]
  <2>1. InCall(f, world) /\ ServedExit(f, world, p, r)
    BY <1>1, <1>2, <1>3, <1>4 DEF ServedExit
  <2> QED BY ONLY <2>1, HonestPaysShares
<1>7. Exited(r, p.shares)
  BY <1>2, <1>5, <1>6 DEF HonestAnswers, Answered
<1>8. PICK t : t = [r EXCEPT !.policies[f.id] = [r.policies[f.id] EXCEPT
                                                   !.returned = p.shares,
                                                   !.minimum = f.amount],
                             !.entered = FALSE]
  OBVIOUS
<1>9. Leaves(t)
  BY <1>2, <1>6, <1>7, <1>8 DEF Exited
<1>10. InExit(f, world)
  BY <1>1, <1>2 DEF InCall, InOpening
<1>11. Rest(t) /\ t.usdc = r.usdc
  <2>1. Rest(f.saved) /\ f.amount \in Nat
    BY <1>1, <1>2, CallFacts
  <2>2. /\ f.id \in Ids(f.saved) /\ p.status = "Active"
        /\ r.policies = [f.saved.policies EXCEPT ![f.id] = [p EXCEPT !.status = "Closed"]]
        /\ r.active = [f.saved.active EXCEPT ![p.vault] = @ - p.shares]
        /\ r.allowance = NoAllowance
    BY <1>3, <1>6, <1>10 DEF InExit
  <2>3. f.saved.usdc[Beneficiary] + p.shares <= r.usdc[Beneficiary]
    BY SMTT(30), <1>6
  <2>4. ExitedFrom(f.saved, r, f.id, p, p.shares, f.amount, t)
    BY <1>3, <1>6, <1>8, <2>1, <2>2, <2>3 DEF ExitedFrom
  <2> QED BY ONLY <2>1, <2>4, ExitedAtRest
<1>12. Top.saved.usdc[Manager] <= t.usdc[Manager]
  BY <1>2, <1>6, <1>11
<1> QED BY <1>1, <1>9, <1>11, <1>12, LeavesAtRest

\* The untrusted vault answers an opening, whatever it reports.
LEMMA UntrustedOpens ==
  ASSUME UntrustedInv, ~ Idle, Top.vault = Untrusted, Top.call = "open",
         NEW report \in Reports, Opened(world, report)
  PROVE  UntrustedInv' /\ Committed'.usdc[Manager] >= Committed.usdc[Manager]
<1> USE AccountsDiffer
<1>1. InCall(Top, world)
  BY WhereControlIs
<1>2. PICK f : f = Top
  OBVIOUS
<1>3. /\ world \in World /\ Rest(f.saved) /\ f.saved \in World
      /\ f.saved.usdc[Beneficiary] <= world.usdc[Beneficiary]
      /\ world.custody <= world.usdc[Honest] /\ world.custody = f.saved.custody
      /\ f.saved.usdc[Manager] <= world.usdc[Manager]
  BY <1>1, <1>2, CallFacts
<1>4. /\ world.policies = f.saved.policies /\ world.active = f.saved.active
      /\ \A v \in Vaults \ {Untrusted} : world.allowance[v] = 0
  BY <1>1, <1>2 DEF InCall, InOpening, InExit
<1>5. report \in Nat \ {0}
  BY UntrustedAssumption DEF Opened
<1>6. PICK t : t = [world EXCEPT
                      !.allowance[Untrusted] = 0,
                      !.policies = Append(@, [vault |-> Untrusted, shares |-> report,
                                              minimum |-> 0, status |-> "Active",
                                              returned |-> 0]),
                      !.active[Untrusted] = @ + report,
                      !.entered = FALSE]
  OBVIOUS
<1>7. Leaves(t)
  BY <1>6 DEF Opened
<1>8. t.active[Honest] <= t.custody
  <2>1. world.active \in [Vaults -> Nat]
    BY ONLY <1>3, WorldFields
  <2>2. t.active[Honest] = world.active[Honest] /\ t.custody = world.custody
    BY <1>3, <1>6, <2>1 DEF World
  <2> QED BY <1>3, <1>4, <2>2 DEF Rest
<1>9. Rest(t) /\ t.usdc = world.usdc
  <2>1. OpenedFrom(f.saved, world, Untrusted, report, t)
    BY <1>3, <1>4, <1>5, <1>6, <1>8 DEF OpenedFrom
  <2> QED BY ONLY <1>3, <2>1, OpenedAtRest
<1>10. Top.saved.usdc[Manager] <= t.usdc[Manager]
  BY <1>2, <1>3, <1>9
<1> QED BY <1>7, <1>9, <1>10, LeavesAtRest

\* The untrusted vault answers an exit: what it reports is what was paid.
LEMMA UntrustedExits ==
  ASSUME UntrustedInv, ~ Idle, Top.vault = Untrusted, Top.call = "exit",
         NEW report \in Reports, Exited(world, report)
  PROVE  UntrustedInv' /\ Committed'.usdc[Manager] >= Committed.usdc[Manager]
<1> USE AccountsDiffer
<1>1. InCall(Top, world)
  BY WhereControlIs
<1>2. PICK f : f = Top
  OBVIOUS
<1>3. /\ world \in World /\ Rest(f.saved) /\ f.amount \in Nat /\ f.saved \in World
      /\ world.custody <= world.usdc[Honest] /\ world.custody = f.saved.custody
      /\ f.saved.usdc[Manager] <= world.usdc[Manager]
      /\ f.balance = f.saved.usdc[Beneficiary]
      /\ world.usdc \in [Accounts -> Nat] /\ f.saved.usdc \in [Accounts -> Nat]
  BY <1>1, <1>2, CallFacts
<1>4. PICK p : p = f.saved.policies[f.id]
  OBVIOUS
<1>5. /\ f.id \in Ids(f.saved) /\ p.vault = Untrusted /\ p.status = "Active"
      /\ world.policies = [f.saved.policies EXCEPT ![f.id] = [p EXCEPT !.status = "Closed"]]
      /\ world.active = [f.saved.active EXCEPT ![p.vault] = @ - p.shares]
      /\ world.allowance = NoAllowance
  BY <1>1, <1>2, <1>4 DEF InCall, InOpening, InExit
<1>6. report \in Nat /\ f.saved.usdc[Beneficiary] + report <= world.usdc[Beneficiary]
  <2>1. report = world.usdc[Beneficiary] - f.balance
    BY <1>2 DEF Exited
  <2>2. report \in Nat
    BY UntrustedAssumption
  <2> QED BY <1>3, <2>1, <2>2
<1>7. PICK t : t = [world EXCEPT !.policies[f.id] = [world.policies[f.id] EXCEPT
                                                       !.returned = report,
                                                       !.minimum = f.amount],
                                 !.entered = FALSE]
  OBVIOUS
<1>8. Leaves(t)
  BY <1>2, <1>7 DEF Exited
<1>9. world.active[Honest] <= world.custody
  <2>1. f.saved.active \in [Vaults -> Nat]
    BY ONLY <1>3, WorldFields
  <2>2. world.active[Honest] = f.saved.active[Honest]
    BY <1>5, <2>1
  <2> QED BY <1>3, <2>2 DEF Rest
<1>10. Rest(t) /\ t.usdc = world.usdc
  <2>1. p.vault = Honest => report = p.shares
    BY <1>5
  <2>2. ExitedFrom(f.saved, world, f.id, p, report, f.amount, t)
    BY <1>3, <1>4, <1>5, <1>6, <1>7, <1>9, <2>1 DEF ExitedFrom
  <2> QED BY ONLY <1>3, <2>2, ExitedAtRest
<1>11. Top.saved.usdc[Manager] <= t.usdc[Manager]
  BY <1>2, <1>3, <1>10
<1> QED BY <1>8, <1>10, <1>11, LeavesAtRest

\* Every way a call ends.
LEMMA EndsKeeps ==
  ASSUME UntrustedInv, Ends
  PROVE  UntrustedInv' /\ Committed'.usdc[Manager] >= Committed.usdc[Manager]
<1>1. ASSUME ~ Idle PROVE Top.call \in {"open", "exit"}
  <2>1. InCall(Top, world)
    BY <1>1, WhereControlIs
  <2> QED BY <2>1 DEF InCall, InOpening, InExit
<1>2. CASE HonestAnswers
  <2>1. ~ Idle
    BY <1>2 DEF HonestAnswers
  <2> QED BY <1>1, <1>2, <2>1, HonestOpens, HonestExits
<1>3. CASE UntrustedAnswers
  <2>1. ~ Idle /\ Top.vault = Untrusted
    BY <1>3 DEF UntrustedAnswers
  <2>2. PICK report \in Reports : Answered(world, report)
    BY <1>3 DEF UntrustedAnswers
  <2>3. CASE Top.call = "open"
    BY <2>1, <2>2, <2>3, UntrustedOpens DEF Answered
  <2>4. CASE Top.call = "exit"
    BY <2>1, <2>2, <2>4, UntrustedExits DEF Answered
  <2> QED BY <1>1, <2>1, <2>3, <2>4
<1>4. CASE Reverts
  <2>1. ~ Idle /\ Leaves(Top.saved)
    BY <1>4 DEF Reverts
  <2>2. InCall(Top, world)
    BY <2>1, WhereControlIs
  <2>3. Rest(Top.saved) /\ Top.saved.usdc[Manager] \in Nat
    BY ONLY <2>2, CallFacts
  <2>4. Top.saved.usdc[Manager] <= Top.saved.usdc[Manager]
    BY <2>3
  <2> QED BY <2>1, <2>3, <2>4, LeavesAtRest
<1> QED BY <1>2, <1>3, <1>4 DEF Ends

\* The invariant at first.
LEMMA InitSound ==
  ASSUME UntrustedInit
  PROVE  UntrustedInv
<1> USE AccountsDiffer
<1>1. /\ stack = <<>>
      /\ world = [usdc |-> [a \in Accounts |-> IF a = Owner THEN Funds ELSE 0],
                  allowance |-> [v \in Vaults |-> 0], policies |-> <<>>,
                  active |-> [v \in Vaults |-> 0], custody |-> 0, entered |-> FALSE]
  BY DEF UntrustedInit
<1>2. PICK u : u = [a \in Accounts |-> IF a = Owner THEN Funds ELSE 0]
  OBVIOUS
<1>3. u \in [Accounts -> Nat] /\ u[Honest] = 0 /\ u[Beneficiary] = 0
  BY <1>2, UntrustedAssumption
<1>4. /\ world \in World /\ world.usdc = u /\ world.policies = <<>> /\ world.custody = 0
      /\ world.active = [v \in Vaults |-> 0] /\ world.allowance = NoAllowance
      /\ ~ world.entered
  <2>1. <<>> \in Seq(PolicyRecord) /\ [v \in Vaults |-> 0] \in [Vaults -> Nat]
    OBVIOUS
  <2> QED BY <1>1, <1>2, <1>3, <2>1 DEF World, NoAllowance
<1>5. Ids(world) = {}
  BY <1>4 DEF Ids
<1>6. AllReturned(world) = 0 /\ \A v \in Vaults : ActiveShares(world, v) = 0
  <2>1. IsFiniteSet(Ids(world))
    BY <1>5, FS_EmptySet
  <2>2. ASSUME NEW g PROVE SumFunctionOnSet(g, Ids(world)) = 0
    BY <1>5, <2>1, SumOfZeros
  <2> QED BY <1>4, <2>2, WorldSums
<1>7. Rest(world)
  <2>1. world.active[Honest] = 0 /\ \A v \in Vaults : world.active[v] = 0
    BY <1>4
  <2>2. world.active[Honest] <= world.custody /\ world.custody <= world.usdc[Honest]
        /\ AllReturned(world) <= world.usdc[Beneficiary]
    BY <1>3, <1>4, <1>6, <2>1
  <2> QED BY <1>4, <1>5, <1>6, <2>1, <2>2 DEF Rest
<1> QED BY <1>1, <1>7 DEF UntrustedInv

\* Every step keeps the invariant and what the manager holds.
LEMMA StepKeeps ==
  ASSUME UntrustedInv, UntrustedNext
  PROVE  UntrustedInv' /\ Committed'.usdc[Manager] >= Committed.usdc[Manager]
BY OpenKeeps, ExitKeeps, SpendKeeps, TakeKeeps, GiftKeeps, EndsKeeps DEF UntrustedNext

\* What the chain holds is sound, in the middle of a call or between two.
LEMMA CommittedAtRest ==
  ASSUME UntrustedInv
  PROVE  Rest(Committed) /\ Committed \in World
<1>1. CASE Idle
  BY <1>1, WhereControlIs DEF Committed
<1>2. CASE ~ Idle
  <2>1. InCall(Top, world) /\ Committed = Top.saved
    BY <1>2, WhereControlIs
  <2> QED BY <2>1, CallFacts
<1> QED BY <1>1, <1>2

-----------------------------------------------------------------------------
(* The theorems.                                                            *)

\* The inductive invariant, and the action that keeps what the manager holds.
THEOREM UntrustedInvariance == UntrustedSpec => []UntrustedInv
<1>1. UntrustedInit => UntrustedInv
  BY InitSound
<1>2. UntrustedInv /\ [UntrustedNext]_untrustedVars => UntrustedInv'
  <2> SUFFICES ASSUME UntrustedInv, [UntrustedNext]_untrustedVars PROVE UntrustedInv'
    OBVIOUS
  <2>1. CASE UntrustedNext
    BY <2>1, StepKeeps
  <2>2. CASE UNCHANGED untrustedVars
    BY <2>2 DEF untrustedVars, UntrustedInv, Top
  <2> QED BY <2>1, <2>2
<1> QED BY <1>1, <1>2, PTL DEF UntrustedSpec

\* Types: no balance, allowance or count falls below zero, even in the middle of a
\* call, and no call of the manager is inside another.
THEOREM UntrustedTypeCorrect == UntrustedSpec => []UntrustedTypeOK
<1>1. UntrustedInv => UntrustedTypeOK
  <2> SUFFICES ASSUME UntrustedInv PROVE UntrustedTypeOK
    OBVIOUS
  <2>1. world \in World
    BY WhereControlIs
  <2>2. /\ world.usdc \in [Accounts -> Nat] /\ world.allowance \in [Vaults -> Nat]
        /\ world.active \in [Vaults -> Nat] /\ world.custody \in Nat
        /\ \A id \in Ids(world) : world.policies[id] \in PolicyRecord
    BY ONLY <2>1, WorldFields
  <2>3. Len(stack) <= 1
    <3>1. CASE stack = <<>>
      BY <3>1, OneFrame
    <3>2. CASE stack = <<Top>>
      <4>1. PICK f : f = Top
        OBVIOUS
      <4>2. Len(<<f>>) = 1
        BY OneFrame
      <4> QED BY <3>2, <4>1, <4>2
    <3> QED BY <3>1, <3>2 DEF UntrustedInv
  <2> QED BY <2>2, <2>3, PolicyFields DEF UntrustedTypeOK
<1> QED BY <1>1, UntrustedInvariance, PTL

\* What the policies are recorded to have returned was paid to the beneficiary, each
\* asset for one policy, whatever the untrusted vault does while it is called.
THEOREM EachAssetPaidOnce == UntrustedSpec => []PaidOnce
<1>1. UntrustedInv => PaidOnce
  <2> SUFFICES ASSUME UntrustedInv PROVE PaidOnce
    OBVIOUS
  <2>1. AllReturned(Committed) <= Committed.usdc[Beneficiary]
    BY CommittedAtRest DEF Rest
  <2> QED BY <2>1 DEF PaidOnce, AllReturned
<1> QED BY <1>1, UntrustedInvariance, PTL

\* The policies of the honest vault do not notice the other: all their shares are
\* counted and held, and each returned what it was worth.
THEOREM HonestPoliciesAreWhole == UntrustedSpec => []HonestPoliciesWhole
<1>1. UntrustedInv => HonestPoliciesWhole
  <2> SUFFICES ASSUME UntrustedInv PROVE HonestPoliciesWhole
    OBVIOUS
  <2>1. PICK w : w = Committed
    OBVIOUS
  <2>2. Rest(w)
    BY <2>1, CommittedAtRest
  <2>3. /\ w.active[Honest] = ActiveShares(w, Honest)
        /\ w.active[Honest] <= w.custody /\ w.custody <= w.usdc[Honest]
        /\ \A id \in Ids(w) : PolicyTruthful(w.policies[id])
    BY <2>2, AccountsDiffer DEF Rest
  <2>4. \A id \in Ids(w) :
           (w.policies[id].vault = Honest /\ w.policies[id].status = "Closed") =>
              w.policies[id].returned = w.policies[id].shares
    BY <2>3 DEF PolicyTruthful
  <2>5. w.active[Honest] =
           SumFunction([id \in Ids(w) |->
                          IF w.policies[id].vault = Honest /\ w.policies[id].status = "Active"
                          THEN w.policies[id].shares ELSE 0])
    BY <2>3 DEF ActiveShares, Counts
  <2> QED BY <2>1, <2>3, <2>4, <2>5 DEF HonestPoliciesWhole
<1> QED BY <1>1, UntrustedInvariance, PTL

\* What others sent to the manager stays with it: no transaction, whatever the
\* untrusted vault does in it, leaves the manager with less than before.
THEOREM GiftsStayWithManager == UntrustedSpec => GiftsStay
<1>1. UntrustedInv /\ [UntrustedNext]_untrustedVars
        => [Committed'.usdc[Manager] >= Committed.usdc[Manager]]_untrustedVars
  <2> SUFFICES ASSUME UntrustedInv, [UntrustedNext]_untrustedVars
               PROVE  [Committed'.usdc[Manager] >= Committed.usdc[Manager]]_untrustedVars
    OBVIOUS
  <2>1. CASE UntrustedNext
    BY <2>1, StepKeeps
  <2>2. CASE UNCHANGED untrustedVars
    BY <2>2
  <2> QED BY <2>1, <2>2
<1> QED BY <1>1, UntrustedInvariance, PTL DEF UntrustedSpec, GiftsStay
=============================================================================
