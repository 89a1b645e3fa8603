----------------------- MODULE IntentPreparationProofs -----------------------
(***************************************************************************)
(* Theorems of IntentPreparation for any terms, any number of requests and *)
(* of agents, and anything that others do on the chain.                    *)
(*                                                                         *)
(* What the page shows is only sound because at most one request is        *)
(* unanswered while nothing outran it, and because a copy that is under    *)
(* way is a copy of what is shown (FormOrderly).  What an agent opens is   *)
(* only as verified because every plan in circulation is one that the      *)
(* endpoint computed (Plans).                                              *)
(***************************************************************************)
EXTENDS IntentPreparation, ProtectionManagerProofs, SequenceTheorems

Observations == [paused : BOOLEAN, allowed : BOOLEAN, capacity : Nat, shares : Nat,
                 balance : Nat]

\* The plans that the endpoint can compute.
Plans == {plan \in [terms : Terms, seen : Observations, minimumShares : Nat,
                    authorizationAssets : Nat] :
             /\ ValidIntent(plan.terms) /\ Plannable(plan.terms, plan.seen)
             /\ plan.minimumShares = MinimumShares(plan.seen.shares)
             /\ plan.authorizationAssets = Cost(plan.terms.principalAssets)}

Requests == [terms : Terms, stage : {"sent", "served", "done"}, plan : Plans \cup {NoPlan}]
Handoffs == [plan : Plans, step : {"approve", "open", "opened", "reverted"}, policyId : Nat]

PageTypes ==
    /\ draft \in Terms
    /\ page \in [kind : {"draft", "preparing", "ready", "failed"}, plan : Plans \cup {NoPlan}]
    /\ page.kind = "ready" => page.plan \in Plans
    /\ requests \in Seq(Requests)
    /\ \A n \in 1..Len(requests) :
          requests[n].plan # NoPlan => requests[n].plan.terms = requests[n].terms
    /\ copying \subseteq Plans /\ clipboard \in Plans \cup {NoPlan}
    /\ copied \in BOOLEAN /\ outrun \in BOOLEAN

\* As long as nothing was pending when the page moved on, one request at most is
\* unanswered, for the terms in the form, and what is copied is what is shown.
FormOrderly ==
    ~ outrun =>
        /\ \A n \in 1..Len(requests) :
              Pending(n) => page.kind = "preparing" /\ requests[n].terms = draft
        /\ \A m, n \in 1..Len(requests) : Pending(m) /\ Pending(n) => m = n
        /\ page.kind = "preparing" => ~ copied /\ copying = {}
        /\ page.kind = "ready" =>
              /\ page.plan.terms = draft
              /\ copied => clipboard = page.plan
              /\ copying \subseteq {page.plan}

PageInv == PageTypes /\ FormOrderly

\* Every opening of an agent is a policy of the wallet, and the other way round.
AgentInv ==
    /\ handoffs \in Seq(Handoffs) /\ allowance \in Nat
    /\ \A n \in 1..Len(handoffs) : OpenedBy(n) => handoffs[n].policyId \in OwnPolicies
    /\ OpenedAsVerified
    /\ SpendIsAuthorized

\* The inductive invariant.
IntentInv == IndInv /\ PageInv /\ AgentInv

-----------------------------------------------------------------------------
(* Plans, requests and handoffs.                                            *)

\* The rounding of the minimum: at most the disclosed slippage and one share.
LEMMA MinimumIsDisclosed ==
  ASSUME NEW shares \in Nat
  PROVE  /\ MinimumShares(shares) \in Nat
         /\ shares * (BpsDenominator - EntrySlippageBps)
               < MinimumShares(shares) * BpsDenominator + BpsDenominator
BY DEF MinimumShares, BpsDenominator, EntrySlippageBps

\* The terms of the form are amounts.
LEMMA TermsTypes ==
  ASSUME NEW terms \in Terms
  PROVE  /\ terms.principalAssets \in Nat /\ terms.lossLimitBps \in Nat
         /\ terms.duration \in Nat /\ Cost(terms.principalAssets) \in Nat
BY ManagerAssumption DEF Terms, Cost

\* What the endpoint answers is a plan of the terms it was asked for, or none.
LEMMA PreparedIsPlan ==
  ASSUME IndInv, NEW terms \in Terms
  PROVE  /\ Prepared(terms) \in Plans \cup {NoPlan}
         /\ Prepared(terms) # NoPlan => Prepared(terms).terms = terms
<1>1. PICK seen : seen = Observed(terms)
  OBVIOUS
<1>2. seen \in Observations /\ seen.shares \in Nat
  <2>1. /\ usdc[DemoVault] \in Nat /\ supply[DemoVault] \in Nat /\ usdc[Wallet] \in Nat
        /\ paused \in BOOLEAN /\ isVaultAllowed[DemoVault] \in BOOLEAN
    BY IntentAssumption, AccountsFacts DEF IndInv, TypeOK, VaultTypeOK
  <2>2. ToShares(terms.principalAssets, usdc[DemoVault], supply[DemoVault]) \in Nat
    BY <2>1, TermsTypes, ConversionsType
  <2>3. MaxDeposit(usdc[DemoVault]) \in Nat
    BY <2>1, VaultAssumption DEF MaxDeposit
  <2> QED BY <1>1, <2>1, <2>2, <2>3 DEF Observed, Observations
<1>3. MinimumShares(seen.shares) \in Nat
  BY <1>2, MinimumIsDisclosed
<1>4. CASE ValidIntent(terms) /\ Plannable(terms, seen)
  <2>1. Plan(terms, seen) \in Plans /\ Plan(terms, seen).terms = terms
    BY <1>2, <1>3, <1>4, TermsTypes DEF Plan, Plans, Cost
  <2> QED BY <1>1, <1>4, <2>1 DEF Prepared
<1>5. CASE ~ (ValidIntent(terms) /\ Plannable(terms, seen))
  BY <1>1, <1>5 DEF Prepared
<1> QED BY <1>4, <1>5

\* What is known of a plan in circulation.
LEMMA PlanFields ==
  ASSUME NEW plan \in Plans
  PROVE  /\ plan.terms \in Terms /\ plan.seen.shares \in Nat
         /\ plan.minimumShares = MinimumShares(plan.seen.shares)
         /\ plan.minimumShares \in Nat /\ plan.authorizationAssets \in Nat
         /\ plan.authorizationAssets = Cost(plan.terms.principalAssets)
         /\ ValidIntent(plan.terms) /\ Plannable(plan.terms, plan.seen)
BY DEF Plans, Observations

RequestBecomes(n, stage, plan) ==
    requests' = [requests EXCEPT ![n].stage = stage, ![n].plan = plan]
HandoffBecomes(n, step, id) ==
    handoffs' = [handoffs EXCEPT ![n].step = step, ![n].policyId = id]

\* A request that was served or answered.
LEMMA RequestUpdate ==
  ASSUME requests \in Seq(Requests), NEW n \in 1..Len(requests),
         NEW stage \in {"sent", "served", "done"}, NEW plan \in Plans \cup {NoPlan},
         RequestBecomes(n, stage, plan)
  PROVE  /\ requests' \in Seq(Requests) /\ Len(requests') = Len(requests)
         /\ \A m \in 1..Len(requests) :
               requests'[m] = IF m = n THEN [terms |-> requests[n].terms, stage |-> stage,
                                             plan |-> plan]
                                       ELSE requests[m]
<1>1. PICK e : e = [terms |-> requests[n].terms, stage |-> stage, plan |-> plan]
  OBVIOUS
<1>2. requests[n] \in Requests
  BY ElementOfSeq
<1>3. e \in Requests
  BY <1>1, <1>2 DEF Requests
<1>4. requests' = [requests EXCEPT ![n] = e]
  <2>1. PICK D : D = 1..Len(requests)
    OBVIOUS
  <2>2. requests \in [D -> Requests] /\ n \in D
    BY <2>1, LenProperties
  <2>3. PICK updated : updated = [requests EXCEPT ![n] = e]
    OBVIOUS
  <2>4. requests'[n] = e
    BY <1>1, <1>2, <2>2 DEF Requests, RequestBecomes
  <2>5. requests' = [m \in D |-> requests'[m]] /\ updated = [m \in D |-> updated[m]]
    BY <2>2, <2>3 DEF RequestBecomes
  <2>6. \A m \in D : requests'[m] = updated[m]
    BY <2>2, <2>3, <2>4 DEF RequestBecomes
  <2>7. requests' = updated
    BY <2>5, <2>6
  <2> QED BY <2>3, <2>7
<1> QED BY <1>1, <1>3, <1>4, ExceptSeq

\* A handoff that went on.
LEMMA HandoffUpdate ==
  ASSUME handoffs \in Seq(Handoffs), NEW n \in 1..Len(handoffs),
         NEW step \in {"approve", "open", "opened", "reverted"}, NEW id \in Nat,
         HandoffBecomes(n, step, id)
  PROVE  /\ handoffs' \in Seq(Handoffs) /\ Len(handoffs') = Len(handoffs)
         /\ \A m \in 1..Len(handoffs) :
               handoffs'[m] = IF m = n THEN [plan |-> handoffs[n].plan, step |-> step,
                                             policyId |-> id]
                                       ELSE handoffs[m]
<1>1. PICK e : e = [plan |-> handoffs[n].plan, step |-> step, policyId |-> id]
  OBVIOUS
<1>2. handoffs[n] \in Handoffs
  BY ElementOfSeq
<1>3. e \in Handoffs
  BY <1>1, <1>2 DEF Handoffs
<1>4. handoffs' = [handoffs EXCEPT ![n] = e]
  <2>1. PICK D : D = 1..Len(handoffs)
    OBVIOUS
  <2>2. handoffs \in [D -> Handoffs] /\ n \in D
    BY <2>1, LenProperties
  <2>3. PICK updated : updated = [handoffs EXCEPT ![n] = e]
    OBVIOUS
  <2>4. handoffs'[n] = e
    BY <1>1, <1>2, <2>2 DEF Handoffs, HandoffBecomes
  <2>5. handoffs' = [m \in D |-> handoffs'[m]] /\ updated = [m \in D |-> updated[m]]
    BY <2>2, <2>3 DEF HandoffBecomes
  <2>6. \A m \in D : handoffs'[m] = updated[m]
    BY <2>2, <2>3, <2>4 DEF HandoffBecomes
  <2>7. handoffs' = updated
    BY <2>5, <2>6
  <2> QED BY <2>3, <2>7
<1> QED BY <1>1, <1>3, <1>4, ExceptSeq

-----------------------------------------------------------------------------
(* The page.                                                                *)

\* What is known of a request.
LEMMA RequestFields ==
  ASSUME PageTypes, NEW n \in 1..Len(requests)
  PROVE  /\ requests[n].terms \in Terms /\ requests[n].stage \in {"sent", "served", "done"}
         /\ requests[n].plan \in Plans \cup {NoPlan}
<1>1. requests[n] \in Requests
  BY ElementOfSeq DEF PageTypes
<1> QED BY <1>1 DEF Requests

\* An edit takes the plan away, and remembers what was pending.
LEMMA EditKeepsPage ==
  ASSUME PageInv, NEW terms \in Terms, EditDraft(terms)
  PROVE  PageInv'
<1>1. /\ draft' = terms /\ page' = Showing("draft") /\ copied' = FALSE
      /\ outrun' = (outrun \/ SomethingPending)
      /\ requests' = requests /\ copying' = copying /\ clipboard' = clipboard
  BY DEF EditDraft
<1>2. PageTypes'
  BY <1>1 DEF PageInv, PageTypes, Showing
<1>3. ASSUME ~ outrun'
      PROVE  copying = {} /\ \A n \in 1..Len(requests) : ~ Pending(n)'
  BY <1>1, <1>3 DEF SomethingPending, Pending
<1>4. page'.kind = "draft"
  BY <1>1 DEF Showing
<1> QED BY <1>1, <1>2, <1>3, <1>4 DEF PageInv, FormOrderly

\* Terms that are refused are not shown with a plan.
LEMMA RefuseKeepsPage ==
  ASSUME PageInv, Refuse
  PROVE  PageInv'
<1>1. /\ page.kind # "preparing" /\ page' = Showing("failed") /\ draft' = draft
      /\ requests' = requests /\ copying' = copying /\ clipboard' = clipboard
      /\ copied' = copied /\ outrun' = outrun
  BY DEF Refuse
<1>2. PageTypes'
  BY <1>1 DEF PageInv, PageTypes, Showing
<1>3. ASSUME ~ outrun'
      PROVE  \A n \in 1..Len(requests) : ~ Pending(n)'
  BY <1>1, <1>3 DEF PageInv, FormOrderly, Pending
<1>4. page'.kind = "failed"
  BY <1>1 DEF Showing
<1> QED BY <1>1, <1>2, <1>3, <1>4 DEF PageInv, FormOrderly

\* A new request is the only pending one, or is remembered to have outrun another.
LEMMA SubmitKeepsPage ==
  ASSUME PageInv, Submit
  PROVE  PageInv'
<1>1. PICK request : request = [terms |-> draft, stage |-> "sent", plan |-> NoPlan]
  OBVIOUS
<1>2. /\ requests' = Append(requests, request) /\ page' = Showing("preparing")
      /\ copied' = FALSE /\ outrun' = (outrun \/ SomethingPending)
      /\ draft' = draft /\ copying' = copying /\ clipboard' = clipboard
  BY <1>1 DEF Submit
<1>3. PageTypes
  BY DEF PageInv
<1>4. request \in Requests /\ request.plan = NoPlan /\ request.terms = draft
  BY <1>1, <1>3 DEF Requests, PageTypes
<1>5. /\ requests' \in Seq(Requests) /\ Len(requests) \in Nat
      /\ Len(requests') = Len(requests) + 1
      /\ \A n \in 1..Len(requests) : requests'[n] = requests[n]
      /\ requests'[Len(requests) + 1] = request
  BY <1>2, <1>3, <1>4, AppendProperties, LenProperties DEF PageTypes
<1>6. \A n \in 1..Len(requests') : n \in 1..Len(requests) \/ n = Len(requests) + 1
  BY <1>5
<1>7. PageTypes'
  <2>1. \A n \in 1..Len(requests') :
           requests'[n].plan # NoPlan => requests'[n].plan.terms = requests'[n].terms
    BY <1>3, <1>4, <1>5, <1>6 DEF PageTypes
  <2>2. /\ page' \in [kind : {"draft", "preparing", "ready", "failed"}, plan : Plans \cup {NoPlan}]
        /\ page'.kind # "ready"
    BY <1>2 DEF Showing
  <2> QED BY <1>2, <1>3, <1>5, <2>1, <2>2 DEF PageTypes
<1>8. ASSUME ~ outrun'
      PROVE  /\ copying = {}
             /\ \A n \in 1..Len(requests') : Pending(n)' => n = Len(requests) + 1
  <2>1. ~ SomethingPending
    BY <1>2, <1>8
  <2>2. \A n \in 1..Len(requests) : requests[n].stage = "done"
    BY <2>1 DEF SomethingPending, Pending
  <2> QED BY <1>5, <1>6, <2>1, <2>2 DEF SomethingPending, Pending
<1>9. page'.kind = "preparing"
  BY <1>2 DEF Showing
<1> QED BY <1>2, <1>4, <1>5, <1>7, <1>8, <1>9 DEF PageInv, FormOrderly

\* What the endpoint computes is a plan of the terms of its request.
LEMMA ServeKeepsPage ==
  ASSUME IndInv, PageInv, NEW n \in 1..Len(requests), Serve(n)
  PROVE  PageInv'
<1>1. PageTypes /\ requests[n].terms \in Terms
  BY RequestFields DEF PageInv
<1>2. PICK plan \in {Prepared(requests[n].terms), NoPlan} :
         RequestBecomes(n, "served", plan)
  BY DEF Serve, RequestBecomes
<1>3. plan \in Plans \cup {NoPlan} /\ (plan # NoPlan => plan.terms = requests[n].terms)
  BY <1>1, PreparedIsPlan
<1>4. /\ requests[n].stage = "sent" /\ page' = page /\ draft' = draft /\ copied' = copied
      /\ outrun' = outrun /\ copying' = copying /\ clipboard' = clipboard
  BY DEF Serve
<1>5. PICK served : served = [terms |-> requests[n].terms, stage |-> "served", plan |-> plan]
  OBVIOUS
<1>6. /\ requests' \in Seq(Requests) /\ Len(requests') = Len(requests)
      /\ \A m \in 1..Len(requests) : requests'[m] = IF m = n THEN served ELSE requests[m]
  <2>1. requests \in Seq(Requests) /\ "served" \in {"sent", "served", "done"}
    BY <1>1 DEF PageTypes
  <2> QED BY ONLY <1>2, <1>3, <1>5, <2>1, n \in 1..Len(requests), RequestUpdate
<1>7. served.terms = requests[n].terms /\ served.plan = plan
  BY <1>5
<1>8. PageTypes'
  <2>1. \A m \in 1..Len(requests') :
           requests'[m].plan # NoPlan => requests'[m].plan.terms = requests'[m].terms
    BY <1>1, <1>3, <1>6, <1>7 DEF PageTypes
  <2> QED BY <1>1, <1>4, <1>6, <2>1 DEF PageTypes
<1>9. \A m \in 1..Len(requests) : /\ Pending(m)' => Pending(m)
                                  /\ requests'[m].terms = requests[m].terms
  BY <1>4, <1>6, <1>7 DEF Pending
<1> QED BY <1>4, <1>6, <1>8, <1>9 DEF PageInv, FormOrderly

\* The answer that nothing outran is a plan of the terms in the form.
LEMMA AnswerKeepsPage ==
  ASSUME PageInv, NEW n \in 1..Len(requests), Answer(n)
  PROVE  PageInv'
<1>1. /\ PageTypes /\ requests[n].terms \in Terms
      /\ requests[n].plan \in Plans \cup {NoPlan}
      /\ requests[n].plan # NoPlan => requests[n].plan.terms = requests[n].terms
  BY RequestFields DEF PageInv, PageTypes
<1>2. /\ requests[n].stage = "served"
      /\ RequestBecomes(n, "done", NoPlan)
      /\ page' = IF requests[n].plan = NoPlan THEN Showing("failed")
                 ELSE [kind |-> "ready", plan |-> requests[n].plan]
      /\ draft' = draft /\ copied' = copied
      /\ outrun' = outrun /\ copying' = copying /\ clipboard' = clipboard
  BY DEF Answer, RequestBecomes
<1>3. PICK done : done = [terms |-> requests[n].terms, stage |-> "done", plan |-> NoPlan]
  OBVIOUS
<1>4. /\ requests' \in Seq(Requests) /\ Len(requests') = Len(requests)
      /\ \A m \in 1..Len(requests) : requests'[m] = IF m = n THEN done ELSE requests[m]
  <2>1. requests \in Seq(Requests) /\ "done" \in {"sent", "served", "done"}
    BY <1>1 DEF PageTypes
  <2>2. NoPlan \in Plans \cup {NoPlan}
    OBVIOUS
  <2> QED BY ONLY <1>2, <1>3, <2>1, <2>2, n \in 1..Len(requests), RequestUpdate
<1>5. done.stage = "done" /\ done.plan = NoPlan
  BY <1>3
<1>6. PageTypes'
  <2>1. \A m \in 1..Len(requests') :
           requests'[m].plan # NoPlan => requests'[m].plan.terms = requests'[m].terms
    BY <1>1, <1>4, <1>5 DEF PageTypes
  <2>2. /\ page' \in [kind : {"draft", "preparing", "ready", "failed"}, plan : Plans \cup {NoPlan}]
        /\ page'.kind = "ready" => page'.plan \in Plans
    BY <1>1, <1>2 DEF Showing
  <2> QED BY <1>1, <1>2, <1>4, <2>1, <2>2 DEF PageTypes
<1>7. ASSUME ~ outrun'
      PROVE  /\ page.kind = "preparing" /\ requests[n].terms = draft
             /\ ~ copied /\ copying = {}
             /\ \A m \in 1..Len(requests) : ~ Pending(m)'
  <2>1. Pending(n)
    BY <1>2 DEF Pending
  <2>2. \A m \in 1..Len(requests) : Pending(m)' => m # n /\ Pending(m)
    BY <1>4, <1>5 DEF Pending
  <2> QED BY <1>2, <1>7, <2>1, <2>2 DEF PageInv, FormOrderly
<1>8. /\ page'.kind \in {"failed", "ready"}
      /\ page'.kind = "ready" => page'.plan.terms = requests[n].terms
  BY <1>1, <1>2 DEF Showing
<1> QED BY <1>2, <1>4, <1>6, <1>7, <1>8 DEF PageInv, FormOrderly

\* What is copied is what is shown, unless the page moved on meanwhile.
LEMMA CopyKeepsPage ==
  ASSUME PageInv, StartCopy \/ EndCopy
  PROVE  PageInv'
<1>1. draft' = draft /\ page' = page /\ requests' = requests /\ outrun' = outrun
  BY DEF StartCopy, EndCopy
<1>2. \A n \in 1..Len(requests) : Pending(n)' <=> Pending(n)
  BY <1>1 DEF Pending
<1>3. CASE StartCopy
  <2>1. /\ page.kind = "ready" /\ copying' = copying \cup {page.plan}
        /\ copied' = copied /\ clipboard' = clipboard
    BY <1>3 DEF StartCopy
  <2>2. page.plan \in Plans
    BY <2>1 DEF PageInv, PageTypes
  <2>3. PageTypes'
    BY <1>1, <2>1, <2>2 DEF PageInv, PageTypes
  <2> QED BY <1>1, <1>2, <2>1, <2>3 DEF PageInv, FormOrderly
<1>4. CASE EndCopy
  <2>1. PICK plan \in copying :
           /\ copying' \in {copying, copying \ {plan}}
           /\ \/ clipboard' = plan /\ copied' = TRUE
              \/ clipboard' = clipboard /\ copied' = copied
    BY <1>4 DEF EndCopy
  <2>2. copying' \subseteq copying
    BY <2>1
  <2>3. PageTypes'
    BY <1>1, <2>1, <2>2 DEF PageInv, PageTypes
  <2> QED BY <1>1, <1>2, <2>1, <2>2, <2>3 DEF PageInv, FormOrderly
<1> QED BY <1>3, <1>4

\* Nobody but the page changes what it shows.
LEMMA ElsewhereKeepsPage ==
  ASSUME PageInv, UNCHANGED pageVars
  PROVE  PageInv'
BY DEF PageInv, PageTypes, FormOrderly, Pending, pageVars

-----------------------------------------------------------------------------
(* What the wallet paid, and what it approved.                              *)

\* The same sums over all identifiers and all handoffs.
PolicyCost(policy) == IF policy.owner = Wallet THEN Cost(policy.principalAssets) ELSE 0
HandoffCost(handoff) ==
    IF handoff.step = "approve" THEN 0 ELSE Cost(handoff.plan.terms.principalAssets)

Taken(book) == SumFunctionOnSet([id \in PolicyIds |-> PolicyCost(book[id])], PolicyIds)
Approved(given) ==
    SumFunctionOnSet([n \in 1..Len(given) |-> HandoffCost(given[n])], 1..Len(given))

\* What a policy cost the wallet is an amount.
LEMMA PolicyCostType ==
  ASSUME NEW policy \in Policy
  PROVE  PolicyCost(policy) \in Nat
BY ManagerAssumption DEF PolicyCost, Cost, Policy

\* What an approved plan costs is an amount.
LEMMA HandoffCostType ==
  ASSUME NEW handoff \in Handoffs
  PROVE  HandoffCost(handoff) \in Nat
<1>1. Cost(handoff.plan.terms.principalAssets) \in Nat
  BY PlanFields, TermsTypes DEF Handoffs
<1> QED BY <1>1 DEF HandoffCost

\* The sum over the wallet's policies is the sum over all of them.
LEMMA TakenFacts ==
  ASSUME NEW book \in [PolicyIds -> Policy]
  PROVE  /\ Taken(book) \in Nat
         /\ SumFunction([id \in {i \in PolicyIds : book[i].owner = Wallet} |->
                            Cost(book[id].principalAssets)]) = Taken(book)
<1>1. PICK f : f = [id \in PolicyIds |-> PolicyCost(book[id])]
  OBVIOUS
<1>2. f \in [PolicyIds -> Nat]
  BY <1>1, PolicyCostType
<1>3. PICK own : own = {i \in PolicyIds : book[i].owner = Wallet}
  OBVIOUS
<1>4. PICK g : g = [id \in own |-> Cost(book[id].principalAssets)]
  OBVIOUS
<1>5. /\ own \in SUBSET PolicyIds
      /\ \A id \in own : g[id] = f[id]
      /\ \A id \in PolicyIds \ own : f[id] = 0
  BY <1>1, <1>3, <1>4 DEF PolicyCost
<1>6. g \in [own -> Nat]
  BY <1>2, <1>4, <1>5
<1>7. SumFunctionOnSet(g, own) = SumFunctionOnSet(f, PolicyIds)
  BY <1>2, <1>5, <1>6, PolicyIdsFinite, SumOverSupport
<1>8. SumFunction(g) = SumFunctionOnSet(g, own)
  BY <1>4 DEF SumFunction
<1>9. SumFunctionOnSet(f, PolicyIds) \in Nat
  BY <1>2, PolicyIdsFinite, SumOfNaturals
<1> QED BY <1>1, <1>3, <1>4, <1>7, <1>8, <1>9 DEF Taken

\* One policy changes what was taken by what it cost.
LEMMA TakenUpdate ==
  ASSUME NEW book \in [PolicyIds -> Policy], NEW after \in [PolicyIds -> Policy],
         NEW d \in PolicyIds,
         \A id \in PolicyIds : id # d => PolicyCost(after[id]) = PolicyCost(book[id])
  PROVE  Taken(after) = Taken(book) + PolicyCost(after[d]) - PolicyCost(book[d])
<1>1. PICK f : f = [id \in PolicyIds |-> PolicyCost(book[id])]
  OBVIOUS
<1>2. PICK h : h = [id \in PolicyIds |-> PolicyCost(after[id])]
  OBVIOUS
<1>3. f \in [PolicyIds -> Nat] /\ h \in [PolicyIds -> Nat]
  BY <1>1, <1>2, PolicyCostType
<1>4. \A id \in PolicyIds : id # d => h[id] = f[id]
  BY <1>1, <1>2
<1>5. SumFunctionOnSet(h, PolicyIds) = SumFunctionOnSet(f, PolicyIds) + h[d] - f[d]
  BY <1>3, <1>4, PolicyIdsFinite, SumUpdate
<1>6. h[d] = PolicyCost(after[d]) /\ f[d] = PolicyCost(book[d])
  BY <1>1, <1>2
<1> QED BY <1>1, <1>2, <1>5, <1>6 DEF Taken

\* The costs of the handoffs are finitely many amounts.
LEMMA HandoffsRange ==
  ASSUME NEW given \in Seq(Handoffs)
  PROVE  /\ IsFiniteSet(1..Len(given)) /\ Len(given) \in Nat
         /\ [n \in 1..Len(given) |-> HandoffCost(given[n])] \in [1..Len(given) -> Nat]
<1>1. Len(given) \in Nat /\ 1 \in Int
  BY LenProperties
<1>2. IsFiniteSet(1..Len(given))
  BY <1>1, FS_Interval
<1>3. \A n \in 1..Len(given) : HandoffCost(given[n]) \in Nat
  BY ElementOfSeq, HandoffCostType
<1> QED BY <1>1, <1>2, <1>3

\* The sum over the approved handoffs is the sum over all of them.
LEMMA ApprovedFacts ==
  ASSUME NEW given \in Seq(Handoffs)
  PROVE  /\ Approved(given) \in Nat
         /\ SumFunction([n \in {m \in 1..Len(given) : given[m].step # "approve"} |->
                            Cost(given[n].plan.terms.principalAssets)]) = Approved(given)
<1>1. PICK D : D = 1..Len(given)
  OBVIOUS
<1>2. PICK f : f = [n \in D |-> HandoffCost(given[n])]
  OBVIOUS
<1>3. f \in [D -> Nat] /\ IsFiniteSet(D)
  BY <1>1, <1>2, HandoffsRange
<1>4. PICK approved : approved = {m \in D : given[m].step # "approve"}
  OBVIOUS
<1>5. PICK g : g = [n \in approved |-> Cost(given[n].plan.terms.principalAssets)]
  OBVIOUS
<1>6. /\ approved \in SUBSET D
      /\ \A n \in approved : g[n] = f[n]
      /\ \A n \in D \ approved : f[n] = 0
  BY <1>2, <1>4, <1>5 DEF HandoffCost
<1>7. g \in [approved -> Nat]
  BY <1>3, <1>5, <1>6
<1>8. SumFunctionOnSet(g, approved) = SumFunctionOnSet(f, D)
  BY <1>3, <1>6, <1>7, SumOverSupport
<1>9. SumFunction(g) = SumFunctionOnSet(g, approved)
  BY <1>5 DEF SumFunction
<1>10. SumFunctionOnSet(f, D) \in Nat
  BY <1>3, SumOfNaturals
<1> QED BY <1>1, <1>2, <1>4, <1>5, <1>8, <1>9, <1>10 DEF Approved

\* One handoff changes what was approved by what it costs.
LEMMA ApprovedUpdate ==
  ASSUME NEW given \in Seq(Handoffs), NEW after \in Seq(Handoffs), NEW d \in 1..Len(given),
         Len(after) = Len(given), \A n \in 1..Len(given) : n # d => after[n] = given[n]
  PROVE  Approved(after) = Approved(given) + HandoffCost(after[d]) - HandoffCost(given[d])
<1>1. PICK D : D = 1..Len(given)
  OBVIOUS
<1>2. PICK f : f = [n \in D |-> HandoffCost(given[n])]
  OBVIOUS
<1>3. PICK h : h = [n \in D |-> HandoffCost(after[n])]
  OBVIOUS
<1>4. f \in [D -> Nat] /\ h \in [D -> Nat] /\ IsFiniteSet(D) /\ d \in D
  BY <1>1, <1>2, <1>3, HandoffsRange
<1>5. \A n \in D : n # d => h[n] = f[n]
  BY <1>1, <1>2, <1>3
<1>6. SumFunctionOnSet(h, D) = SumFunctionOnSet(f, D) + h[d] - f[d]
  BY <1>4, <1>5, SumUpdate
<1>7. h[d] = HandoffCost(after[d]) /\ f[d] = HandoffCost(given[d])
  BY <1>2, <1>3, <1>4
<1> QED BY <1>1, <1>2, <1>3, <1>6, <1>7 DEF Approved

\* A handoff that is not approved yet adds nothing.
LEMMA ApprovedAppend ==
  ASSUME NEW given \in Seq(Handoffs), NEW new \in Handoffs, new.step = "approve"
  PROVE  Approved(Append(given, new)) = Approved(given)
<1>1. PICK after : after = Append(given, new)
  OBVIOUS
<1>2. /\ after \in Seq(Handoffs) /\ Len(after) = Len(given) + 1
      /\ \A n \in 1..Len(given) : after[n] = given[n]
      /\ after[Len(given) + 1] = new
  BY <1>1, AppendProperties
<1>3. PICK g : g = [n \in 1..Len(given) |-> HandoffCost(given[n])]
  OBVIOUS
<1>4. PICK h : h = [n \in 1..Len(after) |-> HandoffCost(after[n])]
  OBVIOUS
<1>5. /\ Len(given) \in Nat /\ g \in [1..Len(given) -> Nat]
      /\ h \in [1..(Len(given) + 1) -> Nat]
  BY <1>2, <1>3, <1>4, HandoffsRange
<1>6. \A n \in 1..Len(given) : h[n] = g[n]
  BY <1>2, <1>3, <1>4, <1>5
<1>7. SumFunctionOnSet(h, 1..(Len(given) + 1)) =
         SumFunctionOnSet(g, 1..Len(given)) + h[Len(given) + 1]
  BY <1>5, <1>6, SumAppend
<1>8. h[Len(given) + 1] = 0
  BY <1>2, <1>4, <1>5 DEF HandoffCost
<1>9. SumFunctionOnSet(g, 1..Len(given)) \in Nat
  BY <1>3, HandoffsRange, SumOfNaturals
<1>10. Approved(given) = SumFunctionOnSet(g, 1..Len(given))
  BY <1>3 DEF Approved
<1>11. Approved(after) = SumFunctionOnSet(h, 1..Len(after))
  BY <1>4 DEF Approved
<1>12. Approved(after) = SumFunctionOnSet(h, 1..(Len(given) + 1))
  BY <1>2, <1>11
<1> QED BY <1>1, <1>7, <1>8, <1>9, <1>10, <1>12

\* The spending property in terms of these sums.
LEMMA SpendInFull ==
  ASSUME NEW book \in [PolicyIds -> Policy], NEW given \in Seq(Handoffs)
  PROVE  LET own == {i \in PolicyIds : book[i].owner = Wallet}
             approved == {m \in 1..Len(given) : given[m].step # "approve"}
         IN /\ SumFunction([id \in own |-> Cost(book[id].principalAssets)]) = Taken(book)
            /\ SumFunction([n \in approved |-> Cost(given[n].plan.terms.principalAssets)])
                  = Approved(given)
            /\ Taken(book) \in Nat /\ Approved(given) \in Nat
BY TakenFacts, ApprovedFacts

\* What a step of others leaves of a policy: those of the wallet keep their terms and
\* shares, and no other becomes one of the wallet.
SameTerms(policy, before) ==
    \/ policy.owner # Wallet /\ before.owner # Wallet
    \/ /\ policy.owner = before.owner /\ policy.principalAssets = before.principalAssets
       /\ policy.openedAt = before.openedAt /\ policy.expiresAt = before.expiresAt
       /\ policy.shares = before.shares

\* An opening of another account keeps the invariant and takes a free identifier.
LEMMA OtherOpening ==
  ASSUME IndInv, OpenByOther
  PROVE  /\ IndInv'
         /\ \A id \in PolicyIds : SameTerms(policies'[id], policies[id])
<1> USE AccountsFacts, ManagerAssumption, IntentAssumption
<1>1. PICK sender \in Users \ {Wallet}, vault \in Vaults, beneficiary \in Beneficiaries :
         \E principal \in Principals, lossLimit \in LossLimits, duration \in Durations,
            minimumShares \in Minimums :
               OpenPolicy(sender, vault, beneficiary, principal, lossLimit, duration,
                          minimumShares)
  BY DEF OpenByOther
<1>2. PICK principal \in Principals, lossLimit \in LossLimits, duration \in Durations,
           minimumShares \in Minimums :
              OpenPolicy(sender, vault, beneficiary, principal, lossLimit, duration,
                         minimumShares)
  BY <1>1
<1>3. IndInv'
  BY <1>2, OpenPolicyIndInv
<1>4. /\ policies \in [PolicyIds -> Policy] /\ nextPolicyId \in 1..(MaxPolicies + 1)
      /\ \A id \in PolicyIds : Exists(id) <=> id < nextPolicyId
  BY DEF IndInv, TypeOK, PoliciesWellFormed
<1>5. PICK policy : /\ policies' = [policies EXCEPT ![nextPolicyId] = policy]
                    /\ policy.owner = sender
  <2>1. PICK shares, trigger :
           /\ shares = EntryShares(principal, CollectFee(sender, principal), vault)
           /\ trigger = TriggerAssets(principal, lossLimit)
    OBVIOUS
  <2>2. PICK opened : opened =
           [owner |-> sender, beneficiary |-> beneficiary, vault |-> vault,
            principalAssets |-> principal, shares |-> shares,
            triggerAssets |-> trigger, assetsReturned |-> 0, openedAt |-> now,
            expiresAt |-> now + duration, status |-> "Active"]
    OBVIOUS
  <2>3. policies' = [policies EXCEPT ![nextPolicyId] = opened] /\ opened.owner = sender
    BY <1>2, <2>1, <2>2 DEF OpenPolicy
  <2> QED BY <2>3
<1>6. nextPolicyId \in PolicyIds
  BY <1>2, <1>4 DEF OpenPolicy, PolicyIds
<1>7. policies[nextPolicyId].owner # Wallet
  <2>1. ~ Exists(nextPolicyId)
    BY <1>4, <1>6
  <2> QED BY <2>1 DEF Exists
<1>8. \A id \in PolicyIds :
         policies'[id] = IF id = nextPolicyId THEN policy ELSE policies[id]
  BY <1>4, <1>5, <1>6
<1> QED BY <1>3, <1>5, <1>7, <1>8 DEF SameTerms

\* Others open no policies of the wallet, and an exit leaves the terms of the policy.
LEMMA OthersKeepTerms ==
  ASSUME IndInv, OpenByOther \/ Exit \/ Admin \/ Outside \/ Tick
  PROVE  \A id \in PolicyIds : SameTerms(policies'[id], policies[id])
<1>1. policies \in [PolicyIds -> Policy]
  BY DEF IndInv, TypeOK
<1>2. CASE UNCHANGED policies
  BY <1>2 DEF SameTerms
<1>3. CASE Exit
  <2>1. PICK d, status, assets :
           /\ d \in PolicyIds
           /\ policies' = [policies EXCEPT ![d].status = status, ![d].assetsReturned = assets]
    <3>1. PICK d \in PolicyIds, minimumAssets \in Minimums :
             \/ ExecuteProtection(d, minimumAssets)
             \/ \E sender \in Users : CancelPolicy(sender, d, minimumAssets)
             \/ CloseExpiredPolicy(d, minimumAssets)
      BY <1>3 DEF Exit
    <3>2. \E status : ExitPolicy(d, status, minimumAssets)
      BY <3>1 DEF ExecuteProtection, CancelPolicy, CloseExpiredPolicy
    <3>3. \E status, assets : Settle(d, status, assets)
      BY <3>2 DEF ExitPolicy
    <3> QED BY <3>3 DEF Settle
  <2> QED BY <1>1, <2>1 DEF SameTerms, Policy
<1>4. CASE Admin \/ Outside \/ Tick
  BY <1>2, <1>4 DEF Admin, SetVaultAllowed, SetTreasury, PauseOpenings, UnpauseOpenings,
                    Outside, Tick, managerVars
<1>5. CASE OpenByOther
  BY <1>5, OtherOpening
<1> QED BY <1>3, <1>4, <1>5

\* A handoff h is an opening of policy id of the book, with its plan's terms.
OpenedInto(handoff, id, book) ==
    /\ handoff.step = "opened" /\ handoff.policyId = id
    /\ book[id].principalAssets = handoff.plan.terms.principalAssets
    /\ book[id].expiresAt - book[id].openedAt = handoff.plan.terms.duration
    /\ book[id].shares * BpsDenominator + BpsDenominator
          > handoff.plan.seen.shares * (BpsDenominator - EntrySlippageBps)

\* The openings of the handoffs and the wallet's policies are the same.
Matched(given, book) ==
    /\ \A n \in 1..Len(given) : given[n].step = "opened" =>
          given[n].policyId \in PolicyIds /\ book[given[n].policyId].owner = Wallet
    /\ \A id \in PolicyIds : book[id].owner = Wallet =>
          \E n \in 1..Len(given) : OpenedInto(given[n], id, book)
    /\ \A m, n \in 1..Len(given) :
          m # n /\ given[m].step = "opened" /\ given[n].step = "opened" =>
             given[m].policyId # given[n].policyId

\* What AgentInv says, without its types.
LEMMA AgentInvReads ==
  ASSUME handoffs \in Seq(Handoffs), allowance \in Nat, policies \in [PolicyIds -> Policy]
  PROVE  AgentInv <=> /\ Matched(handoffs, policies)
                      /\ allowance + Taken(policies) <= Approved(handoffs)
<1>1. (/\ \A n \in 1..Len(handoffs) : OpenedBy(n) => handoffs[n].policyId \in OwnPolicies
       /\ OpenedAsVerified) <=> Matched(handoffs, policies)
  BY DEF OpenedBy, OwnPolicies, OpenedAsVerified, Matched, OpenedInto
<1>2. SpendIsAuthorized <=> allowance + Taken(policies) <= Approved(handoffs)
  BY SpendInFull DEF SpendIsAuthorized, OwnPolicies
<1> QED BY <1>1, <1>2 DEF AgentInv

\* The same of the next state.
LEMMA AgentInvReadsNext ==
  ASSUME handoffs' \in Seq(Handoffs), allowance' \in Nat, policies' \in [PolicyIds -> Policy]
  PROVE  AgentInv' <=> /\ Matched(handoffs', policies')
                       /\ allowance' + Taken(policies') <= Approved(handoffs')
<1>1. (/\ \A n \in 1..Len(handoffs') : OpenedBy(n)' => handoffs'[n].policyId \in OwnPolicies'
       /\ OpenedAsVerified') <=> Matched(handoffs', policies')
  BY DEF OpenedBy, OwnPolicies, OpenedAsVerified, Matched, OpenedInto
<1>2. SpendIsAuthorized' <=> allowance' + Taken(policies') <= Approved(handoffs')
  BY SpendInFull DEF SpendIsAuthorized, OwnPolicies
<1> QED BY <1>1, <1>2 DEF AgentInv

-----------------------------------------------------------------------------
(* The agents and the chain.                                                *)

\* Handoffs that go on without opening, and exits of others, match as before.
LEMMA MatchedStill ==
  ASSUME NEW given \in Seq(Handoffs), NEW after \in Seq(Handoffs),
         NEW book, NEW later, Matched(given, book),
         \A id \in PolicyIds : SameTerms(later[id], book[id]),
         Len(given) <= Len(after),
         \A n \in 1..Len(after) : after[n].step = "opened" => n \in 1..Len(given),
         \A n \in 1..Len(given) :
            \/ after[n] = given[n]
            \/ after[n].step # "opened" /\ given[n].step # "opened"
  PROVE  Matched(after, later)
<1>1. \A n \in 1..Len(given) : n \in 1..Len(after)
  BY LenProperties
<1>2. \A n \in 1..Len(after) : after[n].step = "opened" =>
         n \in 1..Len(given) /\ after[n] = given[n]
  OBVIOUS
<1>3. \A n \in 1..Len(given) : given[n].step = "opened" =>
         n \in 1..Len(after) /\ after[n] = given[n]
  BY <1>1
<1>4. \A n \in 1..Len(after) : after[n].step = "opened" =>
         after[n].policyId \in PolicyIds /\ later[after[n].policyId].owner = Wallet
  BY <1>2 DEF Matched, SameTerms
<1>5. ASSUME NEW id \in PolicyIds, later[id].owner = Wallet
      PROVE  \E n \in 1..Len(after) : OpenedInto(after[n], id, later)
  <2>1. PICK n \in 1..Len(given) : OpenedInto(given[n], id, book)
    BY <1>5 DEF Matched, SameTerms
  <2>2. n \in 1..Len(after) /\ after[n] = given[n]
    BY <1>3, <2>1 DEF OpenedInto
  <2>3. OpenedInto(after[n], id, later)
    BY <1>5, <2>1, <2>2 DEF OpenedInto, SameTerms
  <2> QED BY <2>2, <2>3
<1>6. \A m, n \in 1..Len(after) :
         m # n /\ after[m].step = "opened" /\ after[n].step = "opened" =>
            after[m].policyId # after[n].policyId
  BY <1>2 DEF Matched
<1> QED BY <1>4, <1>5, <1>6 DEF Matched

\* An opening adds one of each.
LEMMA MatchedMore ==
  ASSUME NEW given \in Seq(Handoffs), NEW after \in Seq(Handoffs),
         NEW book, NEW later, Matched(given, book),
         NEW d \in 1..Len(given), NEW new \in PolicyIds,
         Len(after) = Len(given), \A n \in 1..Len(given) : n # d => after[n] = given[n],
         given[d].step # "opened", book[new].owner # Wallet, later[new].owner = Wallet,
         \A id \in PolicyIds : id # new => later[id] = book[id],
         OpenedInto(after[d], new, later)
  PROVE  Matched(after, later)
<1>1. after[d].step = "opened" /\ after[d].policyId = new
  BY DEF OpenedInto
<1>2. \A n \in 1..Len(given) : n # d /\ given[n].step = "opened" =>
         given[n].policyId \in PolicyIds /\ given[n].policyId # new
  BY DEF Matched
<1>3. \A n \in 1..Len(after) : after[n].step = "opened" =>
         after[n].policyId \in PolicyIds /\ later[after[n].policyId].owner = Wallet
  BY <1>1, <1>2 DEF Matched
<1>4. ASSUME NEW id \in PolicyIds, later[id].owner = Wallet
      PROVE  \E n \in 1..Len(after) : OpenedInto(after[n], id, later)
  <2>1. CASE id = new
    BY <2>1
  <2>2. CASE id # new
    <3>1. PICK n \in 1..Len(given) : OpenedInto(given[n], id, book)
      BY <1>4, <2>2 DEF Matched
    <3>2. n # d
      BY <3>1 DEF OpenedInto
    <3>3. OpenedInto(after[n], id, later)
      BY <2>2, <3>1, <3>2 DEF OpenedInto
    <3> QED BY <3>3
  <2> QED BY <2>1, <2>2
<1>5. \A m, n \in 1..Len(after) :
         m # n /\ after[m].step = "opened" /\ after[n].step = "opened" =>
            after[m].policyId # after[n].policyId
  BY <1>1, <1>2 DEF Matched
<1> QED BY <1>3, <1>4, <1>5 DEF Matched

\* The opening of a plan: a policy of the wallet with the terms of the plan and no
\* fewer shares than it asks for.
LEMMA PlannedOpening ==
  ASSUME IndInv, NEW plan \in Plans, OpenPlanned(plan)
  PROVE  /\ IndInv'
         /\ plan.terms.principalAssets + ProtectionFee <= allowance
         /\ nextPolicyId \in PolicyIds /\ policies[nextPolicyId].owner # Wallet
         /\ \E policy \in Policy :
               /\ policies' = [policies EXCEPT ![nextPolicyId] = policy]
               /\ policy.owner = Wallet
               /\ policy.principalAssets = plan.terms.principalAssets
               /\ policy.expiresAt - policy.openedAt = plan.terms.duration
               /\ plan.minimumShares <= policy.shares
<1> USE AccountsFacts, ManagerAssumption, IntentAssumption
<1>1. PICK principal, lossLimit, duration, minimumShares :
         /\ principal = plan.terms.principalAssets /\ lossLimit = plan.terms.lossLimitBps
         /\ duration = plan.terms.duration /\ minimumShares = plan.minimumShares
  OBVIOUS
<1>2. principal \in Nat /\ lossLimit \in Nat /\ duration \in Nat /\ minimumShares \in Nat
  BY <1>1, PlanFields, TermsTypes
<1>3. /\ OpenPolicy(Wallet, DemoVault, Wallet, principal, lossLimit, duration, minimumShares)
      /\ principal + ProtectionFee <= allowance
  BY <1>1 DEF OpenPlanned
<1>4. IndInv'
  BY <1>2, <1>3, OpenPolicyIndInv
<1>5. PICK shares, trigger :
         /\ shares = EntryShares(principal, CollectFee(Wallet, principal), DemoVault)
         /\ trigger = TriggerAssets(principal, lossLimit)
  OBVIOUS
<1>6. PICK policy : policy =
         [owner |-> Wallet, beneficiary |-> Wallet, vault |-> DemoVault,
          principalAssets |-> principal, shares |-> shares,
          triggerAssets |-> trigger, assetsReturned |-> 0, openedAt |-> now,
          expiresAt |-> now + duration, status |-> "Active"]
  OBVIOUS
<1>7. /\ nextPolicyId <= MaxPolicies /\ minimumShares <= shares
      /\ policies' = [policies EXCEPT ![nextPolicyId] = policy]
  BY <1>3, <1>5, <1>6 DEF OpenPolicy
<1>8. /\ policies \in [PolicyIds -> Policy] /\ nextPolicyId \in 1..(MaxPolicies + 1)
      /\ now \in Nat
      /\ policies' \in [PolicyIds -> Policy]
      /\ \A id \in PolicyIds : Exists(id) <=> id < nextPolicyId
  BY <1>4 DEF IndInv, TypeOK, PoliciesWellFormed
<1>9. nextPolicyId \in PolicyIds
  BY <1>7, <1>8 DEF PolicyIds
<1>10. policies[nextPolicyId].owner # Wallet
  <2>1. ~ Exists(nextPolicyId)
    BY <1>8, <1>9
  <2> QED BY <2>1 DEF Exists
<1>11. policy \in Policy
  <2>1. policies'[nextPolicyId] = policy
    BY <1>7, <1>8, <1>9
  <2> QED BY <1>8, <1>9, <2>1
<1>12. /\ policy.owner = Wallet /\ policy.principalAssets = principal
       /\ policy.shares = shares /\ policy.expiresAt - policy.openedAt = duration
  BY <1>2, <1>6, <1>8
<1> QED BY <1>1, <1>3, <1>4, <1>7, <1>9, <1>10, <1>11, <1>12

HandoffSteps(n, step) == handoffs' = [handoffs EXCEPT ![n].step = step]

\* A handoff of which the step alone changes.
LEMMA HandoffStep ==
  ASSUME handoffs \in Seq(Handoffs), NEW n \in 1..Len(handoffs),
         NEW step \in {"approve", "open", "opened", "reverted"}, HandoffSteps(n, step)
  PROVE  /\ handoffs' \in Seq(Handoffs) /\ Len(handoffs') = Len(handoffs)
         /\ \A m \in 1..Len(handoffs) :
               handoffs'[m] = IF m = n THEN [plan |-> handoffs[n].plan, step |-> step,
                                             policyId |-> handoffs[n].policyId]
                                       ELSE handoffs[m]
<1>1. PICK e : e = [plan |-> handoffs[n].plan, step |-> step,
                    policyId |-> handoffs[n].policyId]
  OBVIOUS
<1>2. handoffs[n] \in Handoffs
  BY ElementOfSeq
<1>3. e \in Handoffs
  BY <1>1, <1>2 DEF Handoffs
<1>4. handoffs' = [handoffs EXCEPT ![n] = e]
  <2>1. PICK D : D = 1..Len(handoffs)
    OBVIOUS
  <2>2. handoffs \in [D -> Handoffs] /\ n \in D
    BY <2>1, LenProperties
  <2>3. PICK updated : updated = [handoffs EXCEPT ![n] = e]
    OBVIOUS
  <2>4. handoffs'[n] = e
    BY <1>1, <1>2, <2>2 DEF Handoffs, HandoffSteps
  <2>5. handoffs' = [m \in D |-> handoffs'[m]] /\ updated = [m \in D |-> updated[m]]
    BY <2>2, <2>3 DEF HandoffSteps
  <2>6. \A m \in D : handoffs'[m] = updated[m]
    BY <2>2, <2>3, <2>4 DEF HandoffSteps
  <2>7. handoffs' = updated
    BY <2>5, <2>6
  <2> QED BY <2>3, <2>7
<1> QED BY <1>1, <1>3, <1>4, ExceptSeq

\* The types on which the other lemmas about agents rest.
LEMMA AgentTypes ==
  ASSUME IndInv, AgentInv
  PROVE  /\ handoffs \in Seq(Handoffs) /\ allowance \in Nat
         /\ policies \in [PolicyIds -> Policy]
         /\ Matched(handoffs, policies)
         /\ Taken(policies) \in Nat /\ Approved(handoffs) \in Nat
         /\ allowance + Taken(policies) <= Approved(handoffs)
<1>1. /\ handoffs \in Seq(Handoffs) /\ allowance \in Nat
      /\ policies \in [PolicyIds -> Policy]
  BY DEF AgentInv, IndInv, TypeOK
<1> QED BY <1>1, AgentInvReads, TakenFacts, ApprovedFacts

\* What is known of a handoff.
LEMMA HandoffFields ==
  ASSUME handoffs \in Seq(Handoffs), NEW n \in 1..Len(handoffs)
  PROVE  /\ handoffs[n] \in Handoffs /\ handoffs[n].plan \in Plans
         /\ handoffs[n].plan.authorizationAssets = Cost(handoffs[n].plan.terms.principalAssets)
         /\ Cost(handoffs[n].plan.terms.principalAssets) \in Nat
         /\ handoffs[n].plan.minimumShares = MinimumShares(handoffs[n].plan.seen.shares)
         /\ handoffs[n].plan.seen.shares \in Nat
<1>1. handoffs[n] \in Handoffs
  BY ElementOfSeq
<1>2. handoffs[n].plan \in Plans
  BY <1>1 DEF Handoffs
<1> QED BY <1>1, <1>2, PlanFields, TermsTypes

\* A plan that is given to an agent neither opens nor approves anything yet.
LEMMA HandOffKeepsAgents ==
  ASSUME IndInv, PageTypes, AgentInv, HandOff
  PROVE  AgentInv'
<1>1. PICK plan \in {clipboard, page.plan} \ {NoPlan} :
         handoffs' = Append(handoffs, [plan |-> plan, step |-> "approve", policyId |-> 0])
  BY DEF HandOff
<1>2. plan \in Plans
  BY <1>1 DEF PageTypes
<1>3. PICK new : new = [plan |-> plan, step |-> "approve", policyId |-> 0]
  OBVIOUS
<1>4. new \in Handoffs /\ new.step = "approve"
  BY <1>2, <1>3 DEF Handoffs
<1>5. /\ handoffs \in Seq(Handoffs) /\ allowance \in Nat
      /\ policies \in [PolicyIds -> Policy] /\ Matched(handoffs, policies)
      /\ allowance + Taken(policies) <= Approved(handoffs)
  BY AgentTypes
<1>6. policies' = policies /\ allowance' = allowance
  BY DEF HandOff, vars, managerVars
<1>7. /\ handoffs' = Append(handoffs, new) /\ handoffs' \in Seq(Handoffs)
      /\ Len(handoffs) \in Nat /\ Len(handoffs') = Len(handoffs) + 1
      /\ \A n \in 1..Len(handoffs) : handoffs'[n] = handoffs[n]
      /\ handoffs'[Len(handoffs) + 1] = new
  BY <1>1, <1>3, <1>4, <1>5, AppendProperties, LenProperties
<1>8. Approved(handoffs') = Approved(handoffs)
  BY <1>4, <1>5, <1>7, ApprovedAppend
<1>9. Matched(handoffs', policies')
  <2>1. \A n \in 1..Len(handoffs') : handoffs'[n].step = "opened" => n \in 1..Len(handoffs)
    BY <1>4, <1>7
  <2>2. \A id \in PolicyIds : SameTerms(policies'[id], policies[id])
    BY <1>6 DEF SameTerms
  <2>3. Len(handoffs) <= Len(handoffs')
    BY <1>7
  <2> QED BY <1>5, <1>7, <2>1, <2>2, <2>3, MatchedStill
<1>10. allowance' + Taken(policies') <= Approved(handoffs')
  BY <1>5, <1>6, <1>8
<1> QED BY <1>5, <1>6, <1>7, <1>9, <1>10, AgentInvReadsNext

\* An approval replaces the allowance by the cost of its own plan.
LEMMA ApproveKeepsAgents ==
  ASSUME IndInv, AgentInv, NEW n \in 1..Len(handoffs), Approve(n)
  PROVE  AgentInv'
<1>1. /\ handoffs \in Seq(Handoffs) /\ allowance \in Nat
      /\ policies \in [PolicyIds -> Policy] /\ Matched(handoffs, policies)
      /\ Taken(policies) \in Nat /\ Approved(handoffs) \in Nat
      /\ allowance + Taken(policies) <= Approved(handoffs)
  BY AgentTypes
<1>2. /\ handoffs[n].step = "approve" /\ HandoffSteps(n, "open")
      /\ allowance' = handoffs[n].plan.authorizationAssets /\ policies' = policies
  BY DEF Approve, HandoffSteps, vars, managerVars
<1>3. PICK cost : cost = Cost(handoffs[n].plan.terms.principalAssets)
  OBVIOUS
<1>4. cost \in Nat /\ allowance' = cost
  BY <1>1, <1>2, <1>3, HandoffFields
<1>5. PICK after : after = [plan |-> handoffs[n].plan, step |-> "open",
                            policyId |-> handoffs[n].policyId]
  OBVIOUS
<1>6. /\ handoffs' \in Seq(Handoffs) /\ Len(handoffs') = Len(handoffs)
      /\ \A m \in 1..Len(handoffs) : handoffs'[m] = IF m = n THEN after ELSE handoffs[m]
  <2>1. "open" \in {"approve", "open", "opened", "reverted"}
    OBVIOUS
  <2> QED BY ONLY <1>1, <1>2, <1>5, <2>1, n \in 1..Len(handoffs), HandoffStep
<1>7. HandoffCost(handoffs[n]) = 0 /\ HandoffCost(handoffs'[n]) = cost
  BY <1>2, <1>3, <1>5, <1>6 DEF HandoffCost
<1>8. Approved(handoffs') = Approved(handoffs) + HandoffCost(handoffs'[n])
                                               - HandoffCost(handoffs[n])
  BY <1>1, <1>6, ApprovedUpdate
<1>9. allowance' + Taken(policies') <= Approved(handoffs')
  <2>1. Approved(handoffs') = Approved(handoffs) + cost
    BY <1>1, <1>4, <1>7, <1>8
  <2>2. Taken(policies) <= Approved(handoffs)
    BY <1>1
  <2> QED BY <1>1, <1>2, <1>4, <2>1, <2>2
<1>10. Matched(handoffs', policies')
  <2>1. \A m \in 1..Len(handoffs) :
           \/ handoffs'[m] = handoffs[m]
           \/ handoffs'[m].step # "opened" /\ handoffs[m].step # "opened"
    BY <1>2, <1>5, <1>6
  <2>2. \A m \in 1..Len(handoffs') : handoffs'[m].step = "opened" => m \in 1..Len(handoffs)
    BY <1>6
  <2>3. \A id \in PolicyIds : SameTerms(policies'[id], policies[id])
    BY <1>2 DEF SameTerms
  <2>4. Len(handoffs) <= Len(handoffs')
    BY <1>1, <1>6, LenProperties
  <2> QED BY <1>1, <1>6, <2>1, <2>2, <2>3, <2>4, MatchedStill
<1> QED BY <1>1, <1>2, <1>4, <1>6, <1>9, <1>10, AgentInvReadsNext

\* An opening takes from the allowance what the policy costs, and a revert nothing.
LEMMA OpeningKeepsAgents ==
  ASSUME IndInv, AgentInv, NEW n \in 1..Len(handoffs), OpenOrRevert(n)
  PROVE  IndInv' /\ AgentInv'
<1>1. /\ handoffs \in Seq(Handoffs) /\ allowance \in Nat
      /\ policies \in [PolicyIds -> Policy] /\ Matched(handoffs, policies)
      /\ Taken(policies) \in Nat /\ Approved(handoffs) \in Nat
      /\ allowance + Taken(policies) <= Approved(handoffs)
  BY AgentTypes
<1>2. PICK plan : plan = handoffs[n].plan
  OBVIOUS
<1>3. PICK cost : cost = Cost(plan.terms.principalAssets)
  OBVIOUS
<1>4. plan \in Plans /\ cost \in Nat
  BY <1>1, <1>2, <1>3, HandoffFields
<1>5. handoffs[n].step = "open"
  BY DEF OpenOrRevert
<1>6. \/ /\ OpenPlanned(plan)
         /\ allowance' = allowance - cost
         /\ HandoffBecomes(n, "opened", nextPolicyId)
      \/ /\ HandoffSteps(n, "reverted")
         /\ UNCHANGED <<vars, allowance>>
  BY <1>2, <1>3 DEF OpenOrRevert, HandoffBecomes, HandoffSteps, Cost
<1>7. CASE OpenPlanned(plan) /\ allowance' = allowance - cost
           /\ HandoffBecomes(n, "opened", nextPolicyId)
  <2>1. /\ IndInv' /\ cost <= allowance
        /\ nextPolicyId \in PolicyIds /\ policies[nextPolicyId].owner # Wallet
    BY <1>3, <1>4, <1>7, PlannedOpening DEF Cost
  <2>2. PICK policy \in Policy :
               /\ policies' = [policies EXCEPT ![nextPolicyId] = policy]
               /\ policy.owner = Wallet
               /\ policy.principalAssets = plan.terms.principalAssets
               /\ policy.expiresAt - policy.openedAt = plan.terms.duration
               /\ plan.minimumShares <= policy.shares
    BY <1>4, <1>7, PlannedOpening
  <2>3. PICK id \in PolicyIds : id = nextPolicyId
    BY <2>1
  <2>4. id \in Nat
    BY PolicyIdsFinite
  <2>5. PICK after : after = [plan |-> plan, step |-> "opened", policyId |-> id]
    OBVIOUS
  <2>6. /\ handoffs' \in Seq(Handoffs) /\ Len(handoffs') = Len(handoffs)
        /\ \A m \in 1..Len(handoffs) : handoffs'[m] = IF m = n THEN after ELSE handoffs[m]
    <3>1. "opened" \in {"approve", "open", "opened", "reverted"}
      OBVIOUS
    <3>2. HandoffBecomes(n, "opened", id)
      BY <1>7, <2>3
    <3> QED BY ONLY <1>1, <1>2, <2>4, <2>5, <3>1, <3>2, n \in 1..Len(handoffs), HandoffUpdate
  <2>7. /\ policies' \in [PolicyIds -> Policy] /\ policies'[id] = policy
        /\ \A i \in PolicyIds : i # id => policies'[i] = policies[i]
    BY <1>1, <2>2, <2>3
  <2>8. handoffs'[n] = after /\ \A m \in 1..Len(handoffs) : m # n => handoffs'[m] = handoffs[m]
    BY <2>6
  <2>9. Matched(handoffs', policies')
    <3>1. policy.shares \in Nat /\ plan.seen.shares \in Nat
          /\ plan.minimumShares = MinimumShares(plan.seen.shares)
      BY <1>4, PlanFields DEF Policy
    <3>2. policy.shares * BpsDenominator + BpsDenominator
             > plan.seen.shares * (BpsDenominator - EntrySlippageBps)
      <4>1. PICK least \in Nat : least = MinimumShares(plan.seen.shares)
        BY <3>1, MinimumIsDisclosed
      <4>2. plan.seen.shares * (BpsDenominator - EntrySlippageBps)
               < least * BpsDenominator + BpsDenominator
        BY <3>1, <4>1, MinimumIsDisclosed
      <4>3. least <= policy.shares
        BY <2>2, <3>1, <4>1
      <4> QED BY <3>1, <4>2, <4>3 DEF BpsDenominator, EntrySlippageBps
    <3>3. OpenedInto(handoffs'[n], id, policies')
      BY <2>2, <2>5, <2>7, <2>8, <3>2 DEF OpenedInto
    <3>4. handoffs[n].step # "opened"
      BY <1>5
    <3>5. policies[id].owner # Wallet /\ policies'[id].owner = Wallet
      BY <2>1, <2>2, <2>3, <2>7
    <3> QED BY <1>1, <2>6, <2>7, <2>8, <3>3, <3>4, <3>5, MatchedMore
  <2>10. Taken(policies') = Taken(policies) + cost
    <3>1. PolicyCost(policies'[id]) = cost
      BY <1>3, <2>2, <2>7 DEF PolicyCost
    <3>2. PolicyCost(policies[id]) = 0
      BY <2>1, <2>3 DEF PolicyCost
    <3>3. Taken(policies') = Taken(policies) + PolicyCost(policies'[id])
                                             - PolicyCost(policies[id])
      BY <1>1, <2>7, TakenUpdate
    <3> QED BY <1>1, <1>4, <3>1, <3>2, <3>3
  <2>11. Approved(handoffs') = Approved(handoffs)
    <3>1. HandoffCost(handoffs[n]) = cost /\ HandoffCost(handoffs'[n]) = cost
      BY <1>2, <1>3, <1>5, <2>5, <2>8 DEF HandoffCost
    <3>2. Approved(handoffs') = Approved(handoffs) + HandoffCost(handoffs'[n])
                                                   - HandoffCost(handoffs[n])
      BY <1>1, <2>6, <2>8, ApprovedUpdate
    <3> QED BY <1>1, <1>4, <3>1, <3>2
  <2>12. allowance' \in Nat /\ allowance' + Taken(policies') <= Approved(handoffs')
    BY <1>1, <1>4, <1>7, <2>1, <2>10, <2>11
  <2>13. AgentInv'
    BY <2>6, <2>7, <2>9, <2>12, AgentInvReadsNext
  <2> QED BY <2>1, <2>13
<1>8. CASE HandoffSteps(n, "reverted") /\ UNCHANGED <<vars, allowance>>
  <2>1. policies' = policies /\ allowance' = allowance
    BY <1>8 DEF vars, managerVars
  <2>2. IndInv'
    BY <1>8, NextIndInv
  <2>3. PICK after : after = [plan |-> handoffs[n].plan, step |-> "reverted",
                              policyId |-> handoffs[n].policyId]
    OBVIOUS
  <2>4. /\ handoffs' \in Seq(Handoffs) /\ Len(handoffs') = Len(handoffs)
        /\ \A m \in 1..Len(handoffs) : handoffs'[m] = IF m = n THEN after ELSE handoffs[m]
    <3>1. "reverted" \in {"approve", "open", "opened", "reverted"}
      OBVIOUS
    <3> QED BY ONLY <1>1, <1>8, <2>3, <3>1, n \in 1..Len(handoffs), HandoffStep
  <2>5. Approved(handoffs') = Approved(handoffs)
    <3>1. HandoffCost(handoffs[n]) = cost /\ HandoffCost(handoffs'[n]) = cost
      BY <1>2, <1>3, <1>5, <2>3, <2>4 DEF HandoffCost
    <3>2. Approved(handoffs') = Approved(handoffs) + HandoffCost(handoffs'[n])
                                                   - HandoffCost(handoffs[n])
      BY <1>1, <2>4, ApprovedUpdate
    <3> QED BY <1>1, <1>4, <3>1, <3>2
  <2>6. Matched(handoffs', policies')
    <3>1. \A m \in 1..Len(handoffs) :
             \/ handoffs'[m] = handoffs[m]
             \/ handoffs'[m].step # "opened" /\ handoffs[m].step # "opened"
      BY <1>5, <2>3, <2>4
    <3>2. \A m \in 1..Len(handoffs') : handoffs'[m].step = "opened" => m \in 1..Len(handoffs)
      BY <2>4
    <3>3. \A id \in PolicyIds : SameTerms(policies'[id], policies[id])
      BY <2>1 DEF SameTerms
    <3>4. Len(handoffs) <= Len(handoffs')
      BY <1>1, <2>4, LenProperties
    <3> QED BY <1>1, <2>4, <3>1, <3>2, <3>3, <3>4, MatchedStill
  <2>7. allowance' + Taken(policies') <= Approved(handoffs')
    BY <1>1, <2>1, <2>5
  <2>8. AgentInv'
    BY <1>1, <2>1, <2>4, <2>6, <2>7, AgentInvReadsNext
  <2> QED BY <2>2, <2>8
<1> QED BY <1>6, <1>7, <1>8

\* What others do on the chain leaves the wallet's policies their terms.
LEMMA OthersKeepAgents ==
  ASSUME IndInv, AgentInv, OpenByOther \/ Exit \/ Admin \/ Outside \/ Tick,
         handoffs' = handoffs, allowance' = allowance
  PROVE  IndInv' /\ AgentInv'
<1>1. /\ handoffs \in Seq(Handoffs) /\ allowance \in Nat
      /\ policies \in [PolicyIds -> Policy] /\ Matched(handoffs, policies)
      /\ Taken(policies) \in Nat /\ Approved(handoffs) \in Nat
      /\ allowance + Taken(policies) <= Approved(handoffs)
  BY AgentTypes
<1>2. IndInv'
  BY NextIndInv, OtherOpening DEF Next
<1>3. policies' \in [PolicyIds -> Policy]
  BY <1>2 DEF IndInv, TypeOK
<1>4. \A id \in PolicyIds : SameTerms(policies'[id], policies[id])
  BY OthersKeepTerms
<1>5. Matched(handoffs', policies')
  <2>1. Len(handoffs) <= Len(handoffs')
    BY <1>1, LenProperties
  <2>2. \A m \in 1..Len(handoffs') : handoffs'[m].step = "opened" => m \in 1..Len(handoffs)
    OBVIOUS
  <2>3. handoffs' \in Seq(Handoffs)
    BY <1>1
  <2>4. \A m \in 1..Len(handoffs) : handoffs'[m] = handoffs[m]
    OBVIOUS
  <2> QED BY <1>1, <1>4, <2>1, <2>2, <2>3, <2>4, MatchedStill
<1>6. Taken(policies') = Taken(policies)
  <2>1. \A id \in PolicyIds : PolicyCost(policies'[id]) = PolicyCost(policies[id])
    BY <1>4 DEF PolicyCost, SameTerms
  <2>2. [id \in PolicyIds |-> PolicyCost(policies'[id])]
           = [id \in PolicyIds |-> PolicyCost(policies[id])]
    BY <2>1
  <2> QED BY <2>2 DEF Taken
<1>7. AgentInv'
  BY <1>1, <1>3, <1>5, <1>6, AgentInvReadsNext
<1> QED BY <1>2, <1>7

\* The page and the endpoint change nothing on the chain.
LEMMA PageKeepsAgents ==
  ASSUME IndInv, AgentInv, ChainStands
  PROVE  IndInv' /\ AgentInv'
<1>1. UNCHANGED vars /\ policies' = policies /\ allowance' = allowance /\ handoffs' = handoffs
  BY DEF ChainStands, vars, managerVars
<1>2. IndInv'
  BY <1>1, NextIndInv
<1>3. AgentInv'
  BY <1>1 DEF AgentInv, OpenedBy, OwnPolicies, OpenedAsVerified, SpendIsAuthorized
<1> QED BY <1>2, <1>3

-----------------------------------------------------------------------------
(* The theorems.                                                            *)

\* The page, the agents and the chain begin in a state of the invariant.
LEMMA InitIntentInv == IntentInit => IntentInv
<1> SUFFICES ASSUME IntentInit PROVE IntentInv
  OBVIOUS
<1>1. IndInv
  <2>1. isVaultAllowed \in [Vaults -> BOOLEAN]
    BY DEF IntentInit
  <2> QED BY <2>1, FreshIndInv DEF IntentInit
<1>2. PageInv
  <2>1. /\ draft \in Terms /\ page = Showing("draft") /\ requests = <<>>
        /\ copying = {} /\ copied = FALSE /\ clipboard = NoPlan /\ outrun = FALSE
    BY DEF IntentInit
  <2>2. Len(requests) = 0 /\ requests \in Seq(Requests)
    BY <2>1, EmptySeq
  <2>3. PageTypes
    <3>1. /\ page \in [kind : {"draft", "preparing", "ready", "failed"}, plan : Plans \cup {NoPlan}]
          /\ page.kind # "ready"
      BY <2>1 DEF Showing
    <3>2. \A n \in 1..Len(requests) :
             requests[n].plan # NoPlan => requests[n].plan.terms = requests[n].terms
      BY <2>2
    <3> QED BY <2>1, <2>2, <3>1, <3>2 DEF PageTypes
  <2>4. FormOrderly
    BY <2>1, <2>2 DEF FormOrderly, Showing
  <2> QED BY <2>3, <2>4 DEF PageInv
<1>3. AgentInv
  <2>1. /\ handoffs = <<>> /\ allowance = 0
        /\ policies = [id \in PolicyIds |-> NoPolicy]
    BY DEF IntentInit
  <2>2. Len(handoffs) = 0 /\ handoffs \in Seq(Handoffs)
    BY <2>1, EmptySeq
  <2>3. policies \in [PolicyIds -> Policy]
    BY <1>1 DEF IndInv, TypeOK
  <2>4. \A id \in PolicyIds : policies[id].owner # Wallet
    BY <2>1, IntentAssumption, ManagerAssumption, AccountsFacts DEF NoPolicy
  <2>5. Matched(handoffs, policies)
    BY <2>2, <2>4 DEF Matched
  <2>6. Taken(policies) = 0
    <3>1. PICK f : f = [id \in PolicyIds |-> PolicyCost(policies[id])]
      OBVIOUS
    <3>2. \A id \in PolicyIds : f[id] = 0
      BY <2>4, <3>1 DEF PolicyCost
    <3>3. SumFunctionOnSet(f, PolicyIds) = 0
      BY <3>2, PolicyIdsFinite, SumOfZeros
    <3> QED BY <3>1, <3>3 DEF Taken
  <2>7. allowance + Taken(policies) <= Approved(handoffs)
    <3>1. Approved(handoffs) \in Nat
      BY <2>2, ApprovedFacts
    <3> QED BY <2>1, <2>6, <3>1
  <2>8. allowance \in Nat
    BY <2>1
  <2> QED BY <2>2, <2>3, <2>5, <2>7, <2>8, AgentInvReads
<1> QED BY <1>1, <1>2, <1>3 DEF IntentInv

\* Every step keeps the invariant.
LEMMA NextIntentInv == IntentInv /\ [IntentNext]_intentVars => IntentInv'
<1> SUFFICES ASSUME IntentInv, [IntentNext]_intentVars PROVE IntentInv'
  OBVIOUS
<1>0. IndInv /\ PageInv /\ PageTypes /\ AgentInv
  BY DEF IntentInv, PageInv
<1>1. CASE \E terms \in Terms : EditDraft(terms)
  <2>1. PageInv' /\ ChainStands
    BY <1>0, <1>1, EditKeepsPage DEF EditDraft
  <2> QED BY <1>0, <2>1, PageKeepsAgents DEF IntentInv
<1>2. CASE Refuse
  <2>1. PageInv' /\ ChainStands
    BY <1>0, <1>2, RefuseKeepsPage DEF Refuse
  <2> QED BY <1>0, <2>1, PageKeepsAgents DEF IntentInv
<1>3. CASE Submit
  <2>1. PageInv' /\ ChainStands
    BY <1>0, <1>3, SubmitKeepsPage DEF Submit
  <2> QED BY <1>0, <2>1, PageKeepsAgents DEF IntentInv
<1>4. CASE StartCopy \/ EndCopy
  <2>1. PageInv' /\ ChainStands
    BY <1>0, <1>4, CopyKeepsPage DEF StartCopy, EndCopy
  <2> QED BY <1>0, <2>1, PageKeepsAgents DEF IntentInv
<1>5. CASE \E n \in 1..Len(requests) : Serve(n)
  <2>1. PageInv' /\ ChainStands
    BY <1>0, <1>5, ServeKeepsPage DEF Serve
  <2> QED BY <1>0, <2>1, PageKeepsAgents DEF IntentInv
<1>6. CASE \E n \in 1..Len(requests) : Answer(n)
  <2>1. PageInv' /\ ChainStands
    BY <1>0, <1>6, AnswerKeepsPage DEF Answer
  <2> QED BY <1>0, <2>1, PageKeepsAgents DEF IntentInv
<1>7. CASE HandOff
  <2>1. UNCHANGED pageVars /\ UNCHANGED vars
    BY <1>7 DEF HandOff, pageVars, vars
  <2>2. IndInv' /\ AgentInv' /\ PageInv'
    BY <1>0, <1>7, <2>1, NextIndInv, HandOffKeepsAgents, ElsewhereKeepsPage
  <2> QED BY <2>2 DEF IntentInv
<1>8. CASE OthersMove
  <2>1. /\ UNCHANGED pageVars /\ handoffs' = handoffs /\ allowance' = allowance
        /\ OpenByOther \/ Exit \/ Admin \/ Outside \/ Tick
    BY <1>8 DEF OthersMove, pageVars
  <2>2. IndInv' /\ AgentInv' /\ PageInv'
    BY <1>0, <2>1, OthersKeepAgents, ElsewhereKeepsPage
  <2> QED BY <2>2 DEF IntentInv
<1>9. CASE \E n \in 1..Len(handoffs) : Approve(n)
  <2>1. UNCHANGED pageVars /\ UNCHANGED vars
    BY <1>9 DEF Approve, pageVars, vars
  <2>2. IndInv' /\ AgentInv' /\ PageInv'
    BY <1>0, <1>9, <2>1, NextIndInv, ApproveKeepsAgents, ElsewhereKeepsPage
  <2> QED BY <2>2 DEF IntentInv
<1>10. CASE \E n \in 1..Len(handoffs) : OpenOrRevert(n)
  <2>1. UNCHANGED pageVars
    BY <1>10 DEF OpenOrRevert, pageVars
  <2>2. IndInv' /\ AgentInv' /\ PageInv'
    BY <1>0, <1>10, <2>1, OpeningKeepsAgents, ElsewhereKeepsPage
  <2> QED BY <2>2 DEF IntentInv
<1>11. CASE UNCHANGED intentVars
  <2>1. UNCHANGED pageVars /\ UNCHANGED vars
    BY <1>11 DEF intentVars, pageVars, vars
  <2>2. IndInv' /\ PageInv'
    BY <1>0, <2>1, NextIndInv, ElsewhereKeepsPage
  <2>3. policies' = policies /\ allowance' = allowance /\ handoffs' = handoffs
    BY <1>11 DEF intentVars, vars, managerVars
  <2>4. AgentInv'
    BY <1>0, <2>3 DEF AgentInv, OpenedBy, OwnPolicies, OpenedAsVerified, SpendIsAuthorized
  <2> QED BY <2>2, <2>4 DEF IntentInv
<1> QED BY <1>1, <1>2, <1>3, <1>4, <1>5, <1>6, <1>7, <1>8, <1>9, <1>10, <1>11 DEF IntentNext

\* The inductive invariant holds in every reachable state.
THEOREM IntentInvariance == IntentSpec => []IntentInv
  BY InitIntentInv, NextIntentInv, PTL DEF IntentSpec

\* A plan called verified is that of the form beside it, unless something was pending
\* when the page moved on: policy-builder.tsx:86-121.
THEOREM PlanBelongsToForm == IntentSpec => []PlanIsOfDraft
<1>1. IntentInv => PlanIsOfDraft
  BY DEF IntentInv, PageInv, FormOrderly, PlanIsOfDraft
<1> QED BY <1>1, IntentInvariance, PTL

\* What an agent opened is what was verified, and each handoff opened at most one
\* policy of its own.
THEOREM OpeningsAreVerified == IntentSpec => []OpenedAsVerified
<1>1. IntentInv => OpenedAsVerified
  BY DEF IntentInv, AgentInv
<1> QED BY <1>1, IntentInvariance, PTL

\* However many agents run, however their calls interleave and revert, the wallet paid
\* and still allows no more than the approved plans cost.
THEOREM SpendingIsAuthorized == IntentSpec => []SpendIsAuthorized
<1>1. IntentInv => SpendIsAuthorized
  BY DEF IntentInv, AgentInv
<1> QED BY <1>1, IntentInvariance, PTL

\* Every condition that openPolicy, the token and the vault make on the state before
\* the opening of a plan.  The rest of OpenPlanned assigns the new state.
Admits(plan) ==
    LET principal == plan.terms.principalAssets
        lossLimit == plan.terms.lossLimitBps
        duration == plan.terms.duration
        ledger == CollectFee(Wallet, principal)
    IN /\ principal + ProtectionFee <= allowance
       /\ ~ paused
       /\ nextPolicyId <= MaxPolicies /\ now + duration <= Horizon
       /\ ValidRequest(DemoVault, Wallet, principal, lossLimit, duration, plan.minimumShares)
       /\ principal + ProtectionFee <= usdc[Wallet]
       /\ principal <= MaxDeposit(ledger[DemoVault])
       /\ plan.minimumShares <= EntryShares(principal, ledger, DemoVault)
       /\ TriggerAssets(principal, lossLimit) # 0
       /\ activeSharesByVault[DemoVault] <= shareOf[DemoVault][Manager]

\* The premises of VerifiedPlanOpens.
StillVerified(plan) ==
    /\ plan.authorizationAssets = allowance
    /\ plan.seen = Observed(plan.terms) /\ treasury # DemoVault
    /\ TriggerAssets(plan.terms.principalAssets, plan.terms.lossLimitBps) # 0
    /\ nextPolicyId <= MaxPolicies /\ now + plan.terms.duration <= Horizon

\* The contract's conditions follow from the plan's checks.
LEMMA VerifiedIsAdmitted ==
  ASSUME IndInv, NEW plan \in Plans, StillVerified(plan)
  PROVE  Admits(plan)
<1> USE AccountsFacts, ManagerAssumption, IntentAssumption
<1>1. PICK principal, lossLimit, duration :
         /\ principal = plan.terms.principalAssets /\ lossLimit = plan.terms.lossLimitBps
         /\ duration = plan.terms.duration
  OBVIOUS
<1>2. principal \in Nat /\ lossLimit \in Nat /\ duration \in Nat
  BY <1>1, PlanFields, TermsTypes
<1>3. PICK seen : seen = plan.seen
  OBVIOUS
<1>4. /\ ~ paused /\ isVaultAllowed[DemoVault]
      /\ 0 < principal /\ principal <= MaxPrincipal
      /\ MinDuration <= duration /\ duration <= MaxDuration
      /\ MinLossLimit <= lossLimit /\ lossLimit <= MaxLossLimit
      /\ principal <= MaxDeposit(usdc[DemoVault])
      /\ principal + ProtectionFee <= usdc[Wallet]
      /\ seen.shares = ToShares(principal, usdc[DemoVault], supply[DemoVault])
      /\ plan.minimumShares = MinimumShares(seen.shares)
      /\ MinimumShares(seen.shares) > 0
  <2>1. ValidIntent(plan.terms) /\ Plannable(plan.terms, seen)
        /\ plan.minimumShares = MinimumShares(seen.shares)
    BY <1>3, PlanFields
  <2>2. /\ seen.paused = paused /\ seen.allowed = isVaultAllowed[DemoVault]
        /\ seen.capacity = MaxDeposit(usdc[DemoVault]) /\ seen.balance = usdc[Wallet]
        /\ seen.shares = ToShares(principal, usdc[DemoVault], supply[DemoVault])
    BY <1>1, <1>3 DEF StillVerified, Observed
  <2> QED BY <1>1, <2>1, <2>2 DEF ValidIntent, Plannable
<1>5. PICK ledger : ledger = CollectFee(Wallet, principal)
  OBVIOUS
<1>6. ledger[DemoVault] = usdc[DemoVault]
  <2>1. /\ usdc \in [Accounts -> Nat] /\ DemoVault \in Accounts
        /\ treasury # DemoVault /\ Manager # DemoVault /\ Wallet # DemoVault
    BY VaultAssumption DEF IndInv, TypeOK, VaultTypeOK, StillVerified
  <2> QED BY <1>2, <1>5, <2>1 DEF CollectFee, Move
<1>7. seen.shares \in Nat
  BY <1>3, PlanFields
<1>8. plan.minimumShares <= EntryShares(principal, ledger, DemoVault)
  <2>1. PICK shares \in Nat : shares = seen.shares
    BY <1>7
  <2>2. MinimumShares(shares) <= shares
    BY DEF MinimumShares, BpsDenominator, EntrySlippageBps
  <2> QED BY <1>4, <1>6, <2>1, <2>2 DEF EntryShares
<1>9. ValidRequest(DemoVault, Wallet, principal, lossLimit, duration, plan.minimumShares)
  <2>1. Wallet \notin {Manager, DemoVault}
    BY VaultAssumption
  <2>2. plan.minimumShares # 0
    BY <1>4, <1>7, MinimumIsDisclosed
  <2> QED BY <1>4, <2>1, <2>2 DEF ValidRequest
<1>10. principal + ProtectionFee <= allowance
  <2>1. plan.authorizationAssets = principal + ProtectionFee
    BY <1>1, PlanFields DEF Cost
  <2>2. allowance = principal + ProtectionFee
    BY <2>1 DEF StillVerified
  <2> QED BY <1>2, <2>2
<1>11. activeSharesByVault[DemoVault] <= shareOf[DemoVault][Manager]
  BY DEF IndInv, ShareCustody
<1>12. principal <= MaxDeposit(ledger[DemoVault])
  BY <1>4, <1>6
<1> QED BY <1>1, <1>4, <1>5, <1>8, <1>9, <1>10, <1>11, <1>12 DEF Admits, StillVerified

\* The checks of the plan are those of the contract: whatever happened since, an agent
\* that finds the chain as its plan was verified against meets no condition of the
\* opening that fails, but the two that the plan does not check.
THEOREM VerifiedPlanIsAdmitted ==
  IntentSpec => [](\A n \in 1..Len(handoffs) :
                      StillVerified(handoffs[n].plan) => Admits(handoffs[n].plan))
<1>1. ASSUME IntentInv, NEW n \in 1..Len(handoffs), StillVerified(handoffs[n].plan)
      PROVE  Admits(handoffs[n].plan)
  <2>1. IndInv /\ handoffs \in Seq(Handoffs)
    BY <1>1 DEF IntentInv, AgentInv
  <2> QED BY <1>1, <2>1, HandoffFields, VerifiedIsAdmitted
<1>2. IntentInv => \A n \in 1..Len(handoffs) :
                      StillVerified(handoffs[n].plan) => Admits(handoffs[n].plan)
  BY <1>1
<1> QED BY <1>2, IntentInvariance, PTL
=============================================================================
