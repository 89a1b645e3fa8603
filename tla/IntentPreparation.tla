------------------------- MODULE IntentPreparation -------------------------
(***************************************************************************)
(* From the policy builder's form to an open policy: the page, the         *)
(* preparation endpoint that reads the chain and writes the plan, and the  *)
(* wallet's agent that executes the plan against ProtectionManager.        *)
(*                                                                         *)
(* The page runs between awaits, and answers come in any order.  The agent *)
(* is external: it executes the two calls of a plan in order, and may stop *)
(* at any time.  Intent identifiers, block and policy numbers shown beside *)
(* a plan, and texts are left out.                                         *)
(***************************************************************************)
EXTENDS ProtectionManager, Sequences

CONSTANTS Wallet, DemoVault,
          MinIntentDuration, MaxIntentDuration,  \* the schema's window
          PageCap,      \* the largest principal the page asks for
          MaxRequests,  \* bound: preparations ever requested
          MaxHandoffs,  \* bound: plans ever given to an agent
          MaxMoves      \* bound: steps of others on the chain

EntrySlippageBps == 100

Terms == [principalAssets : Principals, lossLimitBps : LossLimits, duration : Durations]

ASSUME IntentAssumption ==
    /\ Wallet \in Users /\ DemoVault \in Vaults
    /\ MinIntentDuration \in Nat /\ MaxIntentDuration \in Nat /\ PageCap \in Nat
    /\ MaxRequests \in Nat /\ MaxHandoffs \in Nat /\ MaxMoves \in Nat

VARIABLES allowance,   \* USDC the manager may take from the wallet
          draft,       \* the terms in the form
          page,        \* the PreparationState shown beside the form
          requests,    \* preparations, in the order they were sent
          copying,     \* the plans that pending clipboard writes are for
          copied,      \* the mark "Agent instruction copied"
          clipboard,   \* the plan last copied
          handoffs,    \* plans given to an agent, and how far it is
          moves,
          outrun       \* an answer or a clipboard write was pending when the page moved on

pageVars == <<draft, page, requests, copying, copied, clipboard, outrun>>
intentVars == <<vars, allowance, pageVars, handoffs, moves>>

NoPlan == [none |-> TRUE]
Showing(kind) == [kind |-> kind, plan |-> NoPlan]

IntentInit ==
    /\ VaultInit
    /\ policies = [id \in PolicyIds |-> NoPolicy] /\ nextPolicyId = 1
    /\ activeSharesByVault = [v \in Vaults |-> 0]
    /\ isVaultAllowed = [v \in Vaults |-> TRUE]
    /\ treasury = FirstTreasury /\ paused = FALSE /\ now = 0
    /\ allowance = 0
    /\ draft \in Terms /\ page = Showing("draft") /\ requests = <<>>
    /\ copying = {} /\ copied = FALSE /\ clipboard = NoPlan
    /\ handoffs = <<>> /\ moves = 0 /\ outrun = FALSE

-----------------------------------------------------------------------------
(* The plan.                                                                *)

\* policyIntentSchema, for the page's own wallet and vault.
ValidIntent(terms) ==
    /\ 0 < terms.principalAssets
    /\ terms.lossLimitBps \in 1..5000
    /\ terms.duration \in MinIntentDuration..MaxIntentDuration

\* What one multicall reads of the chain.
Observed(terms) ==
    [paused   |-> paused,
     allowed  |-> isVaultAllowed[DemoVault],
     capacity |-> MaxDeposit(usdc[DemoVault]),
     shares   |-> ToShares(terms.principalAssets, usdc[DemoVault], supply[DemoVault]),
     balance  |-> usdc[Wallet]]

\* Mutant: the plan asks for whatever the vault gives.
MinimumSharesOne(shares) == IF shares > 1 THEN 1 ELSE 0

MinimumShares(shares) ==
    (shares * (BpsDenominator - EntrySlippageBps)) \div BpsDenominator

\* Mutant: the fee is not part of what the wallet needs.
PlannableWithoutFee(terms, seen) ==
    /\ ~ seen.paused /\ seen.allowed
    /\ terms.principalAssets <= MaxPrincipal
    /\ MinDuration <= terms.duration /\ terms.duration <= MaxDuration
    /\ MinLossLimit <= terms.lossLimitBps /\ terms.lossLimitBps <= MaxLossLimit
    /\ terms.principalAssets <= seen.capacity
    /\ terms.principalAssets <= seen.balance
    /\ MinimumShares(seen.shares) > 0

\* The checks of createPolicyExecutionPlan.
Plannable(terms, seen) ==
    /\ ~ seen.paused /\ seen.allowed
    /\ terms.principalAssets <= MaxPrincipal
    /\ MinDuration <= terms.duration /\ terms.duration <= MaxDuration
    /\ MinLossLimit <= terms.lossLimitBps /\ terms.lossLimitBps <= MaxLossLimit
    /\ terms.principalAssets <= seen.capacity
    /\ terms.principalAssets + ProtectionFee <= seen.balance
    /\ MinimumShares(seen.shares) > 0

\* Mutant: an authorization that is not exact.
RoundedPlan(terms, seen) ==
    [terms |-> terms, seen |-> seen, minimumShares |-> MinimumShares(seen.shares),
     authorizationAssets |-> 2 * terms.principalAssets]

\* The two calls: approve(manager, authorizationAssets) and openPolicy with the
\* terms and minimumShares.
Plan(terms, seen) ==
    [terms |-> terms, seen |-> seen, minimumShares |-> MinimumShares(seen.shares),
     authorizationAssets |-> terms.principalAssets + ProtectionFee]

\* The endpoint's answer: a plan, or an error.
Prepared(terms) ==
    LET seen == Observed(terms)
    IN IF ValidIntent(terms) /\ Plannable(terms, seen) THEN Plan(terms, seen) ELSE NoPlan

-----------------------------------------------------------------------------
(* The page and the endpoint.                                               *)

ChainStands == UNCHANGED <<vars, allowance, handoffs, moves>>

Pending(n) == requests[n].stage # "done"
SomethingPending == copying # {} \/ \E n \in 1..Len(requests) : Pending(n)

\* Mutant: a prepared plan stays when the form changes.
EditDraftOnly(terms) ==
    /\ terms # draft
    /\ draft' = terms /\ copied' = FALSE
    /\ outrun' = (outrun \/ SomethingPending)
    /\ UNCHANGED <<page, requests, copying, clipboard>> /\ ChainStands

EditDraft(terms) ==
    /\ terms # draft
    /\ draft' = terms /\ page' = Showing("draft") /\ copied' = FALSE
    /\ outrun' = (outrun \/ SomethingPending)
    /\ UNCHANGED <<requests, copying, clipboard>> /\ ChainStands

MayRequest == ValidIntent(draft) /\ draft.principalAssets <= PageCap

\* The button is disabled while a preparation is shown to be under way.
Refuse == /\ page.kind # "preparing" /\ ~ MayRequest
          /\ page' = Showing("failed")
          /\ UNCHANGED <<draft, requests, copying, copied, clipboard, outrun>>
          /\ ChainStands

\* Mutant: the mark of an earlier copy stays.
SubmitStillCopied ==
    /\ page.kind # "preparing" /\ MayRequest /\ Len(requests) < MaxRequests
    /\ requests' = Append(requests, [terms |-> draft, stage |-> "sent", plan |-> NoPlan])
    /\ page' = Showing("preparing")
    /\ outrun' = (outrun \/ SomethingPending)
    /\ UNCHANGED <<draft, copying, copied, clipboard>> /\ ChainStands

Submit ==
    /\ page.kind # "preparing" /\ MayRequest /\ Len(requests) < MaxRequests
    /\ requests' = Append(requests, [terms |-> draft, stage |-> "sent", plan |-> NoPlan])
    /\ page' = Showing("preparing") /\ copied' = FALSE
    /\ outrun' = (outrun \/ SomethingPending)
    /\ UNCHANGED <<draft, copying, clipboard>> /\ ChainStands

\* The endpoint reads the chain and answers, or cannot read it.
Serve(n) ==
    /\ requests[n].stage = "sent"
    /\ \E plan \in {Prepared(requests[n].terms), NoPlan} :
          requests' = [requests EXCEPT ![n].stage = "served", ![n].plan = plan]
    /\ UNCHANGED <<draft, page, copying, copied, clipboard, outrun>> /\ ChainStands

\* The answer is shown whatever the form holds by now.
Answer(n) ==
    /\ requests[n].stage = "served"
    /\ requests' = [requests EXCEPT ![n].stage = "done", ![n].plan = NoPlan]
    /\ page' = IF requests[n].plan = NoPlan THEN Showing("failed")
               ELSE [kind |-> "ready", plan |-> requests[n].plan]
    /\ UNCHANGED <<draft, copying, copied, clipboard, outrun>> /\ ChainStands

\* The button stays enabled while writes are pending: each plan may have any number.
StartCopy == /\ page.kind = "ready"
             /\ copying' = copying \cup {page.plan}
             /\ UNCHANGED <<draft, page, requests, copied, clipboard, outrun>>
             /\ ChainStands

\* The browser writes the clipboard, or refuses to; it may have been the last
\* pending write of its plan or not.
EndCopy == \E plan \in copying :
             /\ copying' \in {copying, copying \ {plan}}
             /\ \/ clipboard' = plan /\ copied' = TRUE
                \/ UNCHANGED <<clipboard, copied>>
             /\ UNCHANGED <<draft, page, requests, outrun>> /\ ChainStands

-----------------------------------------------------------------------------
(* The agent, and everybody else on the chain.                              *)

\* The instruction is pasted, or the calls are copied by hand.
HandOff ==
    /\ Len(handoffs) < MaxHandoffs
    /\ \E plan \in {clipboard, page.plan} \ {NoPlan} :
          handoffs' = Append(handoffs, [plan |-> plan, step |-> "approve", policyId |-> 0])
    /\ UNCHANGED <<vars, allowance, moves, pageVars>>

Approve(n) ==
    /\ handoffs[n].step = "approve"
    /\ allowance' = handoffs[n].plan.authorizationAssets
    /\ handoffs' = [handoffs EXCEPT ![n].step = "open"]
    /\ UNCHANGED <<vars, moves, pageVars>>

OpenPlanned(plan) ==
    /\ plan.terms.principalAssets + ProtectionFee <= allowance
    /\ OpenPolicy(Wallet, DemoVault, Wallet, plan.terms.principalAssets,
                  plan.terms.lossLimitBps, plan.terms.duration, plan.minimumShares)

OpenOrRevert(n) ==
    LET plan == handoffs[n].plan IN
    /\ handoffs[n].step = "open"
    /\ \/ /\ OpenPlanned(plan)
          /\ allowance' = allowance - (plan.terms.principalAssets + ProtectionFee)
          /\ handoffs' = [handoffs EXCEPT ![n].step = "opened", ![n].policyId = nextPolicyId]
       \/ /\ ~ ENABLED OpenPlanned(plan)
          /\ handoffs' = [handoffs EXCEPT ![n].step = "reverted"]
          /\ UNCHANGED <<vars, allowance>>
    /\ UNCHANGED <<moves, pageVars>>

\* Any other account opens a policy, with terms of its own.
OpenByOther ==
    \E sender \in Users \ {Wallet}, vault \in Vaults, beneficiary \in Beneficiaries :
       \E principal \in Principals, lossLimit \in LossLimits, duration \in Durations,
          minimumShares \in Minimums :
             OpenPolicy(sender, vault, beneficiary, principal, lossLimit, duration, minimumShares)

OthersMove == /\ moves < MaxMoves
              /\ moves' = moves + 1
              /\ OpenByOther \/ Exit \/ Admin \/ Outside \/ Tick
              /\ UNCHANGED <<allowance, handoffs, pageVars>>

IntentNext ==
    \/ \E terms \in Terms : EditDraft(terms)
    \/ Refuse \/ Submit \/ StartCopy \/ EndCopy \/ HandOff \/ OthersMove
    \/ \E n \in 1..Len(requests) : Serve(n) \/ Answer(n)
    \/ \E n \in 1..Len(handoffs) : Approve(n) \/ OpenOrRevert(n)

IntentSpec == IntentInit /\ [][IntentNext]_intentVars

-----------------------------------------------------------------------------
(* Properties.                                                              *)

\* A plan called verified is the plan of the terms in the form beside it, and the
\* mark "copied" is about that plan.  The page takes any answer and no answer resets
\* the mark, so this is so unless a request was still unanswered or a copy unfinished
\* when the page moved on (policy-builder.tsx:86-121).
PlanIsOfDraft ==
    page.kind = "ready" /\ ~ outrun =>
        /\ page.plan.terms = draft
        /\ copied => clipboard = page.plan

\* The checks of the plan are those of the contract: an opening is accepted in
\* the chain state its plan was verified against.  Two things are checked by the
\* contract alone: a principal so small that its trigger is zero, and a treasury
\* that is the vault itself and so changes the quote.
VerifiedPlanOpens ==
    \A n \in 1..Len(handoffs) :
       LET plan == handoffs[n].plan IN
       /\ handoffs[n].step = "open" /\ plan.authorizationAssets = allowance
       /\ plan.seen = Observed(plan.terms) /\ treasury # DemoVault
       /\ TriggerAssets(plan.terms.principalAssets, plan.terms.lossLimitBps) # 0
       /\ nextPolicyId <= MaxPolicies /\ now + plan.terms.duration <= Horizon
       => ENABLED OpenPlanned(plan)

OpenedBy(n) == handoffs[n].step = "opened"
OwnPolicies == {id \in PolicyIds : policies[id].owner = Wallet}
Cost(principal) == principal + ProtectionFee

\* Every policy of the wallet is the result of one handoff and has the terms that
\* were verified, with at most the slippage that was disclosed, however the price
\* moved and however many agents were at work.
OpenedAsVerified ==
    /\ \A id \in OwnPolicies : \E n \in 1..Len(handoffs) :
          /\ OpenedBy(n) /\ handoffs[n].policyId = id
          /\ LET policy == policies[id]
                 plan == handoffs[n].plan
             IN /\ policy.principalAssets = plan.terms.principalAssets
                /\ policy.expiresAt - policy.openedAt = plan.terms.duration
                /\ policy.shares * BpsDenominator + BpsDenominator
                      > plan.seen.shares * (BpsDenominator - EntrySlippageBps)
    /\ \A m, n \in 1..Len(handoffs) :
          m # n /\ OpenedBy(m) /\ OpenedBy(n) => handoffs[m].policyId # handoffs[n].policyId

\* What the manager took and may still take from the wallet never exceeds what
\* the plans that were approved cost: two agents, a reverted opening or one that
\* never follows its approval leave no more standing than that.
SpendIsAuthorized ==
    LET approved == {n \in 1..Len(handoffs) : handoffs[n].step # "approve"}
    IN allowance + SumFunction([id \in OwnPolicies |-> Cost(policies[id].principalAssets)])
          <= SumFunction([n \in approved |-> Cost(handoffs[n].plan.terms.principalAssets)])

=============================================================================
