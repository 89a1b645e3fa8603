-------------------------- MODULE LifecycleRunner --------------------------
(***************************************************************************)
(* apps/e2e: the process that drives one demonstration lifecycle against   *)
(* the real contracts (the actions of ProtectionManager): approve, open,   *)
(* apply a loss, wait for the guardian, write the evidence.  The operator  *)
(* starts it again until the evidence is written.                          *)
(*                                                                         *)
(* An action of the runner is the code between two awaits, and pc names    *)
(* the await.  Its transactions are mined later, even if the process that  *)
(* sent them is gone.  The treasury and the allow-list stand still, gas    *)
(* and the keeper's funds are left out.                                    *)
(***************************************************************************)
EXTENDS ProtectionManager, Sequences

CONSTANTS Wallet, Keeper, Stranger, DemoVault,
          Principal, LossLimit, Duration, MinimumShares, LossAssets,
          Fragile,          \* awaits at which the process may end early
          MaxFaults,        \* bound: early ends
          MaxTransactions,  \* bound: transactions ever sent
          Interference      \* what others do meanwhile

Labels == {"off", "reading", "scanning", "starting", "approve", "approving", "open",
           "opening", "opened", "recover", "verify", "lose", "losing", "waiting",
           "settling", "checking", "writing"}

ASSUME RunnerAssumption ==
    /\ {Wallet, Keeper, Stranger} \subseteq Users /\ DemoVault \in Vaults
    /\ Wallet # Stranger
    /\ LossSink \notin {Manager, Wallet, Stranger} /\ FirstTreasury # DemoVault
    /\ Principal \in Principals /\ LossLimit \in LossLimits /\ Duration \in Durations
    /\ MinimumShares \in Minimums /\ LossAssets \in Amounts
    /\ Fragile \subseteq Labels \ {"off"}
    /\ MaxFaults \in Nat /\ MaxTransactions \in Nat
    /\ Interference \subseteq {"gift", "open", "execute", "cancel", "time", "slow"}

\* The shares asked for leave room between the principal and the trigger, so that
\* rounding at the opening alone never breaches a policy.
ASSUME TermsAssumption ==
    Principal <= MinimumShares * (Principal - 1 - TriggerAssets(Principal, LossLimit))

VARIABLES allowance,  \* USDC the manager may take from the wallet
          txs,        \* the runner's transactions, in the order they were sent
          opening,    \* policy -> what the chain recorded when the wallet opened it
          executor,   \* policy -> who executed it
          losses,     \* policy -> losses applied while it was active
          inflow,     \* USDC that others than the wallet put into the demo vault
          guardian,   \* "child" of the runner, "orphan" of an earlier one, or "none"
          pc, mem,    \* the runner's await and its local variables
          evidence,   \* the published evidence file
          faults,
          abandoned   \* "opening" or "losing": a run ended with such a transaction in flight

historyVars == <<allowance, txs, opening, executor, losses, inflow>>
chainVars == <<vars, historyVars>>
runnerVars == <<guardian, pc, mem, evidence, faults, abandoned>>
allVars == <<chainVars, runnerVars>>

Nothing == [none |-> TRUE]

\* What the runner reads of the chain around its transactions.
Snapshot == [counter |-> nextPolicyId, vault |-> usdc[DemoVault], wallet |-> usdc[Wallet],
             treasury |-> usdc[treasury], sink |-> usdc[LossSink]]

NotRead == [counter |-> 0, vault |-> 0, wallet |-> 0, treasury |-> 0, sink |-> 0]

\* unread: the reads of a Promise.all that are not answered yet.
NoMem == [unread |-> {}, before |-> NotRead, after |-> NotRead, final |-> NotRead,
          scan |-> 1, policyId |-> 0, tx |-> 0, openTx |-> 0, valueAfterLoss |-> 0]

RunnerInit ==
    /\ VaultInit
    /\ policies = [id \in PolicyIds |-> NoPolicy] /\ nextPolicyId = 1
    /\ activeSharesByVault = [v \in Vaults |-> 0]
    /\ isVaultAllowed = [v \in Vaults |-> TRUE]
    /\ treasury = FirstTreasury /\ paused = FALSE /\ now = 0
    /\ allowance = 0 /\ txs = <<>>
    /\ opening = [id \in PolicyIds |-> Nothing]
    /\ executor = [id \in PolicyIds |-> Nothing]
    /\ losses = [id \in PolicyIds |-> 0] /\ inflow = 0
    /\ guardian = "none" /\ pc = "off" /\ mem = NoMem /\ evidence = Nothing
    /\ faults = 0 /\ abandoned = {}

-----------------------------------------------------------------------------
(* The chain.                                                               *)

SpecificOpening(sender) ==
    OpenPolicy(sender, DemoVault, sender, Principal, LossLimit, Duration, MinimumShares)

MineApproval(n) ==
    /\ allowance' = txs[n].amount
    /\ txs' = [txs EXCEPT ![n].result = "success"]
    /\ UNCHANGED <<vars, opening, executor, losses, inflow>>

\* The approval's event is within the 2000 blocks that the recovery searches,
\* unless the opening was slow.
MineOpening(n) ==
    \/ /\ Principal + ProtectionFee <= allowance
       /\ SpecificOpening(Wallet)
       /\ allowance' = allowance - (Principal + ProtectionFee)
       /\ txs' = [txs EXCEPT ![n].result = "success", ![n].amount = nextPolicyId]
       /\ \E found \in {TRUE} \cup (IF "slow" \in Interference THEN {FALSE} ELSE {}) :
             opening' = [opening EXCEPT ![nextPolicyId] =
                [tx |-> n, approvalFound |-> found,
                 before |-> Snapshot, after |-> Snapshot']]
       /\ UNCHANGED <<executor, losses, inflow>>
    \/ /\ ~ (Principal + ProtectionFee <= allowance /\ ENABLED SpecificOpening(Wallet))
       /\ txs' = [txs EXCEPT ![n].result = "reverted"]
       /\ UNCHANGED <<vars, allowance, opening, executor, losses, inflow>>

OwnActive == {id \in PolicyIds : policies[id].owner = Wallet /\ policies[id].status = "Active"}

MineLoss(n) ==
    \/ /\ SimulateLoss(DemoVault, LossAssets)
       /\ txs' = [txs EXCEPT ![n].result = "success", ![n].amount = usdc'[DemoVault]]
       /\ losses' = [id \in PolicyIds |-> losses[id] + IF id \in OwnActive THEN 1 ELSE 0]
       /\ UNCHANGED <<managerVars, adminVars, now, allowance, opening, executor, inflow>>
    \/ /\ usdc[DemoVault] <= LossAssets
       /\ txs' = [txs EXCEPT ![n].result = "reverted"]
       /\ UNCHANGED <<vars, allowance, opening, executor, losses, inflow>>

\* The wallet's transactions are mined in nonce order; the loss is sent by the
\* vault's owner.
Mine(n) ==
    /\ txs[n].result = "pending"
    /\ \A m \in 1..(n - 1) :
          txs[m].result = "pending" => (txs[m].kind = "loss") # (txs[n].kind = "loss")
    /\ CASE txs[n].kind = "approve" -> MineApproval(n)
         [] txs[n].kind = "open" -> MineOpening(n)
         [] txs[n].kind = "loss" -> MineLoss(n)
    /\ UNCHANGED runnerVars

ExecutedBy(account) ==
    /\ \E id \in PolicyIds : /\ ExecuteProtection(id, 0)
                             /\ executor' = [executor EXCEPT ![id] = account]
    /\ UNCHANGED <<allowance, txs, opening, losses, inflow, runnerVars>>

GuardianExecutes == guardian # "none" /\ ExecutedBy(Keeper)

OtherExecutes == "execute" \in Interference /\ ExecutedBy(Stranger)

\* Bound: gifts leave the stranger what a policy costs.
Gift == /\ "gift" \in Interference
        /\ \E to \in {DemoVault, Wallet, LossSink}, amount \in Amounts :
              /\ Principal + ProtectionFee + amount <= usdc[Stranger]
              /\ TransferUsdc(Stranger, to, amount)
              /\ inflow' = inflow + IF to = DemoVault THEN amount ELSE 0
        /\ UNCHANGED <<managerVars, adminVars, now>>

StrangerOpens == /\ "open" \in Interference
                 /\ SpecificOpening(Stranger)
                 /\ inflow' = inflow + Principal

WalletCancels == /\ "cancel" \in Interference
                 /\ \E id \in PolicyIds : CancelPolicy(Wallet, id, 0)
                 /\ UNCHANGED inflow

TimePasses == /\ "time" \in Interference
              /\ Tick \/ \E id \in PolicyIds : CloseExpiredPolicy(id, 0)
              /\ UNCHANGED inflow

OthersAct == /\ Gift \/ StrangerOpens \/ WalletCancels \/ TimePasses
             /\ UNCHANGED <<allowance, txs, opening, executor, losses, runnerVars>>

-----------------------------------------------------------------------------
(* The runner.                                                              *)

\* The process ends: an error reaches main().catch, and finally stops the
\* guardian this process started.
Throw == /\ pc' = "off" /\ mem' = NoMem
         /\ guardian' = IF guardian = "child" THEN "none" ELSE guardian

Goto(label) == pc' = label /\ UNCHANGED guardian

Quiet == UNCHANGED <<evidence, faults, abandoned, chainVars>>

Start == /\ pc = "off" /\ evidence = Nothing
         /\ mem' = [mem EXCEPT !.unread = DOMAIN NotRead]
         /\ Goto("reading") /\ Quiet

\* The reads of a Promise.all are answered in any order, and the chain moves
\* between them.
ReadAll(label, snapshot, next) ==
    /\ pc = label
    /\ \E field \in mem.unread :
          /\ mem' = [mem EXCEPT ![snapshot][field] = Snapshot[field],
                                !.unread = @ \ {field}]
          /\ Goto(IF mem.unread = {field} THEN next ELSE label)
    /\ Quiet

ReadBefore == ReadAll("reading", "before", "scanning")
ReadAfterOpen == ReadAll("opened", "after", "verify")
ReadSettlement == ReadAll("settling", "final", "checking")

MatchesTerms(policy) ==
    /\ policy.beneficiary = Wallet /\ policy.vault = DemoVault
    /\ policy.principalAssets = Principal
    /\ policy.triggerAssets = TriggerAssets(Principal, LossLimit)

\* One turn of the search for a policy to resume.
ScanPolicy ==
    /\ pc = "scanning" /\ mem.scan < mem.before.counter
    /\ IF mem.scan \notin OwnActive
       THEN mem' = [mem EXCEPT !.scan = @ + 1] /\ UNCHANGED <<pc, guardian>>
       ELSE IF mem.policyId = 0 /\ MatchesTerms(policies[mem.scan])
       THEN /\ mem' = [mem EXCEPT !.policyId = mem.scan, !.scan = @ + 1]
            /\ UNCHANGED <<pc, guardian>>
       ELSE Throw
    /\ Quiet

\* Mutant: a resumed policy may have lost value already.
MayProceedAfterLoss ==
    mem.policyId = 0 => /\ Principal + ProtectionFee <= mem.before.wallet
                        /\ mem.before.vault = 0

MayProceed ==
    IF mem.policyId = 0
    THEN Principal + ProtectionFee <= mem.before.wallet /\ mem.before.vault = 0
    ELSE mem.before.vault = Principal

SpawnGuardian == guardian' = IF guardian = "none" THEN "child" ELSE guardian

\* Mutant: the runner starts a new lifecycle whatever it found.
PreflightAlwaysNew ==
    /\ pc = "scanning" /\ mem.scan = mem.before.counter
    /\ IF Principal + ProtectionFee <= mem.before.wallet
       THEN pc' = "starting" /\ SpawnGuardian /\ mem' = [mem EXCEPT !.policyId = 0]
       ELSE Throw
    /\ Quiet

Preflight ==
    /\ pc = "scanning" /\ mem.scan = mem.before.counter
    /\ IF MayProceed THEN pc' = "starting" /\ SpawnGuardian /\ UNCHANGED mem ELSE Throw
    /\ Quiet

\* A new policy is taken to get the identifier the preflight read.
GuardianReady ==
    /\ pc = "starting"
    /\ IF mem.policyId = 0
       THEN Goto("approve") /\ mem' = [mem EXCEPT !.policyId = mem.before.counter]
       ELSE Goto("recover") /\ UNCHANGED mem
    /\ Quiet

Submit(kind, amount, label) ==
    /\ Len(txs) < MaxTransactions
    /\ txs' = Append(txs, [kind |-> kind, amount |-> amount, result |-> "pending"])
    /\ mem' = [mem EXCEPT !.tx = Len(txs) + 1]
    /\ Goto(label)
    /\ UNCHANGED <<vars, allowance, opening, executor, losses, inflow, evidence, faults, abandoned>>

ApprovalAmount == Principal + ProtectionFee

SubmitApproval == pc = "approve" /\ Submit("approve", ApprovalAmount, "approving")
SubmitOpening == pc = "open" /\ Submit("open", 0, "opening")
SubmitLoss == pc = "lose" /\ Submit("loss", LossAssets, "losing")

Receipt == txs[mem.tx]

AwaitApproval == /\ pc = "approving" /\ Receipt.result = "success"
                 /\ Goto("open") /\ UNCHANGED mem /\ Quiet

AwaitOpening ==
    /\ pc = "opening" /\ Receipt.result # "pending"
    /\ IF Receipt.result = "success"
       THEN /\ Goto("opened")
            /\ mem' = [mem EXCEPT !.openTx = mem.tx, !.unread = {"wallet", "treasury"}]
       ELSE Throw
    /\ Quiet

\* Mutant: the balances are those of today, not those of the opening.
RecoverWithCurrentBalances ==
    /\ pc = "recover" /\ Goto("verify")
    /\ mem' = [mem EXCEPT !.openTx = opening[mem.policyId].tx, !.after = Snapshot]
    /\ Quiet

\* The transactions and balances of a resumed policy, from the log and from
\* the blocks around its opening.
RecoverOpening ==
    /\ pc = "recover"
    /\ LET found == opening[mem.policyId] IN
       IF found.approvalFound
       THEN Goto("verify") /\ mem' = [mem EXCEPT !.openTx = found.tx, !.before = found.before,
                                                 !.after = found.after]
       ELSE Throw
    /\ Quiet

\* Owner, beneficiary and status, the wallet's debit, the treasury's credit.
VerifyOpening ==
    /\ pc = "verify"
    /\ IF /\ mem.policyId \in OwnActive /\ policies[mem.policyId].beneficiary = Wallet
          /\ mem.before.wallet - mem.after.wallet >= Principal + ProtectionFee
          /\ mem.after.treasury - mem.before.treasury = ProtectionFee
       THEN Goto("lose") /\ UNCHANGED mem
       ELSE Throw
    /\ Quiet

AwaitLoss ==
    /\ pc = "losing" /\ Receipt.result # "pending"
    /\ IF /\ Receipt.result = "success"
          /\ Receipt.amount <= policies[mem.policyId].triggerAssets
       THEN Goto("waiting") /\ mem' = [mem EXCEPT !.valueAfterLoss = Receipt.amount]
       ELSE Throw
    /\ Quiet

\* The poll sees the execution, or its deadline passes because the policy was
\* closed in another way (a guardian that is late is an early end at "waiting").
AwaitExecution ==
    /\ pc = "waiting"
    /\ \/ /\ policies[mem.policyId].status = "Executed"
          /\ Goto("settling") /\ mem' = [mem EXCEPT !.unread = {"wallet", "sink", "vault"}]
       \/ policies[mem.policyId].status \in {"Cancelled", "Expired"} /\ Throw
    /\ Quiet

\* Mutant: anybody may have executed the policy.
SettledByAnyone ==
    LET id == mem.policyId IN
    /\ policies[id].assetsReturned = mem.valueAfterLoss
    /\ mem.final.sink - mem.before.sink = LossAssets
    /\ mem.final.vault = 0
    /\ mem.final.wallet - mem.after.wallet = policies[id].assetsReturned

SettlementHolds ==
    LET id == mem.policyId IN
    /\ executor[id] = Keeper
    /\ policies[id].assetsReturned = mem.valueAfterLoss
    /\ mem.final.sink - mem.before.sink = LossAssets
    /\ mem.final.vault = 0
    /\ mem.final.wallet - mem.after.wallet = policies[id].assetsReturned

\* The execution's event is looked for from the loss's block on; here any
\* execution is accepted.
CheckSettlement ==
    /\ pc = "checking"
    /\ IF SettlementHolds THEN Goto("writing") /\ UNCHANGED mem ELSE Throw
    /\ Quiet

\* Written aside and renamed: all or nothing.
WriteEvidence ==
    /\ pc = "writing" /\ Throw
    /\ evidence' = [policyId |-> mem.policyId, openTx |-> mem.openTx, lossTx |-> mem.tx,
                    valueAfterLoss |-> mem.valueAfterLoss]
    /\ UNCHANGED <<faults, abandoned, chainVars>>

\* An await fails or times out, or the process is interrupted: its guardian
\* then ends with it or outlives it.
Fail == /\ pc \in Fragile /\ faults < MaxFaults
        /\ faults' = faults + 1
        /\ abandoned' = abandoned \cup ({pc} \cap {"opening", "losing"})
        /\ \/ Throw
           \/ guardian = "child" /\ guardian' = "orphan" /\ pc' = "off" /\ mem' = NoMem
        /\ UNCHANGED <<evidence, chainVars>>

RunnerStep == \/ Start \/ ReadBefore \/ ScanPolicy \/ Preflight
              \/ GuardianReady \/ SubmitApproval \/ AwaitApproval \/ SubmitOpening
              \/ AwaitOpening \/ ReadAfterOpen \/ RecoverOpening \/ VerifyOpening
              \/ SubmitLoss \/ AwaitLoss \/ AwaitExecution \/ ReadSettlement
              \/ CheckSettlement \/ WriteEvidence

RunnerNext == \/ RunnerStep \/ Fail
              \/ GuardianExecutes \/ OtherExecutes \/ OthersAct
              \/ \E n \in 1..Len(txs) : Mine(n)

RunnerSpec == RunnerInit /\ [][RunnerNext]_allVars

\* Awaits end and the operator starts the runner again; transactions are
\* mined; a running guardian executes a breached policy.
FairRunnerSpec == /\ RunnerSpec
                  /\ WF_allVars(RunnerStep)
                  /\ WF_allVars(GuardianExecutes)
                  /\ \A n \in 1..MaxTransactions : WF_allVars(n <= Len(txs) /\ Mine(n))

-----------------------------------------------------------------------------
(* Properties.                                                              *)

\* What the evidence declares as verified is true of the chain, and its parts
\* belong together: the opening transaction opened that very policy (which the
\* runner identifies by a counter it read before), the loss hit it and nothing
\* else did, and the dedicated guardian settled it for the value after that loss.
\* After an opening that was left in flight the transaction may be that of another
\* policy, and there may have been two losses: reads of the preflight that fall
\* before and after its inclusion, and a cancellation of the second policy,
\* deceive every check.
EvidenceTruthful ==
    evidence # Nothing =>
       LET policy == policies[evidence.policyId] IN
       /\ "opening" \notin abandoned => /\ txs[evidence.openTx].amount = evidence.policyId
                                       /\ losses[evidence.policyId] = 1
       /\ txs[evidence.openTx].kind = "open"
       /\ policy.owner = Wallet /\ policy.status = "Executed"
       /\ executor[evidence.policyId] = Keeper
       /\ losses[evidence.policyId] >= 1 /\ txs[evidence.lossTx].result = "success"
       /\ policy.assetsReturned = evidence.valueAfterLoss
       /\ policy.assetsReturned <= policy.triggerAssets

\* An interrupted lifecycle is continued, not repeated, until it has been through
\* its loss and its execution: the wallet's policy is followed by another of its own,
\* which costs it a second fee, only once it was cancelled or ran out, or was executed
\* after a loss (the runner then finds no active policy, main.ts:92-122).  The only
\* exception is an opening that was left in flight (main.ts:217).
ContinuedNotRepeated ==
    "opening" \notin abandoned =>
       \A i, j \in PolicyIds :
          policies[i].owner = Wallet /\ policies[j].owner = Wallet /\ i < j =>
             \/ policies[i].status \in {"Cancelled", "Expired"}
             \/ policies[i].status = "Executed" /\ losses[i] >= 1

\* A policy is put through the controlled loss once, however often the runner
\* is started and wherever it ended, except with a transaction in flight, or when
\* others put as much into the vault as a loss takes: the preflight compares the
\* vault's balance with the principal, and the vault looks untouched again.
OneLossPerPolicy ==
    abandoned = {} /\ inflow < LossAssets => \A id \in PolicyIds : losses[id] <= 1

\* A policy the runner opened gets its evidence, with as many restarts as that
\* takes.  So it is as long as the runs end before the loss; after it the next run
\* refuses a vault that lost value, or no longer looks for the policy once it was
\* executed (main.ts:92-125, against README.md:56).
LifecycleCompletes ==
    \A id \in PolicyIds :
       opening[id] # Nothing ~> (evidence # Nothing /\ evidence.policyId = id)
=============================================================================
