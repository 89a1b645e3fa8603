# Verification of AgentSure

TLA+ models of AgentSure, checked with TLC on small instances and, where it matters most, proved
with TLAPS for every value of the constants. Paths are relative to the repository.

## 1. The system

A user deposits USDC into an ERC-4626 vault through `ProtectionManager` and chooses a loss limit and a
window. The manager holds the shares. While the window is open, anybody may exit the position once its
value has fallen to the trigger; the proceeds always go to the policy's beneficiary. The guardian is an
off-chain keeper that watches for that and sends the transaction.

| Component | State it keeps | Operations | What must hold |
|---|---|---|---|
| `ProtectionManager.sol` | policies, next identifier, active shares per vault, allow-list, treasury, pause flag | open, execute, cancel, close expired, administration | shares in custody match the open policies; one exit per policy, in its window, to its beneficiary; every policy can be closed |
| `DemoRiskVault.sol` (OpenZeppelin ERC-4626) and the USDC token | balances, shares, supply | deposit, mint, redeem, withdraw, transfer, simulated loss | a position loses value only through a disclosed loss |
| Guardian monitor (`monitor.ts`) | indexed policies, cursor | sync a finalized block range | the index is the replay of the finalized log up to the cursor |
| Guardian evaluator (`evaluator.ts`) | - | read status, window, value; compute the minimum | no decision rests on a torn read |
| Guardian executor (`executor.ts`) | execution record per policy | simulate, submit, read the receipt | a record says what happened; no second transaction in flight |
| Guardian runner, store, retry (`runner.ts`, `store.ts`, `retry.ts`) | state in memory and in the file | cycle, load, atomic save | restart loses nothing that matters; every breach is answered |
| Guardian process, health, metrics (`main.ts`, `health.ts`, `metrics.ts`) | readiness, time of the last cycle | start, stop, `/readyz` | ready means that policies are being served |
| Policy plan and intent route (`policy-plan.ts`, `api/intents/prepare`) | - | read chain, check, build calldata | a plan the contract would accept, for the terms shown |
| Policy read model (`policy-read-model.ts`) | - | four reads folded into a view | what is shown was true, at the block shown or later |
| Builder and monitor pages (`policy-builder.tsx`, `policy-monitor.tsx`) | form, last answer | submit, poll | what is shown belongs to the form, and does not go back in time |
| Lifecycle runner (`apps/e2e`) | the step it is at | preflight, resume, approve, open, lose, wait | an interrupted lifecycle is continued, not repeated |
| Chain bindings, static pages, `ArcCallProbe`, deployment scripts | - | - | no behaviour of interest |

Interaction. Contracts call each other inside one transaction. The guardian reads the chain over RPC
(finalized logs for its index; latest state for its decisions), sends transactions, and shares nothing
else with it. It is one process with one loop, so its only concurrency is with the chain, with failures
and with its own death. The web application only reads. The lifecycle runner starts a guardian and drives
a wallet and the vault's owner.

Hard behaviours. On chain: long sequences of legal calls by many accounts, rounding, boundaries of the
window, parties that coincide (a beneficiary or a treasury that is the vault). Off chain: the chain moves
between any two awaits; calls fail, are retried, or succeed with a lost answer; saves fail; the process
dies between broadcasting and recording; others close policies first. `PROJECT.json` lists each hazard
at its line with the properties that cover it.

## 2. Modules

| Module | Role |
|---|---|
| `PolicyLifecycle` | Abstract specification: what the manager promises about a policy, without assets or shares |
| `DemoRiskVault` | USDC ledger and ERC-4626 vaults; one action per transaction of somebody other than the manager |
| `ProtectionManager` | The manager over that ledger: `Open`, `Exit`, `Admin`, `Outside` (the vault's actions), `Tick`; its properties and the refinement of `PolicyLifecycle` |
| `MCProtectionManager` | Instances for TLC |
| `SumLemmas` | Lemmas about finite sums over a function |
| `ProtectionManagerProofs` | Its inductive invariant and theorems |
| `UntrustedVault` | The manager's opening and exit taken apart at their calls of a vault that may do anything in them |
| `UntrustedVaultProofs` | Its inductive invariant and theorems |
| `GuardianChain` | The chain as the guardian sees it: what the contract promises to somebody who reads quotes |
| `Guardian` | The guardian process over `GuardianChain` |
| `MCGuardian` | Instances for TLC |
| `GuardianProofs` | The inductive invariant and theorems of `Guardian` |
| `GuardedManager` | The guardian over `ProtectionManager` itself; the contract as a refinement of `GuardianChain` |
| `MCGuardedManager` | Instances for TLC |
| `GuardedManagerProofs` | The refinement, step by step, and the theorems of the whole |
| `GuardianProcess` | The guardian as a service: start, readiness, the loops, signals, the file beside the state file |
| `LifecycleRunner` | The lifecycle runner over `ProtectionManager` itself |
| `MCLifecycleRunner` | Instances for TLC |
| `BlockRanges` | The windows in which the runner searches the log, one turn of the loop per step |
| `LifecycleRunnerProofs` | The inductive invariants and theorems of `LifecycleRunner` and `BlockRanges` |
| `IntentPreparation` | The builder's form, the preparation endpoint and the wallet's agent over `ProtectionManager` itself |
| `MCIntentPreparation` | Instances for TLC |
| `IntentPreparationProofs` | The inductive invariant and theorems of `IntentPreparation` |
| `PolicyView` | What the monitor page shows: the read model, its endpoint, and the page's overlapping loads |
| `ClientProofs` | The inductive invariants and theorems of `GuardianProcess` and of `PolicyView` |

### 2.1 The contracts

One external call is one action. `nonReentrant` and the EVM make a call atomic, and a revert restores the
state, so it is a disabled action: every `revert` of the source is a guard, including the comparison of
balances before and after in `_exitPolicy`, which is why that action computes the ledger it leaves before
it decides. The order of the calls inside `openPolicy` matters and is kept: the fee leaves first
(`CollectFee`), and the vault prices the deposit on the ledger that results, so a treasury that is the
vault changes the price. `_assertShareCoverage` is evaluated on the primed state.

`policies` holds the contract's struct; `NoPolicy` is its zero value, and as in the contract only its
owner tells that it does not exist. `now` is `block.timestamp`. The conversions are OpenZeppelin's, with
one virtual asset and one virtual share and the rounding direction of each operation. Direct vault calls
are made by users for themselves; for somebody else they equal such a call and a transfer. Left out: events,
the allowance that `openPolicy` grants and resets within one call, two-step ownership, the copy of
`lossLimitBps` that is stored for display, and the 256-bit bound of integers (the largest product is
bounded by the cap on principal and the supply of USDC).

`UntrustedVault` drops the atomicity. One of its two vaults is honest; the other is on the allow-list too, but
while it is called it has control: it may spend what it holds, take what it was approved for (`Take`), call the
manager again, answer anything in `Reports`, or revert. A call of the manager is therefore two actions, up to the
call of the vault (`Open`, `Exit`) and after its answer (`Opened`, `Exited`), with the locals of the frame
on `stack`, among them the balance that the code reads before the call and compares afterwards. `saved` is the state that a
revert goes back to, and the state others see when the transaction reverts is `Committed`. `nonReentrant` is
`MayEnter`. The module has no prices, windows or roles, which `ProtectionManager` has: a share of the honest vault is
worth one, and anybody may ask for any exit. `balanceOf` of the untrusted vault is its answer too, so the checks of
shares bind the honest one only. The vaults of `test/mocks/MaliciousVaults.sol` are special cases.

### 2.2 The guardian

An action is the code between two awaits; `pc` names the await the process is suspended in. The chain
moves, a call fails, or the process dies at any of them. `mem` is `GuardianState` of the process and
`disk` the state file; `Save` replaces the whole file, because `store.save` writes aside and renames. The
`policies` snapshot of a cycle is `queue`. A failed attempt that `withRetry` repeats is not a step;
exhausting the attempts is (`SyncFails`, `GiveUp`, `SubmitFails`). The difference between these errors is
kept: a failed save of the index starts the sync again with a cursor that is ahead in memory, a failed
save of a deletion ends the cycle, a failed save of a hash or an outcome goes on to the next policy.
`SubmitAnswerLost` is a broadcast that reached the network while the call failed: `withRetry` may send
again. Receipts and simulations read the latest chain, `finalized` bounds the log only.

`GuardianChain` abstracts the contracts: a policy has a status, the trigger it was opened with, a quote out of a few
numbers, and a window that ends. Its guards (`Executable`) are those of `executeProtection`. Every transaction may change the
quotes of all active policies at once (`ValuesMove`): policies share a vault, and an exit or a deposit of one rounds the price
of the others. Several windows may end with one block. Each
lifecycle event is a block of its own, so a batch of blocks holds several events. Blocks without
events are left out, which is why nothing is claimed of how far the file lags behind memory. The keeper's
transactions are mined in nonce order. In a record a transaction is named by its position; the
confirmed record of an event uses the negated log position, since the transaction may be somebody else's.

`GuardedManager` puts the contract in the place of that abstraction. Its variables are those of `ProtectionManager` and the
guardian's; status, trigger, quote and ended windows are no variables but what the reads compute from the contract
(`StatusOf`, `TriggerOf`, `QuoteOf`, `EndedPolicies`), and `G` is `Guardian` with these in their places. A call of the
contract that opens or closes a policy appends its event; the keeper's transactions are calls of `executeProtection`, and
revert when `ExecutionAccepted` is false, which repeats the checks of `_exitPolicy` one by one. The actions of the process are
those of `Guardian`, unchanged. `ImplementsGuardian` says that every behaviour of the whole is one of `Guardian`.

`GuardianProcess` looks at the same process from `main.ts`: what becomes of a cycle when its steps fail. A
policy is only tracked or not, and one in `Broken` fails in every evaluation; blocks are a number of blocks that
the index lacks. `pc` names the await again. The difference between failures is kept (`SaveFails`): of an index, sync
throws and `withRetry` begins it again from the block it has reached in memory; of a deletion, the cycle ends; of a
record, the executor catches it. `Waits` is `#waitForNextCycle`: its listener is added when the wait begins, so a
signal that came during the cycle does not shorten it. A second signal, for which `process.once` leaves no handler,
ends the process at any await, and so in the middle of `writeFile`. `Readyz` is the answer of the health server.
Time is counted in poll intervals. `StaleAfter` keeps the maximum of `main.ts:61`; the run takes 2 for the lower
limit of 30 seconds (`MinStale`), so the five intervals decide. The properties depend on neither number.

### 2.3 The lifecycle runner

`pc` names the await of `main()`, `mem` holds its local variables, and `NoMem` is a process that is gone: the
runner persists nothing but the evidence. Its transactions go to `txs`, the contract's own actions mine
them, and they are mined whether or not their sender still runs. The wallet's are mined in nonce order.
The answers of a `Promise.all` arrive in any order, with the chain moving in between. `Fail` stands for
an error, a timeout or an interruption at an await of `Fragile`; a guardian then ends with its runner or
outlives it. `opening` and `executor` are what the event logs record. Historical balances are kept with the
opening; the window of 2000 blocks in which its approval is searched is a Boolean. A guardian that runs
executes a breached policy in one step; `Guardian` says why it does. `losses` and `inflow` count, for the properties
only, how often a policy was hit and what others paid into the vault. Gas, the keeper's balance and the
readiness of the guardian are left out; treasury and allow-list stand still, and nobody pauses.

The constants of the demonstration are those of `config.ts:93-104`. `TermsAssumption` says what these numbers have in
common: the least number of shares is high enough above the trigger that no rounding at the opening makes a policy
breached from the start (990,000 shares of 1,000,000 against a limit of 3 percent). `RunnerAssumption` tells the
wallet from the stranger and the sink from both and from the manager, and the treasury from the vault.

`BlockRanges` is `reverseBlockRanges` for itself. The runner asks it for the opening it resumes, and
`SearchIsComplete` is the reason why `RecoverOpening` always finds one.

### 2.4 The policy plan

`IntentPreparation` follows a plan from the form to the open policy. `page`, `draft`, `copied` are the state of
`PolicyBuilder`; a request is served (`Serve`: the multicall of the route is one read of the chain, at any moment
after it was sent; the route may fail) and answered (`Answer`), and requests overlap because an edit enables the
button again. `Observed`, `Plannable` and `Plan` are what the route reads and what `createPolicyExecutionPlan`
checks and computes. A plan keeps the state it was verified against (`seen`), of which the code keeps only
a part, for the properties to compare. The agent is outside the repository: it approves, then opens, and may stop in
between, which needs no action. The opening is the contract's own `OpenPolicy`, so the plan's checks are
compared with the contract's and not with a copy of them. `outrun` remembers that the page moved on while an answer or a clipboard
write was pending. `copying` is a set, because the copy button stays enabled while a write is pending. Everybody else may make
`MaxMoves` transactions of any kind that `ProtectionManager` has, openings with any terms (`OpenByOther`) among them.

The builder takes any answer, whatever the form holds by then (`policy-builder.tsx:100`), and no answer resets the
mark "copied". So the plan beside an edited form may be the plan of the terms before the edit, called
verified; its own terms are shown with it. `PlanIsOfDraft` holds with this exception and no other. `VerifiedPlanOpens`
has two exceptions, which the contract checks and the plan does not: a principal so small that its
trigger is zero, and a treasury that is the vault.

### 2.5 The policy view

`PolicyView` is `readPolicyFromArc` with the page that polls it. `chain` is the history of one policy, a snapshot per
block, and each of the four calls is answered at a block of its own between the sending of the request and
its answer, or fails. `ReadPolicyFromArc` keeps the order in which the results are looked at, which decides between
"does not exist" and "cannot be read". A load is sent, answered and taken in three steps; `Slots` loads overlap,
since the timer does not ask what is in flight, and are taken in any order or lost. `Finish` is the end of
`load` in each of its branches, with `finally`. A failed attempt leaves `page` degraded, from which `Retry` loads again.
A quote may be zero for an active policy as well (`Worth`): `getPolicyValue` is rounded down, and a loss may leave one unit in a
shared vault, so a value of zero says nothing of the status. `existed`, `alone` and `failed` are remembered for the properties only. The block number comes from another call than the policy, so
it may name a block at which the status was different by then; the properties claim of it only what is true.

## 3. Runs

| Run | Instance | What it shows |
|---|---|---|
| `manager_one_vault` | 1 user, 1 vault, 2 policies, principals 2 and 4 around the cap of 3, loss limits 2000 and 4000 around the bounds, losses, gifts and transfers of 1 or 2, treasury that is a vault | `ShareCustody`, `ActivePoliciesPayable`, `ManagerKeepsNoUsdc`, `OnlyLossLowersValue`, `ImplementsLifecycle`, and under fairness `EveryPolicyCloses` in spite of pausing, delisting and losses |
| `untrusted_vault` | 1 honest vault, 1 that does anything, 2 policies of principal 2, fee 1, gifts to the manager, exits with minimum 0 or 1, answers 0 to 3 | `PaidOnce`, `HonestPoliciesWhole`, `GiftsStay`, and under fairness `HonestPoliciesClose` |
| `guardian_answers` | fair, 1 policy, 3 values, 4 transactions, 2 moves, batches of 2, 1 crash, 1 failed save or lost answer, exits by others | `IndexIsReplay`, `RecordsTruthful`, `RecordsAreHeeded` (`NoneBehindRecord`, `SubmittedIsIndexed`), `NoUnprotectedExit`, and under fairness `EveryBreachIsAnswered`, `ReconciledUnlessClosed` |
| `guarded_manager` | the contract with 1 user, 1 vault, 2 policies of principal 6 and loss limit 5000, a loss or deposit of 8, exits by others with minimum 1 or 3, time, pauses and delisting, and the guardian with 2 transactions that may vanish | `QuoteDecidesExecution`, `SuccessesArePaid` (`KeeperExecutionsProtected`, `ConfirmedIsPaid`), `GuardianHolds`, `ImplementsGuardian` |
| `guardian_process` | fair, 2 policies of which 1 cannot be evaluated, 2 attempts, 2 blocks to read, 2 signals, any state file | `VisitsAreUpToDate`, `FileStaysAsItWas`, `StopsWhenAborted`, `ReadyIsEarned`, `EveryPolicyVisited` |
| `guardian_duplicate` | 1 policy, 1 crash | violated: see finding 1 |
| `runner_resume` | 2 policies, 1 failure at any await, gifts, a stranger's policy, another keeper, cancellations, expiry, slow openings | `ContinuedNotRepeated`, `OneLossPerPolicy`, `EvidenceTruthful` |
| `runner_completes` | fair, 2 failures before the loss | `LifecycleCompletes` |
| `runner_interrupted` | fair, vault cap equal to the principal as on mainnet, 1 failure while the execution is awaited | `LifecycleCompletes`, violated: see finding 2 |
| `intent_preparation` | principals 0, 2 and 3, 2 requests, 2 agents, 2 users, 1 step of others, capacity and funds for one policy and part of another | `PlanIsOfDraft`, `VerifiedPlanOpens`, `OpenedAsVerified`, `SpendIsAuthorized` |
| `policy_view` | fair, a policy and an invalid number, 2 values, zero among them, 4 blocks, 2 loads that overlap | `ViewIsTruthful`, `AbsenceIsReal`, `WaitingIsReal`, `ViewsAdvance`, `SettlementShown` |
| `block_ranges` | ends 0 to 8, sizes 0 to 9 | `SearchedOnce` (`WindowsDescend`, `EveryBlockSearched`) |

Bounds. Two policies are what it takes for one to be paid with another's shares, or to wait behind another;
no rule relates three. With one virtual share, amounts of one to four reach every rounding case: a price
above one, below one, and a quote of zero shares. The inputs straddle each parameter (a principal above
the cap, a loss limit below the minimum), and parties may coincide. Liveness runs allow more transactions
than moves, crashes and faults can consume, so the bound on transactions never blocks the guardian
(otherwise `EveryBreachIsAnswered` would fail). Slippage is 200 basis points, so a move from 60 to 40
reverts a transaction that asked for the minimum of 60. A policy has two events, which a batch of two holds or parts; the four of
two policies, in two batches, are in `guarded_manager`, which checks the index and the records again (`GuardianHolds`). There
one loss of 8 takes both policies from 6 below their trigger of 3, and leaves 2 for each. With crashes and faults its state space
exceeds what TLC explores in reasonable time: the run has none, they are in `guardian_answers` and `guardian_process`, and the
theorems of 5.6 hold for any number of them, several transactions in flight for one policy included.

For the plan, two requests overlap and two agents interfere; one gift to an empty vault moves the price further
than the slippage allows, one transfer, pause, delisting or opening of the other user invalidates a verified plan, and the second
opening meets the cap of the vault and the end of the wallet's funds.

For the untrusted vault, two policies are what it takes for the proceeds of one to be counted for another, and two calls
within each other are as deep as the guard would have to let through. The answers lie below, at and above the principal. The
owner may spend everything, after which nothing happens: the run does not check deadlock.

For the process, one broken policy before a sound one shows whether it keeps the cycle from it; two attempts let a sync
fail, resume and fail for good; two batches of blocks let a save fail between them; the second signal is the one without a
handler.

For the view, four blocks hold an absent policy, an active one, a move and a settlement, so the four calls of a load may
fall into different ones; two loads overlap in either order.

For the runner, a principal of 6, a loss of 2 and a limit of 30 percent breach the trigger with one loss and not
when two policies share it, as the real amounts do. Two failures in `runner_completes` allow an
interrupted resumption, and its transaction bound exceeds what they consume. A stranger
can pay in one unit, or a principal: less than a loss, which leaves `OneLossPerPolicy` to hold, and more.
The vault's cap leaves room for further policies, as on the testnet, so that nothing but the runner keeps it from a second
one; `runner_interrupted` has the cap of the mainnet.

Fairness. On chain, time passes, and somebody calls `closeExpiredPolicy` for a policy whose window has
ended: anyone may, and the beneficiary gains by it. For the guardian, each await ends (attempts and client
timeouts are bounded), and a call that is repeated for ever is answered some time (strong fairness on
the successful outcome of each call, per policy): an RPC endpoint that always fails defeats any keeper.
Transactions are mined and blocks become final. The runner's awaits end, the operator starts it until there is evidence, and its guardian executes in time.
When the runner's opening is in flight and when the policy has lost value it is assumed that no more failures
come (`runner_completes`); without the latter, `LifecycleCompletes` is false (`runner_interrupted`, finding 2). The process model assumes that time passes and that each await ends, one way or the other; no call
is assumed to succeed, so `EveryPolicyVisited` has the premise that sync and saves do not fail for ever. In `UntrustedVault`
a transaction ends, since gas is finite, and an exit of a policy that is asked for again and again is carried out; the
vault owes nothing. The page's timer fires, a load ends, and calls that are made again and again do not all fail.
Nothing is assumed of owners, other keepers, values, the
end of windows, crashes and failures. A broadcast transaction is mined in the liveness run: one that vanishes leaves a record for whose
receipt every cycle waits, and nobody sends it again.

Each property is checked against a mutant of the code as well: a definition marked `Mutant` in the modules
is put in place of the one that follows it, and TLC must then find the property violated.

## 4. Findings

1. **A crash between broadcast and save leads to a duplicate submission** (`guardian_duplicate`).
   `executor.ts:47` broadcasts, `executor.ts:56` saves the hash. A process that dies in between finds the
   policy active and submits again. `README.md:54` and `docs/runbooks/GUARDIAN.md:59-60` say that pending
   transactions are reconciled after a restart without a duplicate submission. The contract lets only one
   succeed, so this costs gas. What was recorded is never
   repeated, also when the save fails (`RecordsAreHeeded` in `guardian_answers`).
2. **A lifecycle interrupted after its loss is never completed** (`runner_interrupted`). `README.md:56` and
   `docs/runbooks/MAINNET_DEPLOYMENT.md:118` call the mainnet runner interruption-safe. A run may end while it waits
   for the execution: after 90 seconds it does so by itself (`apps/e2e/src/main.ts:356-371`). If its guardian ended with it, every later start
   throws on the vault that no longer holds the principal (`main.ts:123-125`), before it starts another guardian; the policy stays
   active until its owner cancels it, somebody executes it, or it expires. If the guardian outlived its runner and
   executed, the search for a policy to resume looks for active ones only (`main.ts:100`): the next start begins anew with a
   second fee, or lacks the funds (the budget of `MAINNET_DEPLOYMENT.md:69` is for one lifecycle). The evidence of the
   first policy is written in neither case. The run has the mainnet's bounds, where the vault's cap is the principal
   (`MAINNET_DEPLOYMENT.md:21-22`, `DeployProtectionMainnet.s.sol:12-13`), and funds for one lifecycle. No assets are lost.

Where the code stops short of more, no document says otherwise, and the properties name the exception:

- A submission recorded for a policy that its owner cancels meanwhile, or that is closed as expired, is never
  reconciled: `monitor.ts:27-37` takes the policy off the index and `runOnce` resumes only indexed policies, so the record stays
  `submitted` (the exception of `ReconciledUnlessClosed`).
- The runner recognizes a lifecycle to resume by the chain alone (`main.ts:92-125`), which does not show a transaction that is
  not mined yet. After an end with the opening in flight (`main.ts:217`) the next start may approve and open again and pay a
  second fee, and the start after that refuses two active policies. It takes a vault whose cap exceeds the principal, as the testnet's does
  (`DeployProtection.s.sol:12`); on mainnet the second opening reverts. `abandoned` remembers that a transaction was left in flight, and
  `ContinuedNotRepeated` makes this exception. In that case even evidence can be wrong in one point: it may name the second opening for
  the first policy, if the preflight read the vault before and the treasury after the first was mined and the wallet
  cancels the second policy. That policy may then have been through two losses.
- `ContinuedNotRepeated` says when the wallet has a further policy otherwise: after one that was cancelled, ran out, or was executed
  after its loss. The last is the case of finding 2, wherever the run ended after the loss: the lifecycle is over on the chain, but not
  for the evidence, and the next start does not continue it.
- The preflight compares the balance of the vault with the principal, so gifts that add up to the loss make the vault look
  untouched, and the next run applies the loss again: `OneLossPerPolicy` has the premise that others pay in less than that
  (`inflow < LossAssets`), which the attempt to prove it for all amounts brought to light. Otherwise the refusal of finding 2
  is what keeps it. `runner_completes` checks `LifecycleCompletes` for interruptions before the loss, which is where that of
  `docs/runbooks/TESTNET_LIFECYCLE.md:47-49` happened.
- With a disk that stays full and a new final block in every attempt, sync fails for ever on its save and no policy is
  visited, although each policy could be (the premise of `EveryPolicyVisited`).
- A signal during a cycle is heard after the cycle and one whole poll interval (`StopsWhenAborted` holds, no faster).
- Readiness is the age of the last cycle that ended without an error. A cycle in which no policy could be evaluated counts, and a cycle that
  takes longer than the limit makes a guardian that is working unready (`ReadyIsEarned` is one direction only).
- Overlapping loads may take the monitor page back for a while, and the status and the value it shows are of different
  blocks: a policy that settles in between is shown as active and worth zero, as one that lost nearly all may be
  (`ViewIsTruthful`, `ViewsAdvance`).
- `lastFinalizedBlock`, described as the latest block processed, is set to the head before the batches are read
  (`monitor.ts:72`). The metrics are not modelled.

## 5. Theorems

Every theorem is about all values of the constants that satisfy the named assumptions of its module: any number of
users, vaults, policies, requests or blocks, and no bound of section 3. Each is proved in the same way. The property
itself is seldom inductive, so it is strengthened to an invariant that is; there is one lemma per action (or group of
actions) which shows that the action keeps the invariant, and the property follows from it. TLC has checked every
inductive invariant on the run of its module before it was proved.

### 5.1 The manager (`ProtectionManagerProofs`, `SumLemmas`)

- `TypeCorrect` (`TypeOK`): balances, shares and counters stay natural, so no checked subtraction underflows and an
  exit that passed its guards is not reverted by arithmetic.
- `CustodyHolds` (`ShareCustody`): `activeSharesByVault` is exactly the sum of the shares of the active policies of each
  vault, and the manager holds at least as many.
- `PoliciesPayable` (`ActivePoliciesPayable`): a vault could pay all its active policies at once what it quotes them.
- `ValueFallsOnlyByLoss` (`OnlyLossLowersValue`): nothing but a disclosed loss makes an open position worth less.
- `ManagerPassesEverythingOn` (`ManagerKeepsNoUsdc`): only a user's transfer to the manager changes its balance. Its
  hypothesis `LossSink # Manager` is necessary: the constructor of the vault does not check it, and the configured sink
  is the burn address in `.env.example:38` and in the `arc-*.json` files of `packages/contracts/deployments`.
- `ContractImplementsLifecycle` (`ImplementsLifecycle`): the refinement of `PolicyLifecycle`, step by step.
- `Invariance`: `IndInv`, on which they rest.

`TypeOK` is not inductive: that `activeSharesByVault[v] - shares` stays natural needs that the policy is
part of the sum, which is `ShareCustody`; that a burn keeps the supply natural needs that the supply is
the sum of the balances (`SupplyIsSum`); and both need that recorded policies name an existing vault and a
beneficiary that is neither this vault nor the manager, and that the identifiers in use are those below the next one
(`PoliciesWellFormed`). `IndInv` is the conjunction. The rest is arithmetic about a price, the assets of a vault plus one
over its shares plus one: each conversion favours the vault (`QuotesFavourVault`), so entering and leaving do not lower
the price (`EnteringKeepsPrice`, `LeavingKeepsPrice`), what a policy is quoted grows with the price
(`QuotientMonotone`), and quotes of shares that do not exceed the supply do not exceed the assets (`SumInProportion`).

Sums are `SumFunction` of the community modules, a recursive definition: `SumLemmas` proves by induction
on finite sets (over a well-founded relation, with a set in the place of a predicate) that it
is a natural, that no summand exceeds it, how it changes when one summand does or one is added, that it does
not depend on the order nor on summands that are zero, and that it keeps a proportion.

### 5.2 Vaults that misbehave (`UntrustedVaultProofs`)

For any answers of the untrusted vault, any amounts and any number of policies: `UntrustedTypeCorrect`
(`UntrustedTypeOK`, proved only), `EachAssetPaidOnce` (`PaidOnce`), `HonestPoliciesAreWhole` (`HonestPoliciesWhole`) and
`GiftsStayWithManager` (`GiftsStay`). `UntrustedInv` says that either no call is under way and the state is sound (`Rest`),
or exactly one frame is on the stack and says how the state differs from the one to go back to (`InCall`). That there is
no second frame is why the balance read before the call may be compared after it. `UntrustedAssumption` tells the
accounts apart: the manager from all others; vaults from the owner and the beneficiary; and the beneficiary from the
owner, because `PaidOnce` reads from its balance what it was paid, so it must not spend.

### 5.3 The guardian (`GuardianProofs`, `ClientProofs`)

For any number of policies, any values, batch size and number of crashes and failures: `IndexReplaysLog` (`IndexIsReplay`),
`RecordsTellTheTruth` (`RecordsTruthful`), `NothingBehindARecord` (`NoneBehindRecord`), `ExitsAreProtected`
(`NoUnprotectedExit`) and `GuardianTypeCorrect` (`TypeOK`, proved only). `GuardianInv` needs four things more than the properties say:
the log and the statuses tell the same story (`LogTruthful`, `TxsTruthful`); both states of the guardian, not only the one
in memory, are sound for it, because a crash goes back to the file (`SoundState`); what the file waits for, memory waits for
or knows to be over (`MemoryAhead`), without which a crash could bring back a record behind which a transaction was sent; and a
policy is evaluated only while no transaction of it is on record (`CycleOrderly`).

`RecordsAreHeeded`, the property of the run, is `NoneBehindRecord` with `SubmittedIsIndexed` (`RecordsAlwaysHeeded`).
`SubmittedIsResumed` (`SubmittedIsIndexed`) stands on that invariant and on a second one, `ResumeInv`: what a state waits for is in its
index unless others closed the policy, in the file as in memory, and whom a cycle serves is in the index until the cycle itself
deletes it. It is the part of `ReconciledUnlessClosed` that is not about fairness: a record that stays `submitted` for ever is one of a
cancelled or expired policy, or the receipt never comes.

For any backlog of blocks, attempts, policies and signals: `VisitsFollowSync` (`VisitsAreUpToDate`), `FileIsPreserved`
(`FileStaysAsItWas`) and `ProcessTypeCorrect` (`ProcessTypeOK`, proved only). `ProcessInv` adds what a save is for: only that of an index
may be under way while blocks are left to read (`SavesInOrder`), a rename follows a complete write, and a process that
works has a file that it could read (`FilesSound`).

### 5.4 The plan and the view (`IntentPreparationProofs`, `ClientProofs`)

For any terms, number of requests and of agents, and whatever others do on the chain: `PlanBelongsToForm` (`PlanIsOfDraft`),
`OpeningsAreVerified` (`OpenedAsVerified`) and `SpendingIsAuthorized` (`SpendIsAuthorized`). `IntentInv` adds the page's own
order: as long as nothing outran it, one request at most is unanswered, for the terms in the form, and all copies under way
are of what is shown (`FormOrderly`). Every plan in circulation, also one in a request or on the clipboard, is one that the endpoint
computed (`Plans`), and the openings of the agents and the wallet's policies match one to one, which exits and openings of others
leave alone. The spending is compared by sums over all policies and all handoffs: an approval replaces the allowance, so it
authorizes no more than its own cost, and an opening moves its cost from the allowance to what was taken.
`VerifiedPlanIsAdmitted` is `VerifiedPlanOpens` without `ENABLED`: every condition that `OpenPlanned` makes on the present
state holds (`Admits`); what is left of that action assigns the next one.

For chains of any height, all values, zero included, and any number of loads in flight: `ViewsTellTheTruth` (`ViewIsTruthful`),
`AbsenceHasReason` (`AbsenceIsReal`), `PageWaitsForSomething` (`WaitingIsReal`) and `ViewsOnlyAdvance` (`ViewsAdvance`).
`ViewInv` says how one block of the chain bounds the later ones (`ChainOrderly`), that every load, answered or
not, is sound for the chain it may have read and goes on to be so while the chain grows, and that a load that is
alone knows nothing older than the page (`LoadsOrderly`).

### 5.5 The lifecycle runner (`LifecycleRunnerProofs`)

For any amounts that satisfy the assumptions, any number of policies, failures and transactions, and everything that
others may do: `EvidenceIsTruthful` (`EvidenceTruthful`), `LifecycleContinued` (`ContinuedNotRepeated`) and `OneLoss`
(`OneLossPerPolicy`). The model runs the actions of `ProtectionManager`, so the proof stands on `IndInv` of 5.1 and on the price
lemmas there. `RunnerInv` is the conjunction of what holds of the chain and what the runner knows at each await:

- `ChainInv`: every policy of the wallet has the opening that the chain recorded for it, on the terms of the
  demonstration; the sink has grown by a loss for each that hit it; without a loss it is above its trigger, so one
  that was executed has been through a loss (here `TermsAssumption` is needed).
- `TrackInv`: which transaction and which policy the locals of `main()` name, and that balances of the sink read
  late include the losses.
- `ContinuationInv`, as long as no opening was abandoned: an opening that is in flight is the one awaited; the wallet
  has one active policy, which is the newest of its own, and before the opening none, which the scan has found if there was one; and the balance of the
  sink that the runner starts from is not above the one at the opening of the policy it goes on with, which
  is how `SettlementHolds` counts losses.
- `VaultInv`: the vault holds no more than the principal and what others paid in, less the losses. This is why a
  preflight that reads an empty vault, or one that holds the principal, can conclude anything.
- `LossInv`, as long as nothing was abandoned: a loss in flight is the one awaited, and whoever is about to apply one has a
  policy whose losses others made up for.
- `EvidenceInv`: the evidence names transactions that exist, and the runner has stopped.

The exceptions are not a matter of the proof: with an opening in flight the second and fourth are false, with a loss
in flight the fifth is. The steps of the chain are put in three classes before the invariant is looked at: what others do and the guardian's
execution (`OthersStep`), an opening (`OpensFor`), a loss (`Loses`), besides transactions without an effect on the contracts
(`Ineffective`). `Keeps` and `Calm` say what a class leaves alone of what the runner knows, and each
await of the runner then has a lemma of its own. TLC checked `RunnerInv` on the instance of `runner_resume` before.

The log search: for any ends and sizes the windows are disjoint, descend and are small enough
(`WindowsAlwaysDescend`) and a search that returns has left out no block (`SearchIsComplete`); together they are `SearchedOnce`, the property of the
run (`EachBlockSearchedOnce`). Neither is inductive: `LoopInv` adds that the blocks covered are exactly those from `Lowest` up and that the loop goes on
right below.

### 5.6 The guardian over the contract (`GuardedManagerProofs`)

The last step joins 5.1 and 5.3. For any users, vaults, policies, losses, interference, crashes and failures:

- `ContractImplementsGuardian` (`ImplementsGuardian`): the contract, its vaults and its ledger implement `GuardianChain`, step by step
  (`OpenMapped`, `ExitMapped`, `UnloggedMapped`, `MineMapped`; `StepMapped` collects them). The mapped variables are computed, so each
  lemma says what a call makes of every reading. The step of an exit needs that the other policies keep their status
  and trigger; the step of a reverted transaction needs the converse of acceptance, that is, `QuoteIsDecisive`.
- `QuoteIsDecisive` (`QuoteDecidesExecution`): status, window and quote tell exactly whether `executeProtection` is accepted. Of the
  other checks of `_exitPolicy` none ever fails for an active policy: the vault has the assets (`QuotePayable`), custody
  covers the shares, and the beneficiary is not the vault, so its balance grows by what was reported.
- `ActivePoliciesCanLeave`: for the same reason every active policy has an exit for any minimum up to its value, paused,
  delisted or after any losses. It is the part of `EveryPolicyCloses` that is not about fairness.
- `GuardianHoldsOverContract` (`GuardianHolds`): the theorems of 5.3 hold of the guardian over the contract. Their proofs are not repeated; `GP` is
  `GuardianProofs` over the readings, and its assumptions on the constants follow from those of the contract (`GuardianConstants`).
- `KeeperIsProtected` (`KeeperExecutionsProtected`): of the transactions sent for a policy at most one succeeds, and that one has
  paid at least the minimum and no more than the trigger. So the duplicate submission of finding 1 costs gas and nothing else.
- `ConfirmationsArePaid` (`ConfirmedIsPaid`): what the guardian holds for confirmed was paid by an execution at its trigger or below.
- `SuccessesAlwaysPaid` (`SuccessesArePaid`): both together, the property of the run.

`GuardedInvariance` has the joint invariant, `IndInv` of the contract and `GuardianInv` over the readings: the first makes a quote
decisive, the second makes the keeper's calls well formed (a policy that was opened, a minimum that is a number). Neither
part needs the other to be inductive for itself, but a call of the keeper is a step of the contract only under the second. What was paid is kept
as `assetsReturned`, which no later call changes (`PolicySteps`, `TransactionSteps`).

### 5.7 Only model-checked

Every liveness property (`EveryPolicyCloses`, `HonestPoliciesClose`, `EveryBreachIsAnswered`, `ReconciledUnlessClosed`,
`StopsWhenAborted`, `ReadyIsEarned`, `EveryPolicyVisited`, `SettlementShown`, `LifecycleCompletes`), since the prover does not reason
about fairness; and `VerifiedPlanOpens`, for its `ENABLED` (see `VerifiedPlanIsAdmitted`).

## 6. Not modelled

JSON forms, log decoding, replaced transactions; metrics other than the date of the last cycle; configuration, logging,
keystore and deployment scripts (input and output, run once); ABI bindings and static pages; `ArcCallProbe`, which counts
calls. Assumed of the chain: one clock for the guardian and the blocks, RPC nodes that agree on finality. Assumed of the
disk: a rename that was answered is durable, which the code does not make sure of with a flush.

## 7. State and plan

Done: the contracts with their abstract specification; vaults that misbehave; the guardian, its process, and the guardian
over the contract; the lifecycle runner and its log search; the policy plan from the form to the opening; the policy view. Every
safety property and every refinement of them is proved, but for the one with `ENABLED`, whose conditions are.

Left: the hazards that no property covers, which `PROJECT.json` lists with their reasons. Two clocks, the guardian's and the
blocks', and two RPC nodes that disagree on what they have, would each be a parameter of `GuardianChain`; a transaction
that is dropped and replaced needs the answer of the RPC client to it, which is outside the repository.
