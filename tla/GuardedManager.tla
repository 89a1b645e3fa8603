--------------------------- MODULE GuardedManager ---------------------------
(***************************************************************************)
(* The contract of ProtectionManager, watched by the guardian of Guardian. *)
(*                                                                         *)
(* Guardian runs over GuardianChain, where a quote moves by itself and an  *)
(* execution is accepted when its quote says so.  Here the chain is the    *)
(* contract with its vaults and its USDC ledger: what the guardian reads   *)
(* is computed from their state, each lifecycle event of the contract is   *)
(* appended to the log, and the keeper's transactions are calls of         *)
(* executeProtection.  The steps of the process are those of Guardian.     *)
(***************************************************************************)
EXTENDS ProtectionManager, Sequences

CONSTANTS MaxTransactions, MaxMoves, Droppable,    \* of GuardianChain
          BatchSize, SlippageBps,                  \* of Guardian
          MaxCrashes, MaxFaults, AnswersMayBeLost

ASSUME GuardedAssumption ==
    /\ MaxTransactions \in Nat /\ MaxMoves \in Nat
    /\ BatchSize \in Nat \ {0} /\ SlippageBps \in 0..BpsDenominator
    /\ MaxCrashes \in Nat /\ MaxFaults \in Nat
    /\ Droppable \in BOOLEAN /\ AnswersMayBeLost \in BOOLEAN

VARIABLES log, finalized, txs, moves,                    \* of GuardianChain
          mem, disk, pc, target, queue, current, minimum, crashes, faults

chainLogVars == <<log, finalized, txs, moves>>
processVars == <<mem, disk, pc, target, queue, current, minimum, crashes, faults>>
guardedVars == <<vars, chainLogVars, processVars>>

\* What the guardian's reads of the contract answer: getPolicy's status and
\* trigger, getPolicyValue, and whether the window has ended.
StatusOf(id) == IF Exists(id) THEN policies[id].status ELSE "None"
TriggerOf(id) == policies[id].triggerAssets
QuoteOf(id) == IF IsActive(id) THEN PolicyValue(id) ELSE 0
EndedPolicies == {id \in PolicyIds : IsActive(id) /\ policies[id].expiresAt <= now}

G == INSTANCE Guardian
    WITH PolicyIds <- PolicyIds, Values <- Nat, Triggers <- 0..MaxPrincipal, MayClose <- TRUE,
         status <- [id \in PolicyIds |-> StatusOf(id)],
         trigger <- [id \in PolicyIds |-> TriggerOf(id)],
         value <- [id \in PolicyIds |-> QuoteOf(id)],
         ended <- EndedPolicies

GuardedInit ==
    /\ Init
    /\ log = <<>> /\ finalized = 0 /\ txs = <<>> /\ moves = 0
    /\ mem = G!EmptyState /\ disk = G!EmptyState
    /\ pc = "down"
    /\ target = 0 /\ queue = {} /\ current = 0 /\ minimum = 0
    /\ crashes = 0 /\ faults = 0

-----------------------------------------------------------------------------
(* Transactions of others than the keeper, and time.                        *)

\* How often the value of an open position has changed, up to its bound.
MovesCounted ==
    /\ moves' = IF \E id \in PolicyIds :
                      IsActive(id) /\ IsActive(id)' /\ PolicyValue(id)' # PolicyValue(id)
                THEN moves + 1 ELSE moves
    /\ moves' <= MaxMoves

OpenLogged == /\ Open
              /\ G!Emit("opened", nextPolicyId)

ExitLogged ==
    \E id \in PolicyIds, minimumAssets \in Minimums :
       \/ /\ ExecuteProtection(id, minimumAssets)
          /\ G!Emit("executed", id)
       \/ /\ \E sender \in Users : CancelPolicy(sender, id, minimumAssets)
          /\ G!Emit("cancelled", id)
       \/ /\ CloseExpiredPolicy(id, minimumAssets)
          /\ G!Emit("expired", id)

\* What the lifecycle log does not tell: the contract's administration, other
\* users of its vaults, and time.
Unlogged == (Admin \/ Outside \/ Tick) /\ UNCHANGED log

OtherStep == /\ OpenLogged \/ ExitLogged \/ Unlogged
             /\ MovesCounted
             /\ UNCHANGED <<finalized, txs, processVars>>

-----------------------------------------------------------------------------
(* The keeper's transactions.                                               *)

\* Mutant: custody is checked before the policy's shares stop counting as active.
AcceptedWhileCounted(id, minimumAssets) ==
    LET policy == policies[id]
        vault == policy.vault
        assets == PolicyValue(id)
        settled == Move(usdc, vault, policy.beneficiary, assets)
    IN /\ assets <= usdc[vault]
       /\ policy.shares <= shareOf[vault][Manager]
       /\ settled[policy.beneficiary] - usdc[policy.beneficiary] = assets
       /\ minimumAssets <= assets
       /\ activeSharesByVault[vault] <= shareOf[vault][Manager] - policy.shares

\* What _exitPolicy checks, and the redemption it asks for: the vault has the assets
\* and the manager the shares, the beneficiary's balance grows by what was reported,
\* the minimum is met and what is left in custody covers the other policies.
ExitAccepted(id, minimumAssets) ==
    LET policy == policies[id]
        vault == policy.vault
        assets == PolicyValue(id)
        settled == Move(usdc, vault, policy.beneficiary, assets)
    IN /\ assets <= usdc[vault]
       /\ policy.shares <= shareOf[vault][Manager]
       /\ settled[policy.beneficiary] - usdc[policy.beneficiary] = assets
       /\ minimumAssets <= assets
       /\ activeSharesByVault[vault] - policy.shares <= shareOf[vault][Manager] - policy.shares

\* executeProtection does not revert.
ExecutionAccepted(id, minimumAssets) ==
    /\ IsActive(id)
    /\ now < policies[id].expiresAt
    /\ PolicyValue(id) <= policies[id].triggerAssets
    /\ ExitAccepted(id, minimumAssets)

MineSuccess(n) ==
    /\ ExecuteProtection(txs[n].id, txs[n].minimumAssets)
    /\ G!Emit("executed", txs[n].id)
    /\ MovesCounted
    /\ txs' = [txs EXCEPT ![n].result = "success"]

MineRevert(n) ==
    /\ ~ ExecutionAccepted(txs[n].id, txs[n].minimumAssets)
    /\ UNCHANGED <<vars, log, moves>>
    /\ txs' = [txs EXCEPT ![n].result = "reverted"]

MineKeeper(n) ==
    /\ txs[n].result = "pending"
    /\ \A m \in 1..(n - 1) : txs[m].result # "pending"
    /\ MineSuccess(n) \/ MineRevert(n)
    /\ UNCHANGED <<finalized, processVars>>

\* A transaction that vanishes and a block that becomes final are no calls of the
\* contract, nor is any step of the process.
OffChain == /\ UNCHANGED vars
            /\ \/ /\ G!Finalize \/ \E n \in 1..Len(txs) : G!Drop(n)
                  /\ UNCHANGED processVars
               \/ G!Monitor \/ G!Evaluate \/ G!Execute \/ G!Fail \/ G!Crash

GuardedNext == \/ OtherStep
               \/ \E n \in 1..Len(txs) : MineKeeper(n)
               \/ OffChain

GuardedSpec == GuardedInit /\ [][GuardedNext]_guardedVars

-----------------------------------------------------------------------------
(* Properties.                                                              *)

\* The guardian over the contract is the guardian over GuardianChain: what is
\* proved of it there holds here.  A loss moves every position of a vault at
\* once, an opening, an exit or a deposit may move the others by a rounding, and
\* several windows end with one block.
ImplementsGuardian == G!Spec

\* The status, the window and the quote that the guardian reads tell exactly
\* whether the contract would accept its execution: no other position, rounding,
\* holding or choice of beneficiary makes a breach impossible to execute.
QuoteDecidesExecution ==
    \A id \in PolicyIds, minimumAssets \in Minimums :
       ExecutionAccepted(id, minimumAssets) <=> G!Executable(id, minimumAssets)

\* Of all transactions the guardian ever sends for a policy at most one succeeds,
\* and that one has paid the beneficiary at least the minimum it asked for and no
\* more than the trigger.
KeeperExecutionsProtected ==
    \A n \in 1..Len(txs) :
       LET policy == policies[txs[n].id]
       IN txs[n].result = "success" =>
             /\ policy.status = "Executed"
             /\ txs[n].minimumAssets <= policy.assetsReturned
             /\ policy.assetsReturned <= policy.triggerAssets
             /\ \A m \in 1..Len(txs) :
                   txs[m].id = txs[n].id /\ txs[m].result = "success" => m = n

\* A policy that the guardian holds for confirmed, in memory or in its file, was
\* paid out by an execution at its trigger or below, by whomever.
ConfirmedIsPaid ==
    \A s \in G!States, id \in PolicyIds :
       s.executions[id].status = "confirmed" =>
          /\ Exists(id) /\ policies[id].status = "Executed"
          /\ policies[id].assetsReturned <= policies[id].triggerAssets
          /\ id \notin s.policies

\* The money behind the two ways in which the guardian calls a policy executed,
\* a receipt and a final event: each stands for a payment within the terms.
SuccessesArePaid == KeeperExecutionsProtected /\ ConfirmedIsPaid

\* What the guardian promises of its index and of its records over a chain of quotes,
\* with two policies whose values move together and any exits in between.
GuardianHolds == G!IndexIsReplay /\ G!RecordsTruthful /\ G!RecordsAreHeeded
=============================================================================
