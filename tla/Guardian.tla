------------------------------ MODULE Guardian ------------------------------
(***************************************************************************)
(* The guardian process of apps/guardian/src: FinalizedPolicyMonitor,      *)
(* PolicyEvaluator, ProtectionExecutor and GuardianRunner over the durable *)
(* FileGuardianStateStore.                                                 *)
(*                                                                         *)
(* One action is the code between two awaits, so the chain moves, an RPC   *)
(* call fails or the process dies between any two of them.  `pc` is the    *)
(* await the process is suspended in.  A failed call that withRetry tries  *)
(* again leaves the process where it is and is not a step; running out of  *)
(* attempts is one.                                                        *)
(***************************************************************************)
EXTENDS GuardianChain

CONSTANTS BatchSize,       \* blocks per getLogs query
          SlippageBps,     \* exitSlippageBps
          MaxCrashes,      \* bound: times the process dies
          MaxFaults,       \* bound: failed saves and lost answers
          AnswersMayBeLost \* may a broadcast be reported as a failure?

BpsDenominator == 10000

ASSUME GuardianAssumption ==
    /\ BatchSize \in Nat \ {0}
    /\ SlippageBps \in 0..BpsDenominator
    /\ MaxCrashes \in Nat /\ MaxFaults \in Nat
    /\ AnswersMayBeLost \in BOOLEAN

VARIABLES mem,         \* GuardianState of the running process
          disk,        \* GuardianState in the state file
          pc,          \* the await the process is in
          target,      \* sync: the finalized block read at its start
          queue,       \* runOnce: policies of the snapshot still to visit
          current,     \* runOnce: the policy being visited, 0 for none
          minimum,     \* minimumAssets of the evaluation
          crashes, faults

localVars == <<target, queue, current, minimum>>
faultVars == <<crashes, faults>>
vars == <<chainVars, mem, disk, pc, localVars, faultVars>>

\* An ExecutionRecord: its status and the transaction it names.
Record(s, tx) == [status |-> s, tx |-> tx]
NoRecord == Record("none", 0)

EmptyState == [cursor |-> 0, policies |-> {},
               executions |-> [id \in PolicyIds |-> NoRecord]]

Init == /\ ChainInit
        /\ mem = EmptyState /\ disk = EmptyState
        /\ pc = "down"
        /\ target = 0 /\ queue = {} /\ current = 0 /\ minimum = 0
        /\ crashes = 0 /\ faults = 0

Idle == UNCHANGED <<chainVars, faultVars>>

\* store.save: the file is replaced as a whole (write aside, then rename).
Save == disk' = mem

\* A save or an answer that fails uses one of the bounded faults.
Fault == faults < MaxFaults /\ faults' = faults + 1 /\ UNCHANGED crashes

-----------------------------------------------------------------------------
(* FinalizedPolicyMonitor.sync                                              *)

\* Mutant: cursor and records are restored, the index is not.
StartWithoutIndex == /\ pc = "down"
                     /\ mem' = [disk EXCEPT !.policies = {}]
                     /\ pc' = "head"
                     /\ UNCHANGED <<disk, localVars>> /\ Idle

Start == /\ pc = "down"
         /\ mem' = disk
         /\ pc' = "head"
         /\ UNCHANGED <<disk, localVars>> /\ Idle

ReadHead == /\ pc = "head"
            /\ target' = finalized
            /\ pc' = "logs"
            /\ UNCHANGED <<mem, disk, queue, current, minimum>> /\ Idle

\* Mutant: every exit is recorded as an execution.
ApplyExitAsExecution(state, event, n) ==
    IF event.kind = "opened"
    THEN [state EXCEPT !.policies = @ \cup {event.id}]
    ELSE [state EXCEPT !.policies = @ \ {event.id},
                       !.executions[event.id] = Record("confirmed", -n)]

ApplyEvent(state, event, n) ==
    IF event.kind = "opened"
    THEN [state EXCEPT !.policies = @ \cup {event.id}]
    ELSE [state EXCEPT !.policies = @ \ {event.id},
             !.executions = IF event.kind = "executed"
                            THEN [@ EXCEPT ![event.id] = Record("confirmed", -n)]
                            ELSE @]

\* Mutant: the events of a batch are applied last to first.
IndexedUnsorted(state, toBlock) ==
    LET after[n \in state.cursor..toBlock] ==
          IF n = toBlock THEN state ELSE ApplyEvent(after[n + 1], log[n + 1], n + 1)
    IN [after[state.cursor] EXCEPT !.cursor = toBlock]

\* The events of a batch of blocks, applied in order, then the cursor.
Indexed(state, toBlock) ==
    LET after[n \in state.cursor..toBlock] ==
          IF n = state.cursor THEN state ELSE ApplyEvent(after[n - 1], log[n], n)
    IN [after[toBlock] EXCEPT !.cursor = toBlock]

ReadLogs ==
    /\ pc = "logs"
    /\ mem.cursor < target
    /\ LET last == mem.cursor + BatchSize
       IN mem' = Indexed(mem, IF last < target THEN last ELSE target)
    /\ pc' = "saveIndex"
    /\ UNCHANGED <<disk, localVars>> /\ Idle

SaveIndex == /\ pc = "saveIndex"
             /\ Save
             /\ pc' = "logs"
             /\ UNCHANGED <<mem, localVars>> /\ Idle

\* The cursor and the policies stay ahead in memory; sync starts again, by its
\* retry or in the next cycle.
SaveIndexFails == /\ pc = "saveIndex"
                  /\ Fault
                  /\ pc' = "head"
                  /\ UNCHANGED <<chainVars, mem, disk, localVars>>

\* The log is read: runOnce takes its snapshot of the policies.
SyncDone == /\ pc = "logs"
            /\ ~ mem.cursor < target
            /\ queue' = mem.policies
            /\ pc' = "next"
            /\ UNCHANGED <<mem, disk, target, current, minimum>> /\ Idle

\* Out of attempts while syncing: the cycle fails and the next one syncs again.
SyncFails == /\ pc = "logs"
             /\ pc' = "head"
             /\ UNCHANGED <<mem, disk, localVars>> /\ Idle

-----------------------------------------------------------------------------
(* GuardianRunner.runOnce and PolicyEvaluator.evaluate                      *)

\* Mutant: a submitted transaction is not resumed, the policy is evaluated.
VisitWithoutResuming ==
         /\ pc = "next"
         /\ \E id \in queue :
               /\ \A other \in queue : id <= other
               /\ current' = id
               /\ queue' = queue \ {id}
               /\ pc' = "policy"
         /\ UNCHANGED <<mem, disk, target, minimum>> /\ Idle

\* The next policy of the snapshot, by identifier.
Visit == /\ pc = "next"
         /\ \E id \in queue :
               /\ \A other \in queue : id <= other
               /\ current' = id
               /\ queue' = queue \ {id}
               /\ pc' = IF mem.executions[id].status = "submitted" THEN "receipt"
                                                                   ELSE "policy"
         /\ UNCHANGED <<mem, disk, target, minimum>> /\ Idle

CycleDone == /\ pc = "next"
             /\ queue = {}
             /\ pc' = "head"
             /\ UNCHANGED <<mem, disk, localVars>> /\ Idle

\* Out of attempts, or a simulation that was rejected: on to the next policy.
GiveUp == /\ pc \in {"policy", "value", "simulate", "receipt"}
          /\ pc' = "next"
          /\ UNCHANGED <<mem, disk, localVars>> /\ Idle

ReadPolicy ==
    /\ pc = "policy"
    /\ IF status[current] # "Active"
       THEN /\ mem' = [mem EXCEPT !.policies = @ \ {current}]
            /\ pc' = "saveDeletion"
       ELSE /\ pc' = IF current \in ended THEN "next" ELSE "value"
            /\ UNCHANGED mem
    /\ UNCHANGED <<disk, localVars>> /\ Idle

SaveDeletion == /\ pc = "saveDeletion"
                /\ Save
                /\ pc' = "next"
                /\ UNCHANGED <<mem, localVars>> /\ Idle

\* This save is not caught inside the cycle: the cycle ends.
SaveDeletionFails == /\ pc = "saveDeletion"
                     /\ Fault
                     /\ pc' = "head"
                     /\ UNCHANGED <<chainVars, mem, disk, localVars>>

\* A second read of the chain: a policy that was settled since is worth zero.
ReadValue ==
    /\ pc = "value"
    /\ IF value[current] > trigger[current]
       THEN pc' = "next" /\ UNCHANGED minimum
       ELSE /\ minimum' = (value[current] * (BpsDenominator - SlippageBps)) \div BpsDenominator
            /\ pc' = "simulate"
    /\ UNCHANGED <<mem, disk, target, queue, current>> /\ Idle

-----------------------------------------------------------------------------
(* ProtectionExecutor.execute and resume                                    *)

\* Mutant: nothing is simulated.
SkipSimulation == /\ pc = "simulate"
                  /\ pc' = "submit"
                  /\ UNCHANGED <<mem, disk, localVars>> /\ Idle

Simulate == /\ pc = "simulate"
            /\ Executable(current, minimum)
            /\ pc' = "submit"
            /\ UNCHANGED <<mem, disk, localVars>> /\ Idle

Broadcast ==
    /\ Len(txs) < MaxTransactions
    /\ txs' = Append(txs, [id |-> current, minimumAssets |-> minimum, result |-> "pending"])
    /\ UNCHANGED <<status, trigger, value, ended, log, finalized, moves>>

\* The transaction is sent and its hash is recorded, first in memory.
Submit == /\ pc = "submit"
          /\ Broadcast
          /\ mem' = [mem EXCEPT !.executions[current] = Record("submitted", Len(txs) + 1)]
          /\ pc' = "saveHash"
          /\ UNCHANGED <<disk, localVars, faultVars>>

\* The transaction is sent but the call fails: withRetry sends it again, or
\* runs out of attempts, and no hash is recorded.
SubmitAnswerLost == /\ pc = "submit"
                    /\ AnswersMayBeLost
                    /\ Broadcast /\ Fault
                    /\ pc' \in {"submit", "next"}
                    /\ UNCHANGED <<mem, disk, localVars>>

SubmitFails == /\ pc = "submit"
               /\ pc' = "next"
               /\ UNCHANGED <<mem, disk, localVars>> /\ Idle

SaveHash == /\ pc = "saveHash"
            /\ Save
            /\ pc' = "receipt"
            /\ UNCHANGED <<mem, localVars>> /\ Idle

\* The hash stays in memory: the next cycle resumes from it.
SaveHashFails == /\ pc = "saveHash"
                 /\ Fault
                 /\ pc' = "next"
                 /\ UNCHANGED <<chainVars, mem, disk, localVars>>

\* Mutant: a transaction that reverted also ends the policy.
ReadReceiptAsFinal ==
    /\ pc = "receipt"
    /\ LET tx == mem.executions[current].tx
       IN /\ txs[tx].result \in {"success", "reverted"}
          /\ mem' = [mem EXCEPT !.executions[current] =
                        Record(IF txs[tx].result = "success" THEN "confirmed"
                                                             ELSE "reverted", tx),
                                !.policies = @ \ {current}]
    /\ pc' = "saveOutcome"
    /\ UNCHANGED <<disk, localVars>> /\ Idle

ReadReceipt ==
    /\ pc = "receipt"
    /\ LET tx == mem.executions[current].tx
       IN \/ /\ txs[tx].result = "success"
             /\ mem' = [mem EXCEPT !.executions[current] = Record("confirmed", tx),
                                   !.policies = @ \ {current}]
          \/ /\ txs[tx].result = "reverted"
             /\ mem' = [mem EXCEPT !.executions[current] = Record("reverted", tx)]
    /\ pc' = "saveOutcome"
    /\ UNCHANGED <<disk, localVars>> /\ Idle

SaveOutcome == /\ pc = "saveOutcome"
               /\ Save
               /\ pc' = "next"
               /\ UNCHANGED <<mem, localVars>> /\ Idle

SaveOutcomeFails == /\ pc = "saveOutcome"
                    /\ Fault
                    /\ pc' = "next"
                    /\ UNCHANGED <<chainVars, mem, disk, localVars>>

-----------------------------------------------------------------------------

\* The process dies, or is stopped, in any await; what it held is lost.
Crash == /\ pc # "down"
         /\ crashes < MaxCrashes
         /\ crashes' = crashes + 1
         /\ pc' = "down"
         /\ mem' = EmptyState
         /\ target' = 0 /\ queue' = {} /\ current' = 0 /\ minimum' = 0
         /\ UNCHANGED <<chainVars, disk, faults>>

Monitor == Start \/ ReadHead \/ ReadLogs \/ SaveIndex \/ SyncDone
Evaluate == Visit \/ CycleDone \/ ReadPolicy \/ SaveDeletion \/ ReadValue
Execute == Simulate \/ Submit \/ SaveHash \/ ReadReceipt \/ SaveOutcome
Fail == \/ SyncFails \/ GiveUp \/ SubmitFails \/ SubmitAnswerLost
        \/ SaveIndexFails \/ SaveDeletionFails \/ SaveHashFails \/ SaveOutcomeFails

ChainAlone == UNCHANGED <<mem, disk, pc, localVars, faultVars>>
ChainStep == ChainNext /\ ChainAlone

Next == Monitor \/ Evaluate \/ Execute \/ Fail \/ Crash \/ ChainStep

Spec == Init /\ [][Next]_vars

\* Every await ends, because withRetry and the client's timeouts bound it, and a
\* call that is made again and again is answered in the end: no RPC endpoint
\* fails for ever.  The chain mines and finalizes.  Nothing is assumed of
\* owners, other keepers, values, windows, crashes and failures.
Fairness ==
    /\ WF_vars(Monitor \/ Evaluate \/ Execute \/ Fail)
    /\ SF_vars(ReadLogs) /\ SF_vars(SyncDone)
    /\ \A id \in PolicyIds : /\ SF_vars(current = id /\ ReadPolicy)
                             /\ SF_vars(current = id /\ ReadValue)
                             /\ SF_vars(current = id /\ Simulate)
                             /\ SF_vars(current = id /\ Submit)
                             /\ SF_vars(current = id /\ ReadReceipt)
    /\ \A n \in 1..MaxTransactions :
          WF_vars(n <= Len(txs) /\ Mine(n) /\ ChainAlone)
    /\ WF_vars(Finalize /\ ChainAlone)

FairSpec == Spec /\ Fairness

-----------------------------------------------------------------------------
(* Properties.                                                              *)

Records == [status : {"none", "submitted", "confirmed", "reverted"}, tx : Int]
GuardianStates == [cursor : Nat, policies : SUBSET PolicyIds,
                   executions : [PolicyIds -> Records]]

\* Every variable has its type, and while a policy is being served it is known
\* which one.
TypeOK ==
    /\ status \in [PolicyIds -> Closed \cup {"None", "Active"}]
    /\ trigger \in [PolicyIds -> Triggers \cup {0}]
    /\ value \in Quotes(status)
    /\ ended \subseteq {id \in PolicyIds : status[id] = "Active"}
    /\ log \in Seq([kind : Kinds, id : PolicyIds])
    /\ txs \in Seq([id : PolicyIds, minimumAssets : Nat,
                    result : {"pending", "success", "reverted", "dropped"}])
    /\ Len(txs) <= MaxTransactions
    /\ finalized \in 0..Len(log) /\ target \in 0..finalized
    /\ moves \in 0..MaxMoves /\ crashes \in 0..MaxCrashes /\ faults \in 0..MaxFaults
    /\ mem \in GuardianStates /\ disk \in GuardianStates
    /\ queue \subseteq PolicyIds /\ minimum \in Nat
    /\ pc \in {"down", "head", "logs", "saveIndex", "next", "policy", "saveDeletion",
               "value", "simulate", "submit", "saveHash", "receipt", "saveOutcome"}
    /\ current \in PolicyIds \cup {0}
    /\ pc \in {"policy", "saveDeletion", "value", "simulate", "submit", "saveHash",
               "receipt", "saveOutcome"} => current # 0

\* The state in the file, and the one in memory while the process runs.
States == {disk} \cup IF pc = "down" THEN {} ELSE {mem}

Logged(kinds, cursor) == {log[n].id : n \in {m \in 1..cursor : log[m].kind \in kinds}}

\* A projection never runs ahead of finality and is never missing an active
\* policy that its cursor has passed, nor keeps one whose exit it has passed: a
\* retry after a failed save, a restart or a deletion between two batches
\* neither skips nor repeats an event.
IndexIsReplay ==
    \A s \in States :
       LET opened == Logged({"opened"}, s.cursor)
       IN /\ s.cursor <= finalized
          /\ disk.cursor <= s.cursor
          /\ {id \in opened : status[id] = "Active"} \subseteq s.policies
          /\ s.policies \subseteq opened \ Logged(Kinds \ {"opened"}, s.cursor)

\* What the guardian has recorded of an execution is what happened: confirmed
\* means executed on chain and no longer indexed, whoever executed it, and a
\* submitted or reverted record names a transaction of that policy.
RecordsTruthful ==
    \A s \in States, id \in PolicyIds :
       LET record == s.executions[id]
       IN CASE record.status = "none" -> TRUE
            [] record.status = "confirmed" -> status[id] = "Executed" /\ id \notin s.policies
            [] record.status = "submitted" -> record.tx \in 1..Len(txs) /\ txs[record.tx].id = id
            [] record.status = "reverted" ->
                  /\ record.tx \in 1..Len(txs) /\ txs[record.tx].id = id
                  /\ txs[record.tx].result = "reverted"

\* A policy has at most one transaction in flight: the guardian does not submit
\* a second one while the first may still be mined.
OneInFlight ==
    \A m, n \in 1..Len(txs) :
       txs[m].id = txs[n].id /\ txs[m].result = "pending" /\ txs[n].result = "pending" => m = n

\* A transaction whose hash is on record, in memory or in the file, is the last
\* one that was sent for its policy as long as it is pending: only a hash that was
\* never recorded can be followed by a second submission, whatever fails.
NoneBehindRecord ==
    \A s \in States, id \in PolicyIds, n \in 1..Len(txs) :
       LET record == s.executions[id]
       IN record.status = "submitted" /\ txs[record.tx].result = "pending" /\ txs[n].id = id =>
             n <= record.tx

\* runOnce comes back to indexed policies only (runner.ts:58-67), so a transaction that
\* is on record as submitted has its policy in the index of the same state, in memory
\* and in the file, however deletions, receipts and events of others race.  The
\* exception is a policy that its owner cancelled or that was closed as expired.
SubmittedIsIndexed ==
    \A s \in States, id \in PolicyIds :
       s.executions[id].status = "submitted" =>
          id \in s.policies \/ status[id] \in {"Cancelled", "Expired"}

\* A transaction on record is neither passed over nor forgotten: none is sent behind
\* it while it is pending, and the cycles come back to it until its receipt was read.
RecordsAreHeeded == NoneBehindRecord /\ SubmittedIsIndexed

\* Status and value are two reads.  A policy that settles between them is quoted
\* zero, and that quote never becomes the minimum of a transaction: an exit of
\* the guardian is never unprotected.
NoUnprotectedExit ==
    \A n \in 1..Len(txs) : \E v \in Values :
       /\ v <= trigger[txs[n].id]
       /\ txs[n].minimumAssets = (v * (BpsDenominator - SlippageBps)) \div BpsDenominator

\* A breach that lasts is answered: the policy is executed, closed by somebody
\* else, recovers, or its window ends.  Failed reads, failed saves, a reverted
\* exit, a crash or the other policy only delay the answer.
Breached(id) == status[id] = "Active" /\ id \notin ended /\ value[id] <= trigger[id]
EveryBreachIsAnswered == \A id \in PolicyIds : Breached(id) ~> ~ Breached(id)

\* When the process starts with a transaction recorded as submitted, it is
\* reconciled: the record does not stay that way, even when another keeper's
\* execution comes first.  The exception is a policy that its owner cancels or that is
\* closed as expired meanwhile: its exit takes it off the index (monitor.ts:27-37),
\* runOnce does not come back to it (runner.ts:58-66) and the record stays.
ReconciledUnlessClosed ==
    \A id \in PolicyIds :
       (pc = "down" /\ disk.executions[id].status = "submitted") ~>
          \/ pc # "down" /\ mem.executions[id].status # "submitted"
          \/ status[id] \in {"Cancelled", "Expired"}
=============================================================================
