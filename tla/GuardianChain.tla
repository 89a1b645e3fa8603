--------------------------- MODULE GuardianChain ---------------------------
(***************************************************************************)
(* The chain as the guardian sees it: the status, the trigger, the value   *)
(* and the window of each policy, the lifecycle events in the order        *)
(* (block, log index) gives them, how much of that log is final, and the   *)
(* keeper's transactions.  It is what the guardian may rely on of          *)
(* ProtectionManager: the vault is left out, so a quote is one of a few    *)
(* numbers that may change with any transaction, for all policies at once. *)
(* GuardedManager shows that the contract implements it.                   *)
(***************************************************************************)
EXTENDS Integers, Sequences

CONSTANTS PolicyIds,       \* identifiers of the policies that may be opened
          Values,          \* values an open position may have
          Triggers,        \* triggerAssets a policy may have
          MaxTransactions, \* bound: transactions the keeper ever broadcasts
          MaxMoves,        \* bound: transactions that change an open position's value
          Droppable,       \* may a broadcast transaction vanish unmined?
          MayClose         \* may owners cancel, others execute or close?

ASSUME ChainAssumption ==
    /\ PolicyIds \subseteq Nat \ {0}
    /\ Values \subseteq Nat /\ Triggers \subseteq Nat
    /\ MaxTransactions \in Nat /\ MaxMoves \in Nat
    /\ Droppable \in BOOLEAN /\ MayClose \in BOOLEAN

VARIABLES status,      \* policy -> its status, "None" before it is opened
          trigger,     \* policy -> its triggerAssets, 0 before it is opened
          value,       \* policy -> what getPolicyValue answers, 0 unless it is active
          ended,       \* active policies whose window has ended
          log,         \* lifecycle events, one per block
          finalized,   \* number of blocks of the log that are final
          txs,         \* the keeper's transactions, in nonce order
          moves        \* transactions that changed the value of an open position

chainVars == <<status, trigger, value, ended, log, finalized, txs, moves>>

Kinds == {"opened", "executed", "cancelled", "expired"}
Closed == {"Executed", "Cancelled", "Expired"}

ChainInit == /\ status = [id \in PolicyIds |-> "None"]
             /\ trigger = [id \in PolicyIds |-> 0]
             /\ value = [id \in PolicyIds |-> 0]
             /\ ended = {}
             /\ log = <<>>
             /\ finalized = 0
             /\ txs = <<>>
             /\ moves = 0

Emit(kind, id) == log' = Append(log, [kind |-> kind, id |-> id])

\* What getPolicyValue may answer when the policies have status s.
Quotes(s) == {q \in [PolicyIds -> Values \cup {0}] :
                 \A id \in PolicyIds : q[id] \in IF s[id] = "Active" THEN Values ELSE {0}}

\* A transaction may change what every policy is worth.
ValuesMove ==
    /\ value' \in Quotes(status')
    /\ moves' = IF \E id \in PolicyIds : /\ status[id] = "Active" /\ status'[id] = "Active"
                                        /\ value'[id] # value[id]
                THEN moves + 1 ELSE moves
    /\ moves' <= MaxMoves

\* executeProtection's guards, for a caller that asks for minimumAssets.
Executable(id, minimumAssets) ==
    /\ status[id] = "Active"
    /\ id \notin ended
    /\ value[id] <= trigger[id]
    /\ minimumAssets <= value[id]

OpenPolicy(id) ==
    /\ status[id] = "None"
    /\ \A i \in PolicyIds : i < id => status[i] # "None"
    /\ status' = [status EXCEPT ![id] = "Active"]
    /\ \E t \in Triggers : trigger' = [trigger EXCEPT ![id] = t]
    /\ ValuesMove
    /\ Emit("opened", id)
    /\ UNCHANGED <<ended, finalized, txs>>

\* An active policy leaves.
Leave(id, outcome, kind) ==
    /\ status' = [status EXCEPT ![id] = outcome]
    /\ ended' = ended \ {id}
    /\ ValuesMove
    /\ Emit(kind, id)
    /\ UNCHANGED <<trigger, finalized>>

\* Exits by others than the keeper: the owner, or anybody.
CloseByOther(id) ==
    /\ MayClose
    /\ status[id] = "Active"
    /\ \/ id \notin ended /\ Leave(id, "Cancelled", "cancelled")
       \/ id \in ended /\ Leave(id, "Expired", "expired")
       \/ Executable(id, 0) /\ Leave(id, "Executed", "executed")
    /\ UNCHANGED txs

\* A loss or a gain of the vault, and others' deposits and redemptions.
MoveValue ==
    /\ UNCHANGED status
    /\ ValuesMove
    /\ value' # value
    /\ UNCHANGED <<trigger, ended, log, finalized, txs>>

\* Time passes: some windows end.
EndWindows ==
    /\ ended' \in SUBSET {id \in PolicyIds : status[id] = "Active"}
    /\ ended \subseteq ended' /\ ended' # ended
    /\ UNCHANGED <<status, trigger, value, log, finalized, txs, moves>>

\* The keeper's transactions are mined in nonce order.  A mined transaction
\* either executes the policy or reverts.
Mine(n) ==
    /\ txs[n].result = "pending"
    /\ \A m \in 1..(n - 1) : txs[m].result # "pending"
    /\ \/ /\ Executable(txs[n].id, txs[n].minimumAssets)
          /\ txs' = [txs EXCEPT ![n].result = "success"]
          /\ Leave(txs[n].id, "Executed", "executed")
       \/ /\ ~ Executable(txs[n].id, txs[n].minimumAssets)
          /\ txs' = [txs EXCEPT ![n].result = "reverted"]
          /\ UNCHANGED <<status, trigger, value, ended, log, finalized, moves>>

Drop(n) ==
    /\ Droppable /\ txs[n].result = "pending"
    /\ txs' = [txs EXCEPT ![n].result = "dropped"]
    /\ UNCHANGED <<status, trigger, value, ended, log, finalized, moves>>

Finalize ==
    /\ finalized < Len(log)
    /\ finalized' = finalized + 1
    /\ UNCHANGED <<status, trigger, value, ended, log, txs, moves>>

ChainNext == \/ \E id \in PolicyIds : OpenPolicy(id) \/ CloseByOther(id)
             \/ MoveValue
             \/ EndWindows
             \/ \E n \in 1..Len(txs) : Mine(n) \/ Drop(n)
             \/ Finalize
=============================================================================
