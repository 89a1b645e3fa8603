--------------------------- MODULE GuardianProofs ---------------------------
(***************************************************************************)
(* What the guardian's index and its execution records say is so, for any  *)
(* policies, values, batch size and number of failures and crashes.        *)
(***************************************************************************)
EXTENDS Guardian, SumLemmas

Submitted(record) == record.status = "submitted" /\ txs[record.tx].result = "pending"

OpenedBy(id, cursor) == \E n \in 1..cursor : log[n].kind = "opened" /\ log[n].id = id

\* The log says what the statuses say, and a policy's opening is its first event.
LogTruthful ==
    /\ \A id \in PolicyIds : status[id] # "None" => OpenedBy(id, Len(log))
    /\ \A n \in 1..Len(log) :
          /\ log[n].kind = "opened" => status[log[n].id] # "None"
          /\ log[n].kind = "executed" => status[log[n].id] = "Executed"
          /\ log[n].kind \notin {"opened", "executed"} =>
                status[log[n].id] \in {"Cancelled", "Expired"}
    /\ \A m, n \in 1..Len(log) : m < n /\ log[m].id = log[n].id => log[n].kind # "opened"
    /\ \A n \in 1..Len(log) : OpenedBy(log[n].id, n)

\* A transaction is sent for a policy that was opened, and one that succeeded has
\* executed it.
TxsTruthful ==
    \A n \in 1..Len(txs) : /\ status[txs[n].id] # "None"
                           /\ txs[n].result = "success" => status[txs[n].id] = "Executed"

\* A set of policies is the replay of the events up to a cursor, except that
\* a settled policy may be gone before its exit is read.
Replays(policies, cursor) ==
    /\ \A n \in 1..cursor :
          log[n].kind = "opened" /\ status[log[n].id] = "Active" => log[n].id \in policies
    /\ \A id \in policies :
          /\ OpenedBy(id, cursor)
          /\ \A n \in 1..cursor : log[n].id = id => log[n].kind = "opened"

\* A record says what happened, and only of a policy that was indexed.
Truthful(id, record, policies, cursor) ==
    /\ record.status # "none" => OpenedBy(id, cursor)
    /\ record.status = "confirmed" => status[id] = "Executed" /\ id \notin policies
    /\ record.status \in {"submitted", "reverted"} =>
          record.tx \in 1..Len(txs) /\ txs[record.tx].id = id
    /\ record.status = "reverted" => txs[record.tx].result = "reverted"

AllTruthful(executions, policies, cursor) ==
    \A id \in PolicyIds : Truthful(id, executions[id], policies, cursor)

\* No transaction of a policy was sent after the one its record waits for.
NoneBehind(executions) ==
    \A id \in PolicyIds, n \in 1..Len(txs) :
       Submitted(executions[id]) /\ txs[n].id = id => n <= executions[id].tx

SoundState(s) == /\ s.cursor <= finalized
                 /\ Replays(s.policies, s.cursor)
                 /\ AllTruthful(s.executions, s.policies, s.cursor)
                 /\ NoneBehind(s.executions)

\* Memory starts from the file and stays ahead of it; what the file waits for,
\* memory waits for too or knows to be over.
MemoryAhead ==
    IF pc = "down"
    THEN mem = EmptyState /\ queue = {} /\ current = 0
    ELSE /\ disk.cursor <= mem.cursor
         /\ \A id \in PolicyIds :
               Submitted(disk.executions[id]) =>
                  \/ mem.executions[id] = disk.executions[id]
                  \/ mem.executions[id].status = "confirmed"

Evaluating == {"policy", "value", "simulate", "submit"}
Serving == Evaluating \cup {"saveDeletion", "saveHash", "receipt", "saveOutcome"}

\* Whom a cycle serves: policies of the index, none twice and none that is known to
\* be executed; a policy is evaluated only while no transaction of it is on record.
CycleOrderly ==
    /\ \A id \in queue : OpenedBy(id, mem.cursor)
    /\ current # 0 => OpenedBy(current, mem.cursor)
    /\ pc \in Serving => current \notin queue
    /\ pc \in Serving \cup {"next"} =>
          \A id \in queue : mem.executions[id].status # "confirmed"
    /\ pc \in Evaluating => mem.executions[current].status \notin {"submitted", "confirmed"}
    /\ pc \in {"saveHash", "receipt"} => mem.executions[current].status = "submitted"

\* The minimum that protects an exit of a policy at a value in breach.
Protects(id, minimumAssets) ==
    \E v \in Values :
       v <= trigger[id] /\ minimumAssets = (v * (BpsDenominator - SlippageBps)) \div BpsDenominator

\* The minimum about to be used protects the exit, unless the policy is settled,
\* which the simulation will notice.
MinimumSound ==
    /\ pc \in {"simulate", "submit"} =>
          Protects(current, minimum) \/ (pc = "simulate" /\ status[current] \in Closed)
    /\ \A n \in 1..Len(txs) : Protects(txs[n].id, txs[n].minimumAssets)

\* The inductive invariant.
GuardianInv == /\ TypeOK /\ LogTruthful /\ TxsTruthful
               /\ SoundState(mem) /\ SoundState(disk) /\ MemoryAhead
               /\ CycleOrderly /\ MinimumSound

-----------------------------------------------------------------------------
(* The chain.                                                               *)

Events == [kind : Kinds, id : PolicyIds]
Transactions == [id : PolicyIds, minimumAssets : Nat,
                 result : {"pending", "success", "reverted", "dropped"}]

ChainTypeOK == /\ status \in [PolicyIds -> Closed \cup {"None", "Active"}]
               /\ trigger \in [PolicyIds -> Triggers \cup {0}]
               /\ value \in Quotes(status)
               /\ ended \subseteq {id \in PolicyIds : status[id] = "Active"}
               /\ log \in Seq(Events)
               /\ txs \in Seq(Transactions)
               /\ Len(txs) <= MaxTransactions
               /\ finalized \in 0..Len(log)
               /\ moves \in 0..MaxMoves

\* The log only grows, an opened policy keeps its trigger, and a settled one stays
\* as it is.
LogGrows == /\ Len(log) <= Len(log') /\ \A n \in 1..Len(log) : log'[n] = log[n]
            /\ \A id \in PolicyIds : /\ status[id] # "None" =>
                                           status'[id] # "None" /\ trigger'[id] = trigger[id]
                                     /\ status[id] \in Closed => status'[id] = status[id]

\* Transactions are only added, and one whose outcome is known keeps it.
TxsGrow == /\ Len(txs) <= Len(txs')
           /\ \A n \in 1..Len(txs) :
                 /\ txs'[n].id = txs[n].id /\ txs'[n].minimumAssets = txs[n].minimumAssets
                 /\ txs[n].result # "pending" => txs'[n].result = txs[n].result

\* The status a policy takes with an event.
Outcome(kind) == CASE kind = "opened" -> "Active"
                   [] kind = "executed" -> "Executed"
                   [] kind = "cancelled" -> "Cancelled"
                   [] kind = "expired" -> "Expired"

\* A policy is opened once, with its trigger, and leaves once.
Settle(id, kind) == /\ status[id] = IF kind = "opened" THEN "None" ELSE "Active"
                    /\ status' = [status EXCEPT ![id] = Outcome(kind)]
                    /\ \A i \in PolicyIds :
                          i # id \/ kind # "opened" => trigger'[i] = trigger[i]
                    /\ Emit(kind, id)

\* What Append adds and keeps.
LEMMA Appended ==
    ASSUME NEW S, NEW s \in Seq(S), NEW e \in S
    PROVE  /\ Append(s, e) \in Seq(S)
           /\ Len(s) \in Nat /\ Len(Append(s, e)) = Len(s) + 1
           /\ \A n \in 1..Len(s) : Append(s, e)[n] = s[n] /\ s[n] \in S
           /\ Append(s, e)[Len(s) + 1] = e
  OBVIOUS

\* What an event and a transaction hold.
LEMMA LogTypes ==
    ASSUME log \in Seq(Events), NEW n \in 1..Len(log)
    PROVE  log[n].kind \in Kinds /\ log[n].id \in PolicyIds
<1>1. log[n] \in Events
  OBVIOUS
<1> QED BY <1>1 DEF Events

\* What is known of a transaction.
LEMMA TxTypes ==
    ASSUME txs \in Seq(Transactions), NEW n \in 1..Len(txs)
    PROVE  /\ txs[n].id \in PolicyIds /\ txs[n].minimumAssets \in Nat
           /\ txs[n].result \in {"pending", "success", "reverted", "dropped"}
<1>1. txs[n] \in Transactions
  OBVIOUS
<1> QED BY <1>1 DEF Transactions

\* A recorded event is well formed and leaves the log truthful.
LEMMA SettleKeeps ==
    ASSUME ChainTypeOK, LogTruthful, NEW id \in PolicyIds, NEW kind \in Kinds,
           Settle(id, kind)
    PROVE  /\ status' \in [PolicyIds -> Closed \cup {"None", "Active"}]
           /\ log' \in Seq(Events) /\ Len(log') = Len(log) + 1
           /\ LogGrows /\ LogTruthful'
<1>1. Outcome(kind) \in Closed \cup {"Active"} /\ (kind # "opened" => Outcome(kind) \in Closed)
      /\ (kind = "opened" => Outcome(kind) = "Active")
      /\ (kind = "executed" => Outcome(kind) = "Executed")
      /\ (kind \notin {"opened", "executed"} => Outcome(kind) \in {"Cancelled", "Expired"})
  BY DEF Outcome, Kinds, Closed
<1>2. /\ status \in [PolicyIds -> Closed \cup {"None", "Active"}]
      /\ status' \in [PolicyIds -> Closed \cup {"None", "Active"}]
      /\ status'[id] = Outcome(kind)
      /\ \A i \in PolicyIds : i # id => status'[i] = status[i]
      /\ status[id] = IF kind = "opened" THEN "None" ELSE "Active"
      /\ \A i \in PolicyIds : i # id \/ kind # "opened" => trigger'[i] = trigger[i]
  BY <1>1 DEF Settle, ChainTypeOK
<1>3. /\ log \in Seq(Events)
      /\ [kind |-> kind, id |-> id] \in Events
      /\ log' = Append(log, [kind |-> kind, id |-> id])
  BY DEF Settle, Emit, ChainTypeOK, Events
<1>4. /\ log' \in Seq(Events) /\ Len(log') = Len(log) + 1
      /\ \A n \in 1..Len(log) : log'[n] = log[n] /\ log[n].id \in PolicyIds
      /\ log'[Len(log) + 1].kind = kind /\ log'[Len(log) + 1].id = id
      /\ Len(log) \in Nat
  <2>1. \A e \in Events : e.id \in PolicyIds
    BY DEF Events
  <2> QED BY <1>3, <2>1, Appended
<1>5. LogGrows
  BY <1>1, <1>2, <1>4 DEF LogGrows, Closed
<1>6. LogTruthful'
  <2>1. ASSUME NEW n \in 1..Len(log')
        PROVE  /\ log'[n].kind = "opened" => status'[log'[n].id] # "None"
               /\ log'[n].kind = "executed" => status'[log'[n].id] = "Executed"
               /\ log'[n].kind \notin {"opened", "executed"} =>
                     status'[log'[n].id] \in {"Cancelled", "Expired"}
    <3>1. CASE n \in 1..Len(log)
      <4>1. log'[n] = log[n] /\ log[n].id \in PolicyIds
        BY <1>4, <3>1
      <4>2. /\ status[log[n].id] # "None" => status'[log[n].id] # "None"
            /\ status[log[n].id] \in Closed => status'[log[n].id] = status[log[n].id]
        BY <1>5, <4>1 DEF LogGrows
      <4>3. /\ log[n].kind = "opened" => status[log[n].id] # "None"
            /\ log[n].kind = "executed" => status[log[n].id] = "Executed"
            /\ log[n].kind \notin {"opened", "executed"} =>
                  status[log[n].id] \in {"Cancelled", "Expired"}
        BY <3>1 DEF LogTruthful
      <4> QED BY <4>1, <4>2, <4>3 DEF Closed
    <3>2. CASE n = Len(log) + 1
      BY <1>1, <1>2, <1>4, <3>2 DEF Closed
    <3> QED BY <1>4, <3>1, <3>2
  <2>2. ASSUME NEW m \in 1..Len(log'), NEW n \in 1..Len(log'), m < n, log'[m].id = log'[n].id
        PROVE  log'[n].kind # "opened"
    <3>1. CASE n \in 1..Len(log)
      BY <1>4, <2>2, <3>1 DEF LogTruthful
    <3>2. CASE n = Len(log) + 1
      <4>1. m \in 1..Len(log) /\ log[m].id = id
        BY <1>4, <2>2, <3>2
      <4>2. log[m].kind \in Kinds
        BY <4>1, LogTypes DEF ChainTypeOK
      <4>3. status[id] # "None"
        BY <4>1, <4>2 DEF LogTruthful, Kinds, Closed
      <4> QED BY <1>2, <1>4, <3>2, <4>3
    <3> QED BY <1>4, <3>1, <3>2
  <2>3. ASSUME NEW i, NEW n \in 1..Len(log), NEW k \in n..(Len(log) + 1), OpenedBy(i, n)
        PROVE  \E m \in 1..k : log'[m].kind = "opened" /\ log'[m].id = i
    BY <1>4, <2>3 DEF OpenedBy
  <2>4. ASSUME NEW i \in PolicyIds, status[i] # "None"
        PROVE  \E m \in 1..(Len(log) + 1) : log'[m].kind = "opened" /\ log'[m].id = i
    <3>1. OpenedBy(i, Len(log))
      BY <2>4 DEF LogTruthful
    <3>2. Len(log) \in 1..Len(log) /\ Len(log) + 1 \in Len(log)..(Len(log) + 1)
      BY <1>4, <3>1 DEF OpenedBy
    <3> QED BY <2>3, <3>1, <3>2
  <2>5. \E m \in 1..(Len(log) + 1) : log'[m].kind = "opened" /\ log'[m].id = id
    <3>1. CASE kind = "opened"
      BY <1>4, <3>1
    <3>2. CASE kind # "opened"
      BY <1>2, <2>4, <3>2
    <3> QED BY <3>1, <3>2
  <2>6. ASSUME NEW i \in PolicyIds, status'[i] # "None"
        PROVE  \E m \in 1..Len(log') : log'[m].kind = "opened" /\ log'[m].id = i
    BY <1>2, <1>4, <2>4, <2>5, <2>6
  <2>7. ASSUME NEW n \in 1..Len(log')
        PROVE  \E m \in 1..n : log'[m].kind = "opened" /\ log'[m].id = log'[n].id
    <3>1. CASE n \in 1..Len(log)
      <4>1. OpenedBy(log[n].id, n) /\ n \in n..(Len(log) + 1) /\ log'[n].id = log[n].id
        BY <1>4, <3>1 DEF LogTruthful
      <4> QED BY <2>3, <3>1, <4>1
    <3>2. CASE n = Len(log) + 1
      BY <1>4, <2>5, <3>2
    <3> QED BY <1>4, <3>1, <3>2
  <2> QED BY <2>1, <2>2, <2>6, <2>7 DEF LogTruthful, OpenedBy
<1> QED BY <1>2, <1>4, <1>5, <1>6

\* The outcome of one transaction becomes known, and nothing else of it changes.
LEMMA OutcomeKeeps ==
    ASSUME txs \in Seq(Transactions), NEW n \in 1..Len(txs), txs[n].result = "pending",
           NEW result \in {"success", "reverted", "dropped"},
           txs' = [txs EXCEPT ![n].result = result]
    PROVE  /\ txs' \in Seq(Transactions) /\ Len(txs') = Len(txs)
           /\ txs'[n].result = result
           /\ \A m \in 1..Len(txs) : m # n => txs'[m] = txs[m]
           /\ TxsGrow
<1>1. PICK tx : tx = [txs[n] EXCEPT !.result = result]
  OBVIOUS
<1>2. txs' = [txs EXCEPT ![n] = tx]
  BY <1>1
<1>3. txs[n] \in Transactions
  OBVIOUS
<1>4. /\ tx \in Transactions /\ tx.id = txs[n].id
      /\ tx.minimumAssets = txs[n].minimumAssets /\ tx.result = result
  BY <1>1, <1>3 DEF Transactions
<1>5. txs' \in Seq(Transactions) /\ Len(txs') = Len(txs)
  BY <1>2, <1>4
<1>6. txs'[n] = tx /\ \A m \in 1..Len(txs) : m # n => txs'[m] = txs[m]
  BY <1>2
<1>7. TxsGrow
  BY <1>4, <1>5, <1>6 DEF TxsGrow
<1> QED BY <1>4, <1>5, <1>6, <1>7

\* A chain whose transactions are not touched keeps them truthful when it settles
\* a policy.
ChainSafe == ChainTypeOK' /\ LogTruthful' /\ TxsTruthful' /\ LogGrows /\ TxsGrow
             /\ finalized <= finalized' /\ Len(txs') <= MaxTransactions

\* A settlement keeps the types of what it does not settle: quotes, windows, triggers.
LEMMA SettleTypes ==
    ASSUME ChainTypeOK, NEW id \in PolicyIds, NEW kind \in Kinds, Settle(id, kind),
           ValuesMove, trigger' \in [PolicyIds -> Triggers \cup {0}], ended' = ended \ {id}
    PROVE  /\ value' \in Quotes(status')
           /\ ended' \subseteq {i \in PolicyIds : status'[i] = "Active"}
           /\ moves' \in 0..MaxMoves
<1>1. \A i \in ended' : i \in PolicyIds /\ status'[i] = status[i] /\ status[i] = "Active"
  BY DEF Settle, ChainTypeOK
<1>2. moves \in 0..MaxMoves /\ MaxMoves \in Nat
  BY ChainAssumption DEF ChainTypeOK
<1>3. moves' \in {moves, moves + 1} /\ moves' <= MaxMoves /\ value' \in Quotes(status')
  BY DEF ValuesMove
<1> QED BY <1>1, <1>2, <1>3

\* A settlement that nothing accompanies keeps what is known of the chain.
LEMMA SettleAlone ==
    ASSUME ChainTypeOK, LogTruthful, TxsTruthful, NEW id \in PolicyIds, NEW kind \in Kinds,
           Settle(id, kind), ValuesMove, trigger' \in [PolicyIds -> Triggers \cup {0}],
           ended' = ended \ {id}, UNCHANGED <<finalized, txs>>
    PROVE  ChainSafe
<1>1. /\ status' \in [PolicyIds -> Closed \cup {"None", "Active"}]
      /\ log' \in Seq(Events) /\ Len(log') = Len(log) + 1
      /\ LogGrows /\ LogTruthful'
  BY SettleKeeps
<1>2. ChainTypeOK' /\ finalized <= finalized' /\ Len(txs') <= MaxTransactions
  BY <1>1, SettleTypes DEF ChainTypeOK
<1>3. TxsGrow /\ \A n \in 1..Len(txs) : txs[n].id \in PolicyIds
  BY TxTypes DEF TxsGrow, ChainTypeOK
<1>4. TxsTruthful'
  BY <1>1, <1>3 DEF TxsTruthful, LogGrows, Closed
<1> QED BY <1>1, <1>2, <1>3, <1>4 DEF ChainSafe

\* A step that settles nothing and sends nothing only moves values, windows or
\* finality.
LEMMA NothingSettled ==
    ASSUME ChainTypeOK, LogTruthful, TxsTruthful, UNCHANGED <<status, trigger, log, txs>>,
           value' \in Quotes(status), ended' \subseteq {id \in PolicyIds : status[id] = "Active"},
           finalized' \in finalized..Len(log), moves' \in 0..MaxMoves
    PROVE  ChainSafe
<1>1. ChainTypeOK' /\ finalized <= finalized' /\ Len(txs') <= MaxTransactions
  BY DEF ChainTypeOK
<1>2. LogGrows /\ TxsGrow
  BY DEF LogGrows, TxsGrow, ChainTypeOK
<1>3. LogTruthful' /\ TxsTruthful'
  BY DEF LogTruthful, OpenedBy, TxsTruthful
<1> QED BY <1>1, <1>2, <1>3 DEF ChainSafe

\* A transaction that fails or vanishes touches nothing else.
LEMMA OutcomeAlone ==
    ASSUME ChainTypeOK, LogTruthful, TxsTruthful, NEW n \in 1..Len(txs),
           txs[n].result = "pending", NEW result \in {"reverted", "dropped"},
           txs' = [txs EXCEPT ![n].result = result],
           UNCHANGED <<status, trigger, value, ended, log, finalized, moves>>
    PROVE  ChainSafe /\ Len(txs') = Len(txs)
<1>1. /\ txs' \in Seq(Transactions) /\ Len(txs') = Len(txs)
      /\ txs'[n].result = result
      /\ \A m \in 1..Len(txs) : m # n => txs'[m] = txs[m]
      /\ TxsGrow
  BY OutcomeKeeps DEF ChainTypeOK
<1>2. ChainTypeOK' /\ finalized <= finalized' /\ Len(txs') <= MaxTransactions
  BY <1>1 DEF ChainTypeOK
<1>3. LogGrows /\ LogTruthful'
  BY DEF LogGrows, LogTruthful, OpenedBy, ChainTypeOK
<1>4. TxsTruthful'
  BY <1>1 DEF TxsTruthful
<1> QED BY <1>1, <1>2, <1>3, <1>4 DEF ChainSafe

\* Whatever the chain does by itself, the log and the transactions stay truthful.
LEMMA ChainKeeps ==
    ASSUME ChainTypeOK, LogTruthful, TxsTruthful, ChainNext
    PROVE  ChainSafe /\ Len(txs') = Len(txs)
<1>0. finalized \in Nat /\ Len(log) \in Nat /\ moves \in 0..MaxMoves /\ finalized <= Len(log)
  BY DEF ChainTypeOK
<1>1. ASSUME NEW id \in PolicyIds, OpenPolicy(id)
      PROVE  ChainSafe /\ Len(txs') = Len(txs)
  <2>1. /\ trigger \in [PolicyIds -> Triggers \cup {0}]
        /\ ended \subseteq {i \in PolicyIds : status[i] = "Active"}
    BY DEF ChainTypeOK
  <2>2. PICK t \in Triggers : trigger' = [trigger EXCEPT ![id] = t]
    BY <1>1 DEF OpenPolicy
  <2>3. trigger' \in [PolicyIds -> Triggers \cup {0}]
    BY <2>1, <2>2
  <2>4. "opened" \in Kinds /\ Settle(id, "opened")
    BY <1>1, <2>1, <2>2 DEF OpenPolicy, Settle, Outcome, Kinds
  <2>5. ended' = ended \ {id}
    BY <1>1, <2>1 DEF OpenPolicy
  <2> QED BY <1>1, <2>3, <2>4, <2>5, SettleAlone DEF OpenPolicy
<1>2. ASSUME NEW id \in PolicyIds, CloseByOther(id)
      PROVE  ChainSafe /\ Len(txs') = Len(txs)
  <2>1. PICK kind \in Kinds : kind # "opened" /\ Leave(id, Outcome(kind), kind)
    BY <1>2 DEF CloseByOther, Outcome, Kinds
  <2>2. Settle(id, kind) /\ trigger' \in [PolicyIds -> Triggers \cup {0}]
    BY <1>2, <2>1 DEF CloseByOther, Leave, Settle, ChainTypeOK
  <2> QED BY <1>2, <2>1, <2>2, SettleAlone DEF CloseByOther, Leave
<1>3. ASSUME MoveValue
      PROVE  ChainSafe /\ Len(txs') = Len(txs)
  <2>1. moves' \in {moves, moves + 1} /\ moves' <= MaxMoves /\ value' \in Quotes(status)
    BY <1>3 DEF MoveValue, ValuesMove
  <2>2. moves' \in 0..MaxMoves
    BY <1>0, <2>1, ChainAssumption
  <2> QED BY <1>0, <1>3, <2>1, <2>2, NothingSettled DEF MoveValue, ChainTypeOK
<1>4. ASSUME EndWindows
      PROVE  ChainSafe /\ Len(txs') = Len(txs)
  BY <1>0, <1>4, NothingSettled DEF EndWindows, ChainTypeOK
<1>5. ASSUME NEW n \in 1..Len(txs), Mine(n)
      PROVE  ChainSafe /\ Len(txs') = Len(txs)
  <2>1. txs \in Seq(Transactions) /\ txs[n].result = "pending" /\ txs[n].id \in PolicyIds
    BY <1>5, TxTypes DEF Mine, ChainTypeOK
  <2>2. CASE Executable(txs[n].id, txs[n].minimumAssets)
    <3>1. /\ txs' = [txs EXCEPT ![n].result = "success"]
          /\ Settle(txs[n].id, "executed") /\ "executed" \in Kinds
          /\ ValuesMove /\ trigger' \in [PolicyIds -> Triggers \cup {0}]
          /\ ended' = ended \ {txs[n].id} /\ UNCHANGED finalized
      BY <1>5, <2>2 DEF Mine, Leave, Settle, Outcome, Executable, Kinds, ChainTypeOK
    <3>2. /\ status' \in [PolicyIds -> Closed \cup {"None", "Active"}]
          /\ log' \in Seq(Events) /\ Len(log') = Len(log) + 1
          /\ LogGrows /\ LogTruthful'
      BY <2>1, <3>1, SettleKeeps
    <3>3. /\ txs' \in Seq(Transactions) /\ Len(txs') = Len(txs)
          /\ \A m \in 1..Len(txs) : m # n => txs'[m] = txs[m]
          /\ TxsGrow
      BY <2>1, <3>1, OutcomeKeeps
    <3>4. ChainTypeOK' /\ finalized <= finalized' /\ Len(txs') <= MaxTransactions
      <4>1. /\ value' \in Quotes(status')
            /\ ended' \subseteq {i \in PolicyIds : status'[i] = "Active"}
            /\ moves' \in 0..MaxMoves
        BY <2>1, <3>1, SettleTypes
      <4> QED BY <1>0, <3>1, <3>2, <3>3, <4>1 DEF ChainTypeOK
    <3>5. TxsTruthful'
      <4> SUFFICES ASSUME NEW m \in 1..Len(txs')
                   PROVE  /\ status'[txs'[m].id] # "None"
                          /\ txs'[m].result = "success" => status'[txs'[m].id] = "Executed"
        BY DEF TxsTruthful
      <4>1. m \in 1..Len(txs) /\ txs'[m].id = txs[m].id /\ txs[m].id \in PolicyIds
        BY <2>1, <3>3, TxTypes DEF TxsGrow
      <4>2. CASE m = n
        BY <2>1, <3>1, <4>1, <4>2 DEF Settle, Outcome, ChainTypeOK
      <4>3. CASE m # n
        <5>1. /\ status[txs[m].id] # "None"
              /\ txs'[m].result = "success" => status[txs[m].id] = "Executed"
          BY <3>3, <4>1, <4>3 DEF TxsTruthful
        <5> QED BY <3>2, <4>1, <5>1 DEF LogGrows, Closed
      <4> QED BY <4>2, <4>3
    <3> QED BY <3>2, <3>3, <3>4, <3>5 DEF ChainSafe
  <2>3. CASE ~Executable(txs[n].id, txs[n].minimumAssets)
    <3>1. /\ txs' = [txs EXCEPT ![n].result = "reverted"]
          /\ UNCHANGED <<status, trigger, value, ended, log, finalized, moves>>
      BY <1>5, <2>3 DEF Mine
    <3> QED BY <2>1, <3>1, OutcomeAlone
  <2> QED BY <2>2, <2>3
<1>6. ASSUME NEW n \in 1..Len(txs), Drop(n)
      PROVE  ChainSafe /\ Len(txs') = Len(txs)
  BY <1>6, OutcomeAlone DEF Drop
<1>7. ASSUME Finalize
      PROVE  ChainSafe /\ Len(txs') = Len(txs)
  <2>1. finalized' \in finalized..Len(log)
    BY <1>0, <1>7 DEF Finalize
  <2> QED BY <1>0, <1>7, <2>1, NothingSettled DEF Finalize, ChainTypeOK
<1> QED BY <1>1, <1>2, <1>3, <1>4, <1>5, <1>6, <1>7 DEF ChainNext

-----------------------------------------------------------------------------
(* What a state of the guardian says stays true when the chain moves.        *)

\* What was opened stays opened.
LEMMA OpenedStays ==
    ASSUME NEW cursor \in Nat, cursor <= Len(log), Len(log) \in Nat, LogGrows, NEW id
    PROVE  OpenedBy(id, cursor)' <=> OpenedBy(id, cursor)
  BY DEF OpenedBy, LogGrows

\* A replay stays one: no event up to its cursor changes, and none settles
\* a policy that is settled.
LEMMA ReplaysStay ==
    ASSUME ChainTypeOK, LogTruthful, LogGrows, status' \in [PolicyIds -> Closed \cup {"None", "Active"}],
           NEW policies, NEW cursor \in Nat, cursor <= Len(log), Replays(policies, cursor)
    PROVE  Replays(policies, cursor)'
<1>1. Len(log) \in Nat /\ \A n \in 1..cursor : n \in 1..Len(log) /\ log'[n] = log[n]
  BY DEF ChainTypeOK, LogGrows
<1>2. \A n \in 1..Len(log) : log[n].id \in PolicyIds
  BY LogTypes DEF ChainTypeOK
<1>3. ASSUME NEW n \in 1..cursor, log'[n].kind = "opened", status'[log'[n].id] = "Active"
      PROVE  log'[n].id \in policies
  <2>1. log'[n] = log[n] /\ log[n].id \in PolicyIds /\ n \in 1..Len(log)
    BY <1>1, <1>2
  <2>2. status[log[n].id] # "None"
    BY <1>3, <2>1 DEF LogTruthful
  <2>3. status[log[n].id] \notin Closed
    BY <1>3, <2>1 DEF LogGrows, Closed
  <2>4. status[log[n].id] = "Active"
    BY <2>1, <2>2, <2>3 DEF ChainTypeOK
  <2> QED BY <1>3, <2>1, <2>4 DEF Replays
<1>4. ASSUME NEW id \in policies
      PROVE  /\ OpenedBy(id, cursor)'
             /\ \A n \in 1..cursor : log'[n].id = id => log'[n].kind = "opened"
  BY <1>1, OpenedStays DEF Replays
<1> QED BY <1>3, <1>4 DEF Replays

\* A record stays truthful.
LEMMA TruthfulStays ==
    ASSUME ChainTypeOK, LogGrows, TxsGrow, Len(txs') \in Nat,
           NEW executions \in [PolicyIds -> Records],
           NEW policies, NEW cursor \in Nat, cursor <= Len(log),
           AllTruthful(executions, policies, cursor)
    PROVE  AllTruthful(executions, policies, cursor)'
<1> SUFFICES ASSUME NEW id \in PolicyIds
             PROVE  Truthful(id, executions[id], policies, cursor)'
  BY DEF AllTruthful
<1>1. Truthful(id, executions[id], policies, cursor)
  BY DEF AllTruthful
<1>2. Len(log) \in Nat /\ Len(txs) \in Nat
  BY DEF ChainTypeOK
<1>3. OpenedBy(id, cursor)' <=> OpenedBy(id, cursor)
  BY <1>2, OpenedStays
<1>4. status[id] = "Executed" => status'[id] = "Executed"
  BY DEF LogGrows, Closed
<1>5. ASSUME executions[id].tx \in 1..Len(txs)
      PROVE  /\ executions[id].tx \in 1..Len(txs')
             /\ txs'[executions[id].tx].id = txs[executions[id].tx].id
             /\ txs[executions[id].tx].result = "reverted" =>
                   txs'[executions[id].tx].result = "reverted"
  BY <1>2, <1>5 DEF TxsGrow
<1> QED BY <1>1, <1>3, <1>4, <1>5 DEF Truthful

\* When nothing is sent, nothing comes behind a record.
LEMMA NoneBehindStays ==
    ASSUME ChainTypeOK, TxsGrow, Len(txs') = Len(txs),
           NEW executions \in [PolicyIds -> Records], NEW policies, NEW cursor,
           AllTruthful(executions, policies, cursor), NoneBehind(executions)
    PROVE  NoneBehind(executions)'
<1> SUFFICES ASSUME NEW id \in PolicyIds, NEW n \in 1..Len(txs),
                    Submitted(executions[id])', txs'[n].id = id
             PROVE  n <= executions[id].tx
  BY DEF NoneBehind
<1>1. executions[id].tx \in 1..Len(txs)
  BY DEF AllTruthful, Truthful, Submitted
<1>2. Submitted(executions[id]) /\ txs[n].id = id
  BY <1>1 DEF Submitted, TxsGrow
<1> QED BY <1>2 DEF NoneBehind

-----------------------------------------------------------------------------
(* FinalizedPolicyMonitor: the events of a batch.                            *)

\* The recursion in Indexed, as an equation of its solution.
IsReplay(after, s, toBlock) ==
    after = [n \in s.cursor..toBlock |->
                IF n = s.cursor THEN s ELSE ApplyEvent(after[n - 1], log[n], n)]

\* A batch can be replayed, however long it is.
LEMMA ReplayExists ==
    ASSUME NEW s, s.cursor \in Nat, NEW toBlock \in Nat, s.cursor <= toBlock
    PROVE  \E after : IsReplay(after, s, toBlock)
<1>1. PICK T : T = {n \in s.cursor..toBlock : \E after : IsReplay(after, s, n)}
  OBVIOUS
<1>2. s.cursor \in T
  <2>1. IsReplay([n \in s.cursor..s.cursor |-> s], s, s.cursor)
    BY DEF IsReplay
  <2> QED BY <1>1, <2>1
<1>3. ASSUME NEW n \in s.cursor..toBlock, n \in T, n < toBlock
      PROVE  n + 1 \in T
  <2>1. PICK g : IsReplay(g, s, n)
    BY <1>1, <1>3
  <2>2. PICK h : h = [m \in s.cursor..(n + 1) |->
                        IF m = s.cursor THEN s ELSE ApplyEvent(g[m - 1], log[m], m)]
    OBVIOUS
  <2>3. \A m \in s.cursor..n :
           g[m] = IF m = s.cursor THEN s ELSE ApplyEvent(g[m - 1], log[m], m)
    BY <2>1 DEF IsReplay
  <2>4. \A m \in s.cursor..n : h[m] = g[m]
    BY <2>2, <2>3
  <2>5. \A m \in s.cursor..(n + 1) : m # s.cursor => h[m - 1] = g[m - 1]
    BY <2>4
  <2>6. IsReplay(h, s, n + 1)
    BY <2>2, <2>5 DEF IsReplay
  <2> QED BY <1>1, <1>3, <2>6
<1>4. \A n \in s.cursor..toBlock : n \in T
  BY <1>2, <1>3, RangeInduction
<1> QED BY <1>1, <1>4

\* Indexed is the last state of the replay, with the cursor moved.
LEMMA IndexedUnfolds ==
    ASSUME NEW s, s.cursor \in Nat, NEW toBlock \in Nat, s.cursor <= toBlock
    PROVE  \E after : /\ after[s.cursor] = s
                      /\ \A n \in s.cursor..toBlock :
                            n # s.cursor => after[n] = ApplyEvent(after[n - 1], log[n], n)
                      /\ Indexed(s, toBlock) = [after[toBlock] EXCEPT !.cursor = toBlock]
<1>1. PICK after : after = CHOOSE g : IsReplay(g, s, toBlock)
  OBVIOUS
<1>2. IsReplay(after, s, toBlock)
  BY <1>1, ReplayExists
<1>3. Indexed(s, toBlock) = [after[toBlock] EXCEPT !.cursor = toBlock]
  BY <1>1 DEF Indexed, IsReplay
<1>4. \A n \in s.cursor..toBlock :
         after[n] = IF n = s.cursor THEN s ELSE ApplyEvent(after[n - 1], log[n], n)
  BY <1>2 DEF IsReplay
<1>5. after[s.cursor] = s
  BY <1>4
<1>6. \A n \in s.cursor..toBlock :
         n # s.cursor => after[n] = ApplyEvent(after[n - 1], log[n], n)
  BY <1>4
<1> QED BY <1>3, <1>5, <1>6

\* A state of the guardian with the events before block n applied to it.
At(s, n) == /\ s \in GuardianStates
            /\ Replays(s.policies, n)
            /\ AllTruthful(s.executions, s.policies, n)

\* What the next event makes of a replay is the replay of one more event, and an
\* execution that it records has happened.
LEMMA ApplyEventKeeps ==
    ASSUME ChainTypeOK, LogTruthful, NEW n \in Nat, n + 1 <= Len(log), NEW s, At(s, n),
           NEW t, t = ApplyEvent(s, log[n + 1], n + 1)
    PROVE  /\ At(t, n + 1) /\ t.cursor = s.cursor
           /\ \A id \in PolicyIds : \/ t.executions[id] = s.executions[id]
                                    \/ t.executions[id].status = "confirmed"
<1>1. PICK event : event = log[n + 1]
  OBVIOUS
<1>2. /\ n + 1 \in 1..Len(log) /\ event.kind \in Kinds /\ event.id \in PolicyIds
      /\ \A m \in 1..n : m \in 1..Len(log)
  BY <1>1, LogTypes DEF ChainTypeOK
<1>3. /\ s.policies \in SUBSET PolicyIds /\ s.executions \in [PolicyIds -> Records]
      /\ s \in GuardianStates /\ s.cursor \in Nat
  BY DEF At, GuardianStates
<1>4. /\ \A m \in 1..n : log[m].kind = "opened" /\ status[log[m].id] = "Active"
                            => log[m].id \in s.policies
      /\ \A id \in s.policies : /\ OpenedBy(id, n)
                                /\ \A m \in 1..n : log[m].id = id => log[m].kind = "opened"
  BY DEF At, Replays
<1>5. \A id : OpenedBy(id, n) => OpenedBy(id, n + 1)
  BY DEF OpenedBy
<1>6. \A m \in 1..(n + 1) : m \in 1..n \/ m = n + 1
  OBVIOUS
<1>7. CASE event.kind = "opened"
  <2>1. t = [s EXCEPT !.policies = s.policies \cup {event.id}]
    BY <1>1, <1>7 DEF ApplyEvent
  <2>2. /\ t.policies = s.policies \cup {event.id} /\ t.executions = s.executions
        /\ t.cursor = s.cursor /\ t \in GuardianStates
    BY <1>2, <1>3, <2>1 DEF GuardianStates
  <2>3. \A m \in 1..n : log[m].id # event.id
    BY <1>1, <1>2, <1>7 DEF LogTruthful
  <2>4. OpenedBy(event.id, n + 1) /\ ~ OpenedBy(event.id, n)
    BY <1>1, <1>2, <1>7, <2>3 DEF OpenedBy
  <2>5. Replays(t.policies, n + 1)
    <3>1. \A m \in 1..(n + 1) : log[m].kind = "opened" /\ status[log[m].id] = "Active"
                            => log[m].id \in t.policies
      BY <1>1, <1>4, <1>6, <2>2
    <3>2. ASSUME NEW id \in t.policies
          PROVE  /\ OpenedBy(id, n + 1)
                 /\ \A m \in 1..(n + 1) : log[m].id = id => log[m].kind = "opened"
      BY <1>1, <1>4, <1>5, <1>6, <1>7, <2>2, <2>3, <2>4
    <3> QED BY <3>1, <3>2 DEF Replays
  <2>6. AllTruthful(t.executions, t.policies, n + 1)
    <3> SUFFICES ASSUME NEW id \in PolicyIds
                 PROVE  Truthful(id, t.executions[id], t.policies, n + 1)
      BY DEF AllTruthful
    <3>1. Truthful(id, s.executions[id], s.policies, n)
      BY DEF At, AllTruthful
    <3>2. id = event.id => s.executions[id].status = "none"
      BY <2>4, <3>1 DEF Truthful
    <3> QED BY <1>5, <2>2, <3>1, <3>2 DEF Truthful
  <2> QED BY <2>2, <2>5, <2>6 DEF At
<1>8. CASE event.kind # "opened"
  <2>1. PICK executions : executions = IF event.kind = "executed"
              THEN [s.executions EXCEPT ![event.id] = Record("confirmed", -(n + 1))]
              ELSE s.executions
    OBVIOUS
  <2>2. t = [s EXCEPT !.policies = s.policies \ {event.id}, !.executions = executions]
    BY <1>1, <1>8, <2>1 DEF ApplyEvent
  <2>3. Record("confirmed", -(n + 1)) \in Records
    BY DEF Record, Records
  <2>4. executions \in [PolicyIds -> Records]
    BY <1>3, <2>1, <2>3
  <2>5. /\ t.policies = s.policies \ {event.id} /\ t.executions = executions
        /\ t.cursor = s.cursor /\ t \in GuardianStates
    BY <1>3, <2>2, <2>4 DEF GuardianStates
  <2>6. status[event.id] \in Closed
    BY <1>1, <1>2, <1>8 DEF LogTruthful, Closed
  <2>7. OpenedBy(event.id, n + 1)
    BY <1>1, <1>2 DEF LogTruthful
  <2>8. Replays(t.policies, n + 1)
    <3>1. \A m \in 1..(n + 1) : log[m].kind = "opened" /\ status[log[m].id] = "Active"
                            => log[m].id \in t.policies
      BY <1>1, <1>4, <1>6, <1>8, <2>5, <2>6 DEF Closed
    <3>2. ASSUME NEW id \in t.policies
          PROVE  /\ OpenedBy(id, n + 1)
                 /\ \A m \in 1..(n + 1) : log[m].id = id => log[m].kind = "opened"
      BY <1>1, <1>4, <1>5, <1>6, <2>5
    <3> QED BY <3>1, <3>2 DEF Replays
  <2>9. AllTruthful(t.executions, t.policies, n + 1)
    <3> SUFFICES ASSUME NEW id \in PolicyIds
                 PROVE  Truthful(id, executions[id], t.policies, n + 1)
      BY <2>5 DEF AllTruthful
    <3>1. Truthful(id, s.executions[id], s.policies, n)
      BY DEF At, AllTruthful
    <3>2. CASE executions[id] = s.executions[id]
      BY <1>5, <2>5, <3>1, <3>2 DEF Truthful
    <3>3. CASE executions[id] # s.executions[id]
      <4>1. id = event.id /\ event.kind = "executed"
            /\ executions[id] = Record("confirmed", -(n + 1))
        BY <1>3, <2>1, <3>3
      <4>2. status[id] = "Executed"
        BY <1>1, <1>2, <4>1 DEF LogTruthful
      <4> QED BY <2>5, <2>7, <4>1, <4>2 DEF Truthful, Record
    <3> QED BY <3>2, <3>3
  <2>10. \A id \in PolicyIds : \/ t.executions[id] = s.executions[id]
                               \/ t.executions[id].status = "confirmed"
    BY <1>3, <2>1, <2>5 DEF Record
  <2> QED BY <2>5, <2>8, <2>9, <2>10 DEF At
<1> QED BY <1>7, <1>8

\* A batch of events, read in order, makes the replay of a longer prefix of the
\* log; only executions that happened change a record.
LEMMA IndexedKeeps ==
    ASSUME ChainTypeOK, LogTruthful, NEW s \in GuardianStates,
           NEW toBlock \in Nat, s.cursor <= toBlock, toBlock <= finalized, SoundState(s),
           NEW t, t = Indexed(s, toBlock)
    PROVE  /\ t \in GuardianStates /\ t.cursor = toBlock /\ SoundState(t)
           /\ \A id \in PolicyIds : \/ t.executions[id] = s.executions[id]
                                    \/ t.executions[id].status = "confirmed"
<1>1. s.cursor \in Nat /\ toBlock <= Len(log)
  BY DEF GuardianStates, ChainTypeOK
<1>2. PICK after : /\ after[s.cursor] = s
                   /\ \A n \in s.cursor..toBlock :
                         n # s.cursor => after[n] = ApplyEvent(after[n - 1], log[n], n)
                   /\ t = [after[toBlock] EXCEPT !.cursor = toBlock]
  BY <1>1, IndexedUnfolds
<1>3. PICK T : T = {n \in s.cursor..toBlock :
                      /\ At(after[n], n)
                      /\ \A id \in PolicyIds :
                            \/ after[n].executions[id] = s.executions[id]
                            \/ after[n].executions[id].status = "confirmed"}
  OBVIOUS
<1>4. s.cursor \in T
  BY <1>1, <1>2, <1>3 DEF At, SoundState
<1>5. ASSUME NEW n \in s.cursor..toBlock, n \in T, n < toBlock
      PROVE  n + 1 \in T
  <2>1. /\ n \in Nat /\ n + 1 <= Len(log) /\ n + 1 \in s.cursor..toBlock /\ n + 1 # s.cursor
        /\ (n + 1) - 1 = n
    BY <1>1, <1>5
  <2>2. after[n + 1] = ApplyEvent(after[n], log[n + 1], n + 1)
    BY <1>2, <2>1
  <2>3. At(after[n], n)
    BY <1>3, <1>5
  <2>4. /\ At(after[n + 1], n + 1)
        /\ \A id \in PolicyIds : \/ after[n + 1].executions[id] = after[n].executions[id]
                                 \/ after[n + 1].executions[id].status = "confirmed"
    BY <2>1, <2>2, <2>3, ApplyEventKeeps
  <2> QED BY <1>3, <1>5, <2>1, <2>4
<1>6. toBlock \in T
  <2>1. \A n \in s.cursor..toBlock : n \in T
    BY <1>1, <1>4, <1>5, RangeInduction
  <2> QED BY <1>1, <2>1
<1>7. /\ At(after[toBlock], toBlock)
      /\ \A id \in PolicyIds : \/ after[toBlock].executions[id] = s.executions[id]
                               \/ after[toBlock].executions[id].status = "confirmed"
  BY <1>3, <1>6
<1>8. /\ t \in GuardianStates /\ t.cursor = toBlock
      /\ t.policies = after[toBlock].policies
      /\ t.executions = after[toBlock].executions
  BY <1>2, <1>7 DEF At, GuardianStates
<1>9. NoneBehind(t.executions)
  <2> SUFFICES ASSUME NEW id \in PolicyIds, NEW n \in 1..Len(txs),
                      Submitted(t.executions[id]), txs[n].id = id
               PROVE  n <= t.executions[id].tx
    BY DEF NoneBehind
  <2>1. t.executions[id] = s.executions[id]
    BY <1>7, <1>8 DEF Submitted
  <2> QED BY <2>1 DEF SoundState, NoneBehind
<1> QED BY <1>7, <1>8, <1>9 DEF At, SoundState

-----------------------------------------------------------------------------
(* The invariant.                                                           *)

LocalTypeOK ==
    /\ target \in 0..finalized
    /\ crashes \in 0..MaxCrashes /\ faults \in 0..MaxFaults
    /\ mem \in GuardianStates /\ disk \in GuardianStates
    /\ queue \subseteq PolicyIds /\ minimum \in Nat
    /\ pc \in Serving \cup {"down", "head", "logs", "saveIndex", "next"}
    /\ current \in PolicyIds \cup {0}
    /\ pc \in Serving => current # 0

\* The types of the chain and those of the process.
LEMMA TypeSplits == TypeOK <=> ChainTypeOK /\ LocalTypeOK
  BY DEF TypeOK, ChainTypeOK, LocalTypeOK, Serving, Evaluating, Events, Transactions

\* The same of the next state.
LEMMA TypeSplitsNext == TypeOK' <=> ChainTypeOK' /\ LocalTypeOK'
  BY DEF TypeOK, ChainTypeOK, LocalTypeOK, Serving, Evaluating, Events, Transactions

\* What a state of the guardian says is stable while nothing is sent.
LEMMA SoundStays ==
    ASSUME ChainTypeOK, LogTruthful, ChainSafe, Len(txs') = Len(txs),
           NEW s \in GuardianStates, SoundState(s)
    PROVE  SoundState(s)'
<1>1. /\ s.cursor \in Nat /\ s.cursor <= finalized /\ s.executions \in [PolicyIds -> Records]
      /\ Replays(s.policies, s.cursor)
      /\ AllTruthful(s.executions, s.policies, s.cursor) /\ NoneBehind(s.executions)
  BY DEF SoundState, GuardianStates
<1>2. /\ LogGrows /\ TxsGrow /\ finalized <= finalized' /\ finalized <= Len(log)
      /\ finalized \in Nat /\ finalized' \in Nat /\ Len(log) \in Nat /\ Len(txs') \in Nat
      /\ status' \in [PolicyIds -> Closed \cup {"None", "Active"}]
  BY DEF ChainSafe, ChainTypeOK
<1>3. s.cursor <= Len(log) /\ s.cursor <= finalized'
  BY <1>1, <1>2
<1>4. Replays(s.policies, s.cursor)'
  BY <1>1, <1>2, <1>3, ReplaysStay
<1>5. AllTruthful(s.executions, s.policies, s.cursor)'
  BY <1>1, <1>2, <1>3, TruthfulStays
<1>6. NoneBehind(s.executions)'
  BY <1>1, <1>2, NoneBehindStays
<1> QED BY <1>3, <1>4, <1>5, <1>6 DEF SoundState

\* Where the chain stands still, so does what is said of it.
LEMMA ChainStill ==
    ASSUME ChainTypeOK, LogTruthful, TxsTruthful, UNCHANGED chainVars
    PROVE  ChainTypeOK' /\ LogTruthful' /\ TxsTruthful'
<1>1. ChainTypeOK'
  BY DEF chainVars, ChainTypeOK
<1>2. LogTruthful'
  BY DEF chainVars, LogTruthful, OpenedBy
<1>3. TxsTruthful'
  BY DEF chainVars, TxsTruthful
<1> QED BY <1>1, <1>2, <1>3

\* A state stays sound while the chain stands still.
LEMMA SoundStill ==
    ASSUME UNCHANGED chainVars, NEW s, SoundState(s)
    PROVE  SoundState(s)'
  BY DEF chainVars, SoundState, Replays, AllTruthful, Truthful, NoneBehind, Submitted, OpenedBy

\* The parts of the invariant, with the types split.
LEMMA InvParts ==
    GuardianInv <=> /\ ChainTypeOK /\ LocalTypeOK /\ LogTruthful /\ TxsTruthful
                    /\ SoundState(mem) /\ SoundState(disk)
                    /\ MemoryAhead /\ CycleOrderly /\ MinimumSound
  BY TypeSplits DEF GuardianInv

\* The same of the next state.
LEMMA InvPartsNext ==
    GuardianInv' <=> /\ ChainTypeOK' /\ LocalTypeOK' /\ LogTruthful' /\ TxsTruthful'
                     /\ SoundState(mem)' /\ SoundState(disk)'
                     /\ MemoryAhead' /\ CycleOrderly' /\ MinimumSound'
  BY TypeSplitsNext DEF GuardianInv

\* A policy whose opening has been read has a status.
LEMMA OpenedHasStatus ==
    ASSUME LogTruthful, NEW cursor \in Nat, cursor <= Len(log), Len(log) \in Nat, NEW id,
           OpenedBy(id, cursor)
    PROVE  status[id] # "None"
  BY DEF OpenedBy, LogTruthful

\* The chain moves by itself.
LEMMA ChainStepKeeps ==
    ASSUME GuardianInv, ChainStep
    PROVE  GuardianInv'
<1>1. /\ ChainTypeOK /\ LocalTypeOK /\ LogTruthful /\ TxsTruthful
      /\ SoundState(mem) /\ SoundState(disk) /\ MemoryAhead /\ CycleOrderly /\ MinimumSound
  BY InvParts
<1>2. ChainSafe /\ Len(txs') = Len(txs)
  BY <1>1, ChainKeeps DEF ChainStep
<1>3. /\ ChainTypeOK' /\ LogTruthful' /\ TxsTruthful' /\ LogGrows /\ TxsGrow
      /\ finalized <= finalized'
  BY <1>2 DEF ChainSafe
<1>4. UNCHANGED <<mem, disk, pc, target, queue, current, minimum, crashes, faults>>
  BY DEF ChainStep, ChainAlone, localVars, faultVars
<1>5. LocalTypeOK'
  BY <1>1, <1>3, <1>4 DEF LocalTypeOK, ChainTypeOK
<1>6. mem \in GuardianStates /\ disk \in GuardianStates
  BY <1>1 DEF LocalTypeOK
<1>7. SoundState(mem)'
  BY <1>1, <1>2, <1>4, <1>6, SoundStays
<1>8. SoundState(disk)'
  BY <1>1, <1>2, <1>4, <1>6, SoundStays
<1>9. MemoryAhead'
  <2>1. \A id \in PolicyIds : Submitted(disk.executions[id])' => Submitted(disk.executions[id])
    <3> SUFFICES ASSUME NEW id \in PolicyIds, Submitted(disk.executions[id])'
                 PROVE  Submitted(disk.executions[id])
      OBVIOUS
    <3>1. disk.executions[id].status = "submitted"
      BY <1>4 DEF Submitted
    <3>2. disk.executions[id].tx \in 1..Len(txs)
      BY <1>1, <3>1 DEF SoundState, AllTruthful, Truthful
    <3> QED BY <1>3, <1>4, <3>2 DEF Submitted, TxsGrow
  <2> QED BY <1>1, <1>4, <2>1 DEF MemoryAhead
<1>10. CycleOrderly'
  <2>1. mem.cursor \in Nat /\ mem.cursor <= Len(log) /\ Len(log) \in Nat
    BY <1>1, <1>6 DEF SoundState, GuardianStates, ChainTypeOK
  <2>2. \A id : OpenedBy(id, mem.cursor) => OpenedBy(id, mem.cursor)'
    BY <1>3, <1>4, <2>1 DEF OpenedBy, LogGrows
  <2> QED BY <1>1, <1>4, <2>2 DEF CycleOrderly
<1>11. MinimumSound'
  <2>1. ASSUME NEW n \in 1..Len(txs')
        PROVE  Protects(txs[n].id, txs[n].minimumAssets)'
    <3>1. /\ n \in 1..Len(txs) /\ txs[n].id \in PolicyIds /\ status[txs[n].id] # "None"
          /\ txs'[n].id = txs[n].id /\ txs'[n].minimumAssets = txs[n].minimumAssets
          /\ Protects(txs[n].id, txs[n].minimumAssets)
      BY <1>1, <1>2, <1>3, TxTypes DEF TxsTruthful, TxsGrow, MinimumSound, ChainTypeOK
    <3>2. trigger'[txs[n].id] = trigger[txs[n].id]
      BY <1>3, <3>1 DEF LogGrows
    <3> QED BY <3>1, <3>2 DEF Protects
  <2>2. ASSUME pc \in {"simulate", "submit"}
        PROVE  current \in PolicyIds /\ status[current] # "None"
    <3>1. /\ current \in PolicyIds /\ current # 0 /\ OpenedBy(current, mem.cursor)
          /\ mem.cursor \in Nat /\ mem.cursor <= Len(log) /\ Len(log) \in Nat
      BY <1>1, <1>6, <2>2, ChainAssumption
         DEF CycleOrderly, LocalTypeOK, SoundState, GuardianStates, ChainTypeOK,
             Serving, Evaluating
    <3> QED BY <1>1, <3>1, OpenedHasStatus
  <2>3. pc = "simulate" /\ status[current] \in Closed => status'[current] \in Closed
    BY <1>3, <2>2 DEF LogGrows
  <2>4. pc \in {"simulate", "submit"} =>
           Protects(current, minimum)' \/ (pc = "simulate" /\ status'[current] \in Closed)
    <3>1. Protects(current, minimum)' <=>
             \E v \in Values : /\ v <= trigger'[current]
                              /\ minimum = (v * (BpsDenominator - SlippageBps)) \div BpsDenominator
      BY <1>4 DEF Protects
    <3> QED BY <1>1, <1>3, <2>2, <2>3, <3>1 DEF MinimumSound, Protects, LogGrows
  <2> QED BY <1>4, <2>1, <2>4 DEF MinimumSound
<1> QED BY <1>3, <1>5, <1>7, <1>8, <1>9, <1>10, <1>11, InvPartsNext

-----------------------------------------------------------------------------
(* The steps of the process.                                                *)

\* A step that only moves on, to the head of a cycle or to its next policy.
LEMMA MoveOnKeeps ==
    ASSUME GuardianInv, UNCHANGED <<chainVars, mem, disk, localVars, crashes>>, pc # "down",
           faults' \in 0..MaxFaults,
           \/ pc' = "head"
           \/ pc' = "next" /\ pc \in Serving
    PROVE  GuardianInv'
<1>1. /\ ChainTypeOK /\ LocalTypeOK /\ LogTruthful /\ TxsTruthful
      /\ SoundState(mem) /\ SoundState(disk) /\ MemoryAhead /\ CycleOrderly /\ MinimumSound
  BY InvParts
<1>2. UNCHANGED chainVars /\ ChainTypeOK' /\ LogTruthful' /\ TxsTruthful'
  BY <1>1, ChainStill
<1>3. UNCHANGED <<mem, disk, target, queue, current, minimum, crashes>>
  BY DEF localVars
<1>4. LocalTypeOK'
  BY <1>1, <1>2, <1>3 DEF LocalTypeOK, chainVars, Serving, Evaluating
<1>5. SoundState(mem)'
  BY <1>1, <1>2, <1>3, SoundStill
<1>6. SoundState(disk)'
  BY <1>1, <1>2, <1>3, SoundStill
<1>7. MemoryAhead'
  BY <1>1, <1>2, <1>3 DEF MemoryAhead, Submitted, chainVars
<1>8. CycleOrderly'
  BY <1>1, <1>2, <1>3 DEF CycleOrderly, OpenedBy, chainVars, Serving, Evaluating
<1>9. MinimumSound'
  BY <1>1, <1>2, <1>3 DEF MinimumSound, Protects, chainVars
<1> QED BY <1>2, <1>4, <1>5, <1>6, <1>7, <1>8, <1>9, InvPartsNext

\* Every failure but a lost answer only moves on, and so does the end of a cycle.
LEMMA FailKeeps ==
    ASSUME GuardianInv,
           \/ SyncFails \/ GiveUp \/ SubmitFails \/ CycleDone
           \/ SaveIndexFails \/ SaveDeletionFails \/ SaveHashFails \/ SaveOutcomeFails
    PROVE  GuardianInv'
<1>1. faults \in 0..MaxFaults /\ MaxFaults \in Nat
  BY GuardianAssumption DEF GuardianInv, TypeOK
<1>2. CASE SyncFails \/ GiveUp \/ SubmitFails \/ CycleDone
  <2>1. /\ UNCHANGED <<chainVars, mem, disk, localVars, crashes>> /\ faults' \in 0..MaxFaults
        /\ pc # "down"
        /\ pc' = "head" \/ (pc' = "next" /\ pc \in Serving)
    BY <1>1, <1>2 DEF SyncFails, GiveUp, SubmitFails, CycleDone, Idle, faultVars,
                      Serving, Evaluating
  <2> QED BY <2>1, MoveOnKeeps
<1>3. CASE SaveIndexFails \/ SaveDeletionFails \/ SaveHashFails \/ SaveOutcomeFails
  <2>1. /\ UNCHANGED <<chainVars, mem, disk, localVars, crashes>> /\ faults' \in 0..MaxFaults
        /\ pc # "down"
        /\ pc' = "head" \/ (pc' = "next" /\ pc \in Serving)
    BY <1>1, <1>3 DEF SaveIndexFails, SaveDeletionFails, SaveHashFails, SaveOutcomeFails,
                      Fault, Serving, Evaluating
  <2> QED BY <2>1, MoveOnKeeps
<1> QED BY <1>2, <1>3

\* A save makes the file what memory is.
LEMMA SaveKeeps ==
    ASSUME GuardianInv, SaveIndex \/ SaveDeletion \/ SaveHash \/ SaveOutcome
    PROVE  GuardianInv'
<1>1. /\ ChainTypeOK /\ LocalTypeOK /\ LogTruthful /\ TxsTruthful
      /\ SoundState(mem) /\ SoundState(disk) /\ MemoryAhead /\ CycleOrderly /\ MinimumSound
  BY InvParts
<1>2. /\ UNCHANGED chainVars /\ disk' = mem
      /\ UNCHANGED <<mem, target, queue, current, minimum, crashes, faults>>
      /\ \/ pc = "saveIndex" /\ pc' = "logs"
         \/ pc \in {"saveDeletion", "saveOutcome"} /\ pc' = "next"
         \/ pc = "saveHash" /\ pc' = "receipt"
  BY DEF SaveIndex, SaveDeletion, SaveHash, SaveOutcome, Save, Idle, localVars, faultVars
<1>3. ChainTypeOK' /\ LogTruthful' /\ TxsTruthful'
  BY <1>1, <1>2, ChainStill
<1>4. LocalTypeOK'
  BY <1>1, <1>2 DEF LocalTypeOK, chainVars, Serving, Evaluating
<1>5. SoundState(mem)'
  BY <1>1, <1>2, SoundStill
<1>6. SoundState(disk)'
  BY <1>1, <1>2, SoundStill
<1>7. MemoryAhead'
  BY <1>1, <1>2 DEF MemoryAhead, LocalTypeOK, GuardianStates
<1>8. CycleOrderly'
  BY <1>1, <1>2 DEF CycleOrderly, OpenedBy, chainVars, Serving, Evaluating
<1>9. MinimumSound'
  BY <1>1, <1>2 DEF MinimumSound, Protects, chainVars
<1> QED BY <1>3, <1>4, <1>5, <1>6, <1>7, <1>8, <1>9, InvPartsNext

\* The initial state of the guardian claims nothing.
LEMMA EmptyIsSound ==
    ASSUME finalized \in Nat
    PROVE  EmptyState \in GuardianStates /\ SoundState(EmptyState)
<1>1. /\ EmptyState.cursor = 0 /\ EmptyState.policies = {}
      /\ \A id \in PolicyIds : EmptyState.executions[id] = NoRecord
      /\ EmptyState \in GuardianStates
  BY DEF EmptyState, NoRecord, Record, GuardianStates, Records
<1>2. NoRecord.status = "none"
  BY DEF NoRecord, Record
<1>3. Replays({}, 0)
  BY DEF Replays
<1>4. AllTruthful(EmptyState.executions, {}, 0) /\ NoneBehind(EmptyState.executions)
  BY <1>1, <1>2 DEF AllTruthful, Truthful, NoneBehind, Submitted
<1> QED BY <1>1, <1>3, <1>4 DEF SoundState

\* A start loads the file, a crash forgets what memory held.
LEMMA RestartKeeps ==
    ASSUME GuardianInv, Start \/ Crash
    PROVE  GuardianInv'
<1>1. /\ ChainTypeOK /\ LocalTypeOK /\ LogTruthful /\ TxsTruthful
      /\ SoundState(mem) /\ SoundState(disk) /\ MemoryAhead /\ CycleOrderly /\ MinimumSound
  BY InvParts
<1>2. CASE Start
  <2>1. /\ UNCHANGED chainVars /\ mem' = disk /\ pc' = "head" /\ pc = "down"
        /\ UNCHANGED <<disk, target, queue, current, minimum, crashes, faults>>
    BY <1>2 DEF Start, Idle, localVars, faultVars
  <2>2. ChainTypeOK' /\ LogTruthful' /\ TxsTruthful'
    BY <1>1, <2>1, ChainStill
  <2>3. LocalTypeOK'
    BY <1>1, <2>1 DEF LocalTypeOK, chainVars, Serving, Evaluating
  <2>4. SoundState(mem)'
    BY <1>1, <2>1, SoundStill
  <2>5. SoundState(disk)'
    BY <1>1, <2>1, SoundStill
  <2>6. MemoryAhead'
    BY <1>1, <2>1 DEF MemoryAhead, LocalTypeOK, GuardianStates
  <2>7. CycleOrderly'
    BY <1>1, <2>1 DEF CycleOrderly, MemoryAhead, Serving, Evaluating
  <2>8. MinimumSound'
    BY <1>1, <2>1 DEF MinimumSound, Protects, chainVars
  <2> QED BY <2>2, <2>3, <2>4, <2>5, <2>6, <2>7, <2>8, InvPartsNext
<1>3. CASE Crash
  <2>1. /\ UNCHANGED chainVars /\ mem' = EmptyState /\ pc' = "down"
        /\ queue' = {} /\ current' = 0 /\ minimum' = 0 /\ target' = 0
        /\ crashes' = crashes + 1 /\ crashes < MaxCrashes /\ UNCHANGED <<disk, faults>>
    BY <1>3 DEF Crash
  <2>2. ChainTypeOK' /\ LogTruthful' /\ TxsTruthful'
    BY <1>1, <2>1, ChainStill
  <2>3. finalized \in Nat
    BY <1>1 DEF ChainTypeOK
  <2>4. EmptyState \in GuardianStates /\ SoundState(EmptyState)
    BY <2>3, EmptyIsSound
  <2>5. LocalTypeOK'
    BY <1>1, <2>1, <2>3, <2>4, GuardianAssumption DEF LocalTypeOK, chainVars, Serving, Evaluating
  <2>6. SoundState(mem)'
    BY <2>1, <2>4, SoundStill
  <2>7. SoundState(disk)'
    BY <1>1, <2>1, SoundStill
  <2>8. MemoryAhead'
    BY <2>1 DEF MemoryAhead
  <2>9. CycleOrderly'
    BY <2>1 DEF CycleOrderly, Serving, Evaluating
  <2>10. MinimumSound'
    BY <1>1, <2>1 DEF MinimumSound, Protects, chainVars
  <2> QED BY <2>2, <2>5, <2>6, <2>7, <2>8, <2>9, <2>10, InvPartsNext
<1> QED BY <1>2, <1>3

\* Before anything happened the invariant holds.
LEMMA InitInv == Init => GuardianInv
<1> SUFFICES ASSUME Init PROVE GuardianInv
  OBVIOUS
<1>1. /\ status = [id \in PolicyIds |-> "None"] /\ trigger = [id \in PolicyIds |-> 0]
      /\ value = [id \in PolicyIds |-> 0] /\ ended = {} /\ log = <<>>
      /\ finalized = 0 /\ txs = <<>> /\ moves = 0
      /\ mem = EmptyState /\ disk = EmptyState /\ pc = "down"
      /\ target = 0 /\ queue = {} /\ current = 0 /\ minimum = 0 /\ crashes = 0 /\ faults = 0
  BY DEF Init, ChainInit
<1>2. EmptyState \in GuardianStates /\ SoundState(EmptyState)
  BY <1>1, EmptyIsSound
<1>3. ChainTypeOK
  <2>1. value \in Quotes(status) /\ trigger \in [PolicyIds -> Triggers \cup {0}]
    BY <1>1 DEF Quotes
  <2>2. log \in Seq(Events) /\ txs \in Seq(Transactions) /\ Len(log) = 0 /\ Len(txs) = 0
    BY <1>1
  <2> QED BY <1>1, <2>1, <2>2, ChainAssumption DEF ChainTypeOK
<1>4. LocalTypeOK
  BY <1>1, <1>2, GuardianAssumption DEF LocalTypeOK, Serving, Evaluating
<1>5. LogTruthful /\ TxsTruthful
  BY <1>1 DEF LogTruthful, TxsTruthful
<1>6. MemoryAhead /\ CycleOrderly /\ MinimumSound
  BY <1>1 DEF MemoryAhead, CycleOrderly, MinimumSound, Serving, Evaluating
<1> QED BY <1>1, <1>2, <1>3, <1>4, <1>5, <1>6, InvParts

\* FinalizedPolicyMonitor.sync: the head, the batches, the snapshot.
LEMMA SyncKeeps ==
    ASSUME GuardianInv, ReadHead \/ ReadLogs \/ SyncDone
    PROVE  GuardianInv'
<1>1. /\ ChainTypeOK /\ LocalTypeOK /\ LogTruthful /\ TxsTruthful
      /\ SoundState(mem) /\ SoundState(disk) /\ MemoryAhead /\ CycleOrderly /\ MinimumSound
  BY InvParts
<1>2. UNCHANGED chainVars /\ UNCHANGED <<disk, current, minimum, crashes, faults>>
  BY DEF ReadHead, ReadLogs, SyncDone, Idle, localVars, faultVars
<1>3. ChainTypeOK' /\ LogTruthful' /\ TxsTruthful'
  BY <1>1, <1>2, ChainStill
<1>4. SoundState(disk)'
  BY <1>1, <1>2, SoundStill
<1>5. /\ mem \in GuardianStates /\ mem.cursor \in Nat /\ mem.executions \in [PolicyIds -> Records]
      /\ finalized \in Nat
  BY <1>1 DEF LocalTypeOK, GuardianStates, ChainTypeOK
<1>6. CASE ReadHead
  <2>1. pc = "head" /\ pc' = "logs" /\ target' = finalized /\ UNCHANGED <<mem, queue>>
    BY <1>6 DEF ReadHead
  <2>2. LocalTypeOK'
    BY <1>1, <1>2, <1>5, <2>1 DEF LocalTypeOK, chainVars, Serving, Evaluating
  <2>3. SoundState(mem)'
    BY <1>1, <1>2, <2>1, SoundStill
  <2>4. MemoryAhead'
    BY <1>1, <1>2, <2>1 DEF MemoryAhead, Submitted, chainVars
  <2>5. CycleOrderly'
    BY <1>1, <1>2, <2>1 DEF CycleOrderly, OpenedBy, chainVars, Serving, Evaluating
  <2>6. MinimumSound'
    BY <1>1, <1>2, <2>1 DEF MinimumSound, Protects, chainVars
  <2> QED BY <1>3, <1>4, <2>2, <2>3, <2>4, <2>5, <2>6, InvPartsNext
<1>7. CASE ReadLogs
  <2>1. PICK toBlock : toBlock = IF mem.cursor + BatchSize < target
                                 THEN mem.cursor + BatchSize ELSE target
    OBVIOUS
  <2>2. /\ pc = "logs" /\ pc' = "saveIndex" /\ mem.cursor < target
        /\ UNCHANGED <<target, queue>> /\ mem' = Indexed(mem, toBlock)
    BY <1>7, <2>1 DEF ReadLogs, localVars
  <2>3. /\ toBlock \in Nat /\ mem.cursor <= toBlock /\ toBlock <= finalized
    BY <1>1, <1>5, <2>1, <2>2, GuardianAssumption DEF LocalTypeOK
  <2>4. /\ mem' \in GuardianStates /\ mem'.cursor = toBlock /\ SoundState(mem')
        /\ \A id \in PolicyIds : \/ mem'.executions[id] = mem.executions[id]
                                 \/ mem'.executions[id].status = "confirmed"
    BY <1>1, <1>5, <2>2, <2>3, IndexedKeeps
  <2>5. SoundState(mem)'
    BY <1>2, <2>4, SoundStill
  <2>6. LocalTypeOK'
    BY <1>1, <1>2, <2>2, <2>4 DEF LocalTypeOK, chainVars, Serving, Evaluating
  <2>7. MemoryAhead'
    <3>1. disk.cursor \in Nat /\ disk.cursor <= mem.cursor /\ disk'.cursor <= mem'.cursor
      BY <1>1, <1>2, <1>5, <2>2, <2>3, <2>4 DEF MemoryAhead, LocalTypeOK, GuardianStates
    <3> QED BY <1>1, <1>2, <2>2, <2>4, <3>1 DEF MemoryAhead, Submitted, chainVars
  <2>8. CycleOrderly'
    <3>1. \A id : OpenedBy(id, mem.cursor) => \E n \in 1..toBlock : log[n].kind = "opened" /\ log[n].id = id
      BY <1>5, <2>3 DEF OpenedBy
    <3> QED BY <1>1, <1>2, <2>2, <2>4, <3>1 DEF CycleOrderly, OpenedBy, chainVars, Serving, Evaluating
  <2>9. MinimumSound'
    BY <1>1, <1>2, <2>2 DEF MinimumSound, Protects, chainVars
  <2> QED BY <1>3, <1>4, <2>5, <2>6, <2>7, <2>8, <2>9, InvPartsNext
<1>8. CASE SyncDone
  <2>1. /\ pc = "logs" /\ pc' = "next" /\ queue' = mem.policies /\ UNCHANGED <<mem, target>>
    BY <1>8 DEF SyncDone
  <2>2. SoundState(mem)'
    BY <1>1, <1>2, <2>1, SoundStill
  <2>3. LocalTypeOK'
    BY <1>1, <1>2, <1>5, <2>1 DEF LocalTypeOK, GuardianStates, chainVars, Serving, Evaluating
  <2>4. MemoryAhead'
    BY <1>1, <1>2, <2>1 DEF MemoryAhead, Submitted, chainVars
  <2>5. CycleOrderly'
    <3>1. \A id \in mem.policies : /\ id \in PolicyIds
                                   /\ OpenedBy(id, mem.cursor)
                                   /\ mem.executions[id].status # "confirmed"
      BY <1>1, <1>5 DEF SoundState, Replays, AllTruthful, Truthful, GuardianStates
    <3> QED BY <1>1, <1>2, <2>1, <3>1 DEF CycleOrderly, OpenedBy, chainVars, Serving, Evaluating
  <2>6. MinimumSound'
    BY <1>1, <1>2, <2>1 DEF MinimumSound, Protects, chainVars
  <2> QED BY <1>3, <1>4, <2>2, <2>3, <2>4, <2>5, <2>6, InvPartsNext
<1> QED BY <1>6, <1>7, <1>8

\* GuardianRunner.runOnce and PolicyEvaluator.evaluate: the next policy, its status,
\* its value.
LEMMA EvaluateKeeps ==
    ASSUME GuardianInv, Visit \/ ReadPolicy \/ ReadValue \/ Simulate
    PROVE  GuardianInv'
<1>1. /\ ChainTypeOK /\ LocalTypeOK /\ LogTruthful /\ TxsTruthful
      /\ SoundState(mem) /\ SoundState(disk) /\ MemoryAhead /\ CycleOrderly /\ MinimumSound
  BY InvParts
<1>2. UNCHANGED chainVars /\ UNCHANGED <<disk, target, crashes, faults>>
  BY DEF Visit, ReadPolicy, ReadValue, Simulate, Idle, localVars, faultVars
<1>3. ChainTypeOK' /\ LogTruthful' /\ TxsTruthful'
  BY <1>1, <1>2, ChainStill
<1>4. SoundState(disk)'
  BY <1>1, <1>2, SoundStill
<1>5. /\ mem \in GuardianStates /\ mem.cursor \in Nat /\ mem.executions \in [PolicyIds -> Records]
      /\ finalized \in Nat /\ finalized <= Len(log) /\ Len(log) \in Nat
      /\ status \in [PolicyIds -> Closed \cup {"None", "Active"}]
      /\ value \in [PolicyIds -> Values \cup {0}] /\ trigger \in [PolicyIds -> Triggers \cup {0}]
      /\ \A id \in PolicyIds : status[id] = "Active" => value[id] \in Values
  BY <1>1 DEF LocalTypeOK, GuardianStates, ChainTypeOK, Quotes
<1>6. CASE Visit
  <2>1. PICK id \in queue : /\ pc = "next" /\ current' = id /\ queue' = queue \ {id}
                            /\ pc' = IF mem.executions[id].status = "submitted"
                                     THEN "receipt" ELSE "policy"
                            /\ UNCHANGED <<mem, minimum>>
    BY <1>6 DEF Visit
  <2>2. SoundState(mem)'
    BY <1>1, <1>2, <2>1, SoundStill
  <2>3. LocalTypeOK'
    BY <1>1, <1>2, <1>5, <2>1, ChainAssumption DEF LocalTypeOK, chainVars, Serving, Evaluating
  <2>4. MemoryAhead'
    BY <1>1, <1>2, <2>1 DEF MemoryAhead, Submitted, chainVars
  <2>5. CycleOrderly'
    BY <1>1, <1>2, <2>1 DEF CycleOrderly, OpenedBy, chainVars, Serving, Evaluating
  <2>6. MinimumSound'
    BY <1>1, <1>2, <2>1 DEF MinimumSound, Protects, chainVars
  <2> QED BY <1>3, <1>4, <2>2, <2>3, <2>4, <2>5, <2>6, InvPartsNext
<1>7. CASE ReadPolicy
  <2>1. /\ pc = "policy" /\ pc' \in {"saveDeletion", "next", "value"}
        /\ UNCHANGED <<queue, current, minimum>>
        /\ \/ mem' = mem
           \/ /\ mem' = [mem EXCEPT !.policies = mem.policies \ {current}]
              /\ status[current] # "Active"
    BY <1>7 DEF ReadPolicy, localVars
  <2>2. /\ mem' \in GuardianStates /\ mem'.cursor = mem.cursor /\ mem'.executions = mem.executions
        /\ \/ mem'.policies = mem.policies
           \/ mem'.policies = mem.policies \ {current} /\ status[current] # "Active"
    BY <1>5, <2>1 DEF GuardianStates
  <2>3. SoundState(mem')
    <3>1. Replays(mem'.policies, mem'.cursor)
      BY <1>1, <2>2 DEF SoundState, Replays
    <3>2. AllTruthful(mem'.executions, mem'.policies, mem'.cursor)
      BY <1>1, <2>2 DEF SoundState, AllTruthful, Truthful
    <3> QED BY <1>1, <2>2, <3>1, <3>2 DEF SoundState
  <2>4. SoundState(mem)'
    BY <1>2, <2>3, SoundStill
  <2>5. LocalTypeOK'
    BY <1>1, <1>2, <2>1, <2>2 DEF LocalTypeOK, chainVars, Serving, Evaluating
  <2>6. MemoryAhead'
    BY <1>1, <1>2, <2>1, <2>2 DEF MemoryAhead, Submitted, chainVars
  <2>7. CycleOrderly'
    BY <1>1, <1>2, <2>1, <2>2 DEF CycleOrderly, OpenedBy, chainVars, Serving, Evaluating
  <2>8. MinimumSound'
    BY <1>1, <1>2, <2>1 DEF MinimumSound, Protects, chainVars
  <2> QED BY <1>3, <1>4, <2>4, <2>5, <2>6, <2>7, <2>8, InvPartsNext
<1>8. CASE ReadValue
  <2>1. PICK assets : assets = value[current]
    OBVIOUS
  <2>2. /\ pc = "value" /\ UNCHANGED <<mem, queue, current>>
        /\ \/ pc' = "next" /\ minimum' = minimum
           \/ /\ ~ assets > trigger[current] /\ pc' = "simulate"
              /\ minimum' = (assets * (BpsDenominator - SlippageBps)) \div BpsDenominator
    BY <1>8, <2>1 DEF ReadValue
  <2>3. current \in PolicyIds
    BY <1>1, <2>2 DEF LocalTypeOK, Serving, Evaluating
  <2>4. assets \in Nat /\ (status[current] = "Active" => assets \in Values)
    BY <1>5, <2>1, <2>3, ChainAssumption
  <2>5. minimum' \in Nat
    <3>1. minimum \in Nat
      BY <1>1 DEF LocalTypeOK
    <3>2. BpsDenominator - SlippageBps \in Nat /\ BpsDenominator \in Nat \ {0}
      BY GuardianAssumption DEF BpsDenominator
    <3>3. \A a, b \in Nat : a * b \in Nat
      OBVIOUS
    <3>4. assets * (BpsDenominator - SlippageBps) \in Nat
      BY <2>4, <3>2, <3>3
    <3>5. \A a \in Nat, b \in Nat \ {0} : a \div b \in Nat
      OBVIOUS
    <3> QED BY <2>2, <3>1, <3>2, <3>4, <3>5
  <2>6. SoundState(mem)'
    BY <1>1, <1>2, <2>2, SoundStill
  <2>7. LocalTypeOK'
    BY <1>1, <1>2, <2>2, <2>5 DEF LocalTypeOK, chainVars, Serving, Evaluating
  <2>8. MemoryAhead'
    BY <1>1, <1>2, <2>2 DEF MemoryAhead, Submitted, chainVars
  <2>9. CycleOrderly'
    BY <1>1, <1>2, <2>2 DEF CycleOrderly, OpenedBy, chainVars, Serving, Evaluating
  <2>10. MinimumSound'
    <3>1. ASSUME pc' = "simulate"
          PROVE  Protects(current, minimum') \/ status[current] \in Closed
      <4>1. CASE status[current] = "Active"
        <5>1. assets \in Values /\ assets <= trigger[current]
          <6>1. trigger[current] \in Nat
            <7>1. trigger[current] \in Triggers \cup {0}
              BY <1>5, <2>3
            <7>2. Triggers \subseteq Nat
              BY ChainAssumption
            <7>3. CASE trigger[current] \in Triggers
              BY <7>2, <7>3
            <7>4. CASE trigger[current] = 0
              BY <7>4
            <7> QED BY <7>1, <7>3, <7>4
          <6> QED BY <2>2, <2>4, <3>1, <4>1, <6>1
        <5>2. minimum' = (assets * (BpsDenominator - SlippageBps)) \div BpsDenominator
          BY <2>2, <3>1
        <5> QED BY <5>1, <5>2 DEF Protects
      <4>2. CASE status[current] # "Active"
        <5>1. OpenedBy(current, mem.cursor) /\ mem.cursor <= Len(log)
          BY <1>1, <1>5, <2>2 DEF CycleOrderly, LocalTypeOK, SoundState, Serving, Evaluating
        <5>2. status[current] # "None"
          BY <1>1, <1>5, <5>1, OpenedHasStatus
        <5> QED BY <1>5, <2>3, <4>2, <5>2
      <4> QED BY <4>1, <4>2
    <3> QED BY <1>1, <1>2, <2>2, <3>1 DEF MinimumSound, Protects, chainVars
  <2> QED BY <1>3, <1>4, <2>6, <2>7, <2>8, <2>9, <2>10, InvPartsNext
<1>9. CASE Simulate
  <2>1. /\ pc = "simulate" /\ pc' = "submit" /\ status[current] = "Active"
        /\ UNCHANGED <<mem, queue, current, minimum>>
    BY <1>9 DEF Simulate, Executable, localVars
  <2>2. SoundState(mem)'
    BY <1>1, <1>2, <2>1, SoundStill
  <2>3. LocalTypeOK'
    BY <1>1, <1>2, <2>1 DEF LocalTypeOK, chainVars, Serving, Evaluating
  <2>4. MemoryAhead'
    BY <1>1, <1>2, <2>1 DEF MemoryAhead, Submitted, chainVars
  <2>5. CycleOrderly'
    BY <1>1, <1>2, <2>1 DEF CycleOrderly, OpenedBy, chainVars, Serving, Evaluating
  <2>6. MinimumSound'
    BY <1>1, <1>2, <2>1 DEF MinimumSound, Protects, chainVars, Closed
  <2> QED BY <1>3, <1>4, <2>2, <2>3, <2>4, <2>5, <2>6, InvPartsNext
<1> QED BY <1>6, <1>7, <1>8, <1>9

\* A transaction that is sent keeps what is said of the earlier ones; only the records
\* of its own policy could be outdated by it.
LEMMA BroadcastKeeps ==
    ASSUME GuardianInv, pc = "submit", Broadcast
    PROVE  /\ ChainTypeOK' /\ LogTruthful' /\ TxsTruthful' /\ TxsGrow
           /\ Len(txs') = Len(txs) + 1 /\ txs'[Len(txs) + 1].id = current
           /\ \A n \in 1..Len(txs') : Protects(txs'[n].id, txs'[n].minimumAssets)
           /\ UNCHANGED <<status, trigger, value, ended, log, finalized, moves>>
<1>1. /\ ChainTypeOK /\ LocalTypeOK /\ LogTruthful /\ TxsTruthful
      /\ SoundState(mem) /\ SoundState(disk) /\ MemoryAhead /\ CycleOrderly /\ MinimumSound
  BY InvParts
<1>2. UNCHANGED <<status, trigger, value, ended, log, finalized, moves>>
  BY DEF Broadcast
<1>3. PICK tx : tx = [id |-> current, minimumAssets |-> minimum, result |-> "pending"]
  OBVIOUS
<1>4. /\ tx \in Transactions /\ tx.id = current /\ tx.minimumAssets = minimum
      /\ tx.result = "pending" /\ txs' = Append(txs, tx) /\ Len(txs) < MaxTransactions
  BY <1>1, <1>3 DEF LocalTypeOK, Transactions, Serving, Evaluating, Broadcast
<1>5. txs \in Seq(Transactions)
  BY <1>1 DEF ChainTypeOK
<1>6. /\ txs' \in Seq(Transactions) /\ Len(txs) \in Nat /\ Len(txs') = Len(txs) + 1
      /\ \A n \in 1..Len(txs) : txs'[n] = txs[n]
      /\ txs'[Len(txs) + 1] = tx
  BY <1>4, <1>5, Appended
<1>7. ChainTypeOK'
  BY <1>1, <1>2, <1>4, <1>6, ChainAssumption DEF ChainTypeOK
<1>8. LogTruthful'
  BY <1>1, <1>2 DEF LogTruthful, OpenedBy
<1>9. TxsTruthful'
  <2>1. /\ OpenedBy(current, mem.cursor) /\ mem.cursor \in Nat
        /\ mem.cursor <= Len(log) /\ Len(log) \in Nat
    BY <1>1, ChainAssumption
       DEF CycleOrderly, LocalTypeOK, SoundState, GuardianStates, ChainTypeOK,
           Serving, Evaluating
  <2>2. status[current] # "None"
    BY <1>1, <2>1, OpenedHasStatus
  <2> QED BY <1>1, <1>2, <1>4, <1>6, <2>2 DEF TxsTruthful
<1>10. TxsGrow
  BY <1>6 DEF TxsGrow
<1>11. \A n \in 1..Len(txs') : Protects(txs'[n].id, txs'[n].minimumAssets)
  BY <1>1, <1>4, <1>6 DEF MinimumSound
<1> QED BY <1>2, <1>4, <1>6, <1>7, <1>8, <1>9, <1>10, <1>11

\* A state that waits for no transaction of the policy being served stays sound
\* when one is sent.
LEMMA SoundWhenSent ==
    ASSUME ChainTypeOK, TxsGrow, Len(txs') = Len(txs) + 1, txs'[Len(txs) + 1].id = current,
           UNCHANGED <<status, trigger, log, finalized>>,
           NEW s \in GuardianStates, SoundState(s), ~ Submitted(s.executions[current])
    PROVE  SoundState(s)'
<1>1. /\ s.cursor \in Nat /\ s.cursor <= finalized /\ s.executions \in [PolicyIds -> Records]
      /\ finalized <= Len(log) /\ finalized \in Nat /\ Len(log) \in Nat
      /\ Replays(s.policies, s.cursor)
      /\ AllTruthful(s.executions, s.policies, s.cursor) /\ NoneBehind(s.executions)
      /\ Len(txs) \in Nat
  BY DEF SoundState, GuardianStates, ChainTypeOK
<1>2. LogGrows /\ s.cursor <= Len(log) /\ Len(txs') \in Nat
  BY <1>1 DEF LogGrows
<1>3. Replays(s.policies, s.cursor)'
  BY <1>1 DEF Replays, OpenedBy
<1>4. AllTruthful(s.executions, s.policies, s.cursor)'
  BY <1>1, <1>2, TruthfulStays
<1>5. NoneBehind(s.executions)'
  <2> SUFFICES ASSUME NEW id \in PolicyIds, NEW n \in 1..Len(txs'),
                      Submitted(s.executions[id])', txs'[n].id = id
               PROVE  n <= s.executions[id].tx
    BY DEF NoneBehind
  <2>1. s.executions[id].tx \in 1..Len(txs)
    BY <1>1 DEF AllTruthful, Truthful, Submitted
  <2>2. Submitted(s.executions[id])
    BY <2>1 DEF Submitted, TxsGrow
  <2>3. n \in 1..Len(txs)
    BY <1>1, <2>2
  <2> QED BY <1>1, <2>2, <2>3 DEF NoneBehind, TxsGrow
<1> QED BY <1>1, <1>3, <1>4, <1>5 DEF SoundState

\* ProtectionExecutor.execute: the transaction is sent, and its hash recorded or lost.
LEMMA SubmitKeeps ==
    ASSUME GuardianInv, Submit \/ SubmitAnswerLost
    PROVE  GuardianInv'
<1>1. /\ ChainTypeOK /\ LocalTypeOK /\ LogTruthful /\ TxsTruthful
      /\ SoundState(mem) /\ SoundState(disk) /\ MemoryAhead /\ CycleOrderly /\ MinimumSound
  BY InvParts
<1>2. /\ pc = "submit" /\ Broadcast
      /\ UNCHANGED <<disk, target, queue, current, minimum, crashes>>
      /\ pc' \in {"saveHash", "submit", "next"} /\ faults' \in 0..MaxFaults
  BY <1>1, GuardianAssumption DEF Submit, SubmitAnswerLost, Fault, localVars, faultVars, LocalTypeOK
<1>3. /\ ChainTypeOK' /\ LogTruthful' /\ TxsTruthful' /\ TxsGrow
      /\ Len(txs') = Len(txs) + 1 /\ txs'[Len(txs) + 1].id = current
      /\ \A n \in 1..Len(txs') : Protects(txs'[n].id, txs'[n].minimumAssets)
      /\ UNCHANGED <<status, trigger, value, ended, log, finalized, moves>>
  BY <1>2, BroadcastKeeps
<1>4. /\ mem \in GuardianStates /\ mem.cursor \in Nat /\ mem.executions \in [PolicyIds -> Records]
      /\ disk \in GuardianStates /\ disk.executions \in [PolicyIds -> Records]
      /\ current \in PolicyIds /\ Len(txs) \in Nat
  BY <1>1, <1>2 DEF LocalTypeOK, GuardianStates, ChainTypeOK, Serving, Evaluating
<1>5. mem.executions[current].status \notin {"submitted", "confirmed"}
  BY <1>1, <1>2 DEF CycleOrderly, Evaluating
<1>6. ~ Submitted(mem.executions[current]) /\ ~ Submitted(disk.executions[current])
  BY <1>1, <1>2, <1>4, <1>5 DEF MemoryAhead, Submitted
<1>7. SoundState(disk)'
  BY <1>1, <1>2, <1>3, <1>4, <1>6, SoundWhenSent
<1>8. MinimumSound'
  BY <1>1, <1>2, <1>3 DEF MinimumSound, Protects
<1>9. \A id \in PolicyIds : Submitted(disk.executions[id])' =>
                               Submitted(disk.executions[id]) /\ id # current
  <2> SUFFICES ASSUME NEW id \in PolicyIds, Submitted(disk.executions[id])'
               PROVE  Submitted(disk.executions[id])
    BY <1>6
  <2>1. disk.executions[id].tx \in 1..Len(txs)
    BY <1>1, <1>2 DEF SoundState, AllTruthful, Truthful, Submitted
  <2> QED BY <1>2, <1>3, <2>1 DEF Submitted, TxsGrow
<1>10. CASE SubmitAnswerLost
  <2>1. mem' = mem /\ pc' \in {"submit", "next"}
    BY <1>10 DEF SubmitAnswerLost
  <2>2. SoundState(mem)'
    BY <1>1, <1>3, <1>4, <1>6, <2>1, SoundWhenSent
  <2>3. LocalTypeOK'
    BY <1>1, <1>2, <1>3, <2>1 DEF LocalTypeOK, Serving, Evaluating
  <2>4. MemoryAhead'
    BY <1>1, <1>2, <1>9, <2>1 DEF MemoryAhead
  <2>5. CycleOrderly'
    BY <1>1, <1>2, <1>3, <2>1 DEF CycleOrderly, OpenedBy, Serving, Evaluating
  <2> QED BY <1>3, <1>7, <1>8, <2>2, <2>3, <2>4, <2>5, InvPartsNext
<1>11. CASE Submit
  <2>1. PICK record : record = Record("submitted", Len(txs) + 1)
    OBVIOUS
  <2>2. record \in Records /\ record.status = "submitted" /\ record.tx = Len(txs) + 1
    BY <1>4, <2>1 DEF Record, Records
  <2>3. mem' = [mem EXCEPT !.executions[current] = record] /\ pc' = "saveHash"
    BY <1>11, <2>1 DEF Submit
  <2>4. /\ mem' \in GuardianStates /\ mem'.cursor = mem.cursor /\ mem'.policies = mem.policies
        /\ mem'.executions = [mem.executions EXCEPT ![current] = record]
    BY <1>4, <2>2, <2>3 DEF GuardianStates
  <2>5. /\ mem'.executions[current] = record
        /\ \A id \in PolicyIds : id # current => mem'.executions[id] = mem.executions[id]
    BY <1>4, <2>4
  <2>6. LocalTypeOK'
    BY <1>1, <1>2, <1>3, <2>3, <2>4 DEF LocalTypeOK, Serving, Evaluating
  <2>7. SoundState(mem)'
    <3>1. mem.cursor <= finalized /\ Replays(mem.policies, mem.cursor)
          /\ AllTruthful(mem.executions, mem.policies, mem.cursor) /\ NoneBehind(mem.executions)
          /\ mem.cursor <= Len(log) /\ Len(log) \in Nat /\ finalized \in Nat
      BY <1>1, <1>4 DEF SoundState, ChainTypeOK
    <3>2. Replays(mem.policies, mem.cursor)'
      BY <1>3, <2>4, <3>1 DEF Replays, OpenedBy
    <3>3. ASSUME NEW id \in PolicyIds
          PROVE  Truthful(id, mem.executions[id], mem.policies, mem.cursor)'
      <4>1. Truthful(id, mem.executions[id], mem.policies, mem.cursor)
        BY <3>1 DEF AllTruthful
      <4>2. CASE id = current
        <5>1. OpenedBy(id, mem.cursor)
          BY <1>1, <1>4, <4>2, ChainAssumption DEF CycleOrderly
        <5> QED BY <1>3, <1>4, <2>2, <2>4, <2>5, <4>2, <5>1 DEF Truthful, OpenedBy
      <4>3. CASE id # current
        BY <1>3, <1>4, <2>4, <2>5, <4>1, <4>3 DEF Truthful, OpenedBy, TxsGrow
      <4> QED BY <4>2, <4>3
    <3>4. AllTruthful(mem.executions, mem.policies, mem.cursor)'
      BY <3>3 DEF AllTruthful
    <3>5. ASSUME NEW id \in PolicyIds, NEW n \in 1..Len(txs'),
                 Submitted(mem.executions[id])', txs'[n].id = id
          PROVE  n <= mem'.executions[id].tx
      <4>1. CASE id = current
        BY <1>3, <1>4, <2>2, <2>5, <4>1
      <4>2. CASE id # current
        <5>1. mem.executions[id].tx \in 1..Len(txs)
          BY <2>5, <3>1, <3>5, <4>2 DEF AllTruthful, Truthful, Submitted
        <5>2. Submitted(mem.executions[id]) /\ n \in 1..Len(txs) /\ txs[n].id = id
          BY <1>3, <1>4, <2>5, <3>5, <4>2, <5>1 DEF Submitted, TxsGrow
        <5> QED BY <2>5, <3>1, <4>2, <5>2 DEF NoneBehind
      <4> QED BY <4>1, <4>2
    <3>6. NoneBehind(mem.executions)'
      BY <3>5 DEF NoneBehind
    <3> QED BY <1>3, <2>4, <3>1, <3>2, <3>4, <3>6 DEF SoundState
  <2>8. MemoryAhead'
    BY <1>1, <1>2, <1>9, <2>3, <2>4, <2>5 DEF MemoryAhead
  <2>9. CycleOrderly'
    BY <1>1, <1>2, <1>3, <1>4, <2>2, <2>3, <2>4, <2>5
       DEF CycleOrderly, OpenedBy, LocalTypeOK, Serving, Evaluating
  <2> QED BY <1>3, <1>7, <1>8, <2>6, <2>7, <2>8, <2>9, InvPartsNext
<1> QED BY <1>10, <1>11

\* ProtectionExecutor.resume: the outcome of the recorded transaction.
LEMMA ReceiptKeeps ==
    ASSUME GuardianInv, ReadReceipt
    PROVE  GuardianInv'
<1>1. /\ ChainTypeOK /\ LocalTypeOK /\ LogTruthful /\ TxsTruthful
      /\ SoundState(mem) /\ SoundState(disk) /\ MemoryAhead /\ CycleOrderly /\ MinimumSound
  BY InvParts
<1>2. /\ UNCHANGED chainVars /\ UNCHANGED <<disk, target, queue, current, minimum, crashes, faults>>
      /\ pc = "receipt" /\ pc' = "saveOutcome"
  BY DEF ReadReceipt, Idle, localVars, faultVars
<1>3. ChainTypeOK' /\ LogTruthful' /\ TxsTruthful'
  BY <1>1, <1>2, ChainStill
<1>4. SoundState(disk)'
  BY <1>1, <1>2, SoundStill
<1>5. /\ mem \in GuardianStates /\ mem.executions \in [PolicyIds -> Records]
      /\ current \in PolicyIds
  BY <1>1, <1>2 DEF LocalTypeOK, GuardianStates, Serving, Evaluating
<1>6. PICK tx : tx = mem.executions[current].tx
  OBVIOUS
<1>7. /\ mem.executions[current].status = "submitted"
      /\ tx \in 1..Len(txs) /\ txs[tx].id = current /\ tx \in Int
      /\ OpenedBy(current, mem.cursor)
  <2>1. mem.executions[current].status = "submitted"
    BY <1>1, <1>2 DEF CycleOrderly
  <2>2. Truthful(current, mem.executions[current], mem.policies, mem.cursor)
    BY <1>1, <1>5 DEF SoundState, AllTruthful
  <2>3. mem.executions[current].tx \in 1..Len(txs)
    BY SMTT(30), <2>1, <2>2 DEF Truthful
  <2> QED BY <1>6, <2>1, <2>2, <2>3 DEF Truthful
<1>8. PICK record, policies :
         /\ mem' = [mem EXCEPT !.executions[current] = record, !.policies = policies]
         /\ \/ /\ txs[tx].result = "success" /\ record = Record("confirmed", tx)
               /\ policies = mem.policies \ {current}
            \/ /\ txs[tx].result = "reverted" /\ record = Record("reverted", tx)
               /\ policies = mem.policies
  <2>1. CASE /\ txs[tx].result = "success"
             /\ mem' = [mem EXCEPT !.executions[current] = Record("confirmed", tx),
                                   !.policies = @ \ {current}]
    BY <2>1
  <2>2. CASE /\ txs[tx].result = "reverted"
             /\ mem' = [mem EXCEPT !.executions[current] = Record("reverted", tx)]
    <3>1. mem' = [mem EXCEPT !.executions[current] = Record("reverted", tx),
                             !.policies = mem.policies]
      BY <1>5, <2>2 DEF GuardianStates
    <3> QED BY <2>2, <3>1
  <2> QED BY <1>6, <2>1, <2>2 DEF ReadReceipt
<1>9. /\ record \in Records /\ record.tx = tx /\ record.status # "submitted"
      /\ policies \subseteq mem.policies
  BY <1>7, <1>8 DEF Record, Records
<1>10. /\ mem' \in GuardianStates /\ mem'.cursor = mem.cursor /\ mem'.policies = policies
       /\ mem'.executions = [mem.executions EXCEPT ![current] = record]
  BY <1>5, <1>8, <1>9 DEF GuardianStates
<1>11. /\ mem'.executions[current] = record
       /\ \A id \in PolicyIds : id # current => mem'.executions[id] = mem.executions[id]
  BY <1>5, <1>10
<1>12. txs[tx].result = "success" => status[current] = "Executed"
  BY <1>1, <1>7 DEF TxsTruthful
<1>13. SoundState(mem')
  <2>1. Replays(mem'.policies, mem'.cursor)
    BY <1>1, <1>8, <1>10, <1>12 DEF SoundState, Replays
  <2>2. ASSUME NEW id \in PolicyIds
        PROVE  Truthful(id, mem'.executions[id], mem'.policies, mem'.cursor)
    <3>1. Truthful(id, mem.executions[id], mem.policies, mem.cursor)
      BY <1>1 DEF SoundState, AllTruthful
    <3>2. CASE id = current
      BY <1>7, <1>8, <1>10, <1>11, <1>12, <3>2 DEF Truthful, Record
    <3>3. CASE id # current
      BY <1>9, <1>10, <1>11, <3>1, <3>3 DEF Truthful
    <3> QED BY <3>2, <3>3
  <2>3. NoneBehind(mem'.executions)
    BY <1>1, <1>9, <1>11 DEF SoundState, NoneBehind, Submitted
  <2> QED BY <1>1, <1>10, <2>1, <2>2, <2>3 DEF SoundState, AllTruthful
<1>14. SoundState(mem)'
  BY <1>2, <1>13, SoundStill
<1>15. LocalTypeOK'
  BY <1>1, <1>2, <1>10 DEF LocalTypeOK, chainVars, Serving, Evaluating
<1>16. MemoryAhead'
  <2>1. ~ Submitted(disk.executions[current])
    BY <1>1, <1>2, <1>5, <1>6, <1>7, <1>8 DEF MemoryAhead, Submitted
  <2>2. \A id \in PolicyIds : Submitted(disk.executions[id])' =>
                                 Submitted(disk.executions[id]) /\ id # current
    BY <1>2, <2>1 DEF Submitted, chainVars
  <2> QED BY <1>1, <1>2, <1>10, <1>11, <2>2 DEF MemoryAhead
<1>17. CycleOrderly'
  BY <1>1, <1>2, <1>10, <1>11 DEF CycleOrderly, OpenedBy, chainVars, Serving, Evaluating
<1>18. MinimumSound'
  BY <1>1, <1>2 DEF MinimumSound, Protects, chainVars
<1> QED BY <1>3, <1>4, <1>14, <1>15, <1>16, <1>17, <1>18, InvPartsNext

\* The invariant is inductive.
LEMMA NextInv == GuardianInv /\ [Next]_vars => GuardianInv'
<1> SUFFICES ASSUME GuardianInv, [Next]_vars PROVE GuardianInv'
  OBVIOUS
<1>1. CASE Monitor
  BY <1>1, RestartKeeps, SyncKeeps, SaveKeeps DEF Monitor
<1>2. CASE Evaluate
  BY <1>2, EvaluateKeeps, SaveKeeps, FailKeeps DEF Evaluate
<1>3. CASE Execute
  BY <1>3, EvaluateKeeps, SubmitKeeps, SaveKeeps, ReceiptKeeps DEF Execute
<1>4. CASE Fail
  BY <1>4, FailKeeps, SubmitKeeps DEF Fail
<1>5. CASE Crash
  BY <1>5, RestartKeeps
<1>6. CASE ChainStep
  BY <1>6, ChainStepKeeps
<1>7. CASE UNCHANGED vars
  BY <1>7 DEF vars, chainVars, localVars, faultVars, GuardianInv, TypeOK, LogTruthful,
     OpenedBy, TxsTruthful, SoundState, Replays, AllTruthful, Truthful, NoneBehind,
     Submitted, MemoryAhead, CycleOrderly, MinimumSound, Protects
<1> QED BY <1>1, <1>2, <1>3, <1>4, <1>5, <1>6, <1>7 DEF Next

\* Every reachable state satisfies the invariant.
THEOREM GuardianInvariance == Spec => []GuardianInv
<1>1. Init => GuardianInv
  BY InitInv
<1>2. GuardianInv /\ [Next]_vars => GuardianInv'
  BY NextInv
<1> QED BY <1>1, <1>2, PTL DEF Spec

\* The guardian's variables keep their types.
THEOREM GuardianTypeCorrect == Spec => []TypeOK
<1>1. GuardianInv => TypeOK
  BY DEF GuardianInv
<1> QED BY <1>1, GuardianInvariance, PTL

\* Both states of the guardian are sound.
LEMMA StatesSound == GuardianInv => \A s \in States : /\ SoundState(s) /\ s \in GuardianStates
                                                      /\ disk.cursor <= s.cursor
  BY TypeSplits DEF GuardianInv, States, MemoryAhead, LocalTypeOK, GuardianStates

\* The index is the replay of the log up to its cursor, whatever was retried, deleted
\* or lost in a crash: monitor.ts:18-41, evaluator.ts:15-25.
THEOREM IndexReplaysLog == Spec => []IndexIsReplay
<1>1. GuardianInv => IndexIsReplay
  <2> SUFFICES ASSUME GuardianInv, NEW s \in States
               PROVE  LET opened == Logged({"opened"}, s.cursor)
                      IN /\ s.cursor <= finalized
                         /\ disk.cursor <= s.cursor
                         /\ {id \in opened : status[id] = "Active"} \subseteq s.policies
                         /\ s.policies \subseteq opened \ Logged(Kinds \ {"opened"}, s.cursor)
    BY DEF IndexIsReplay
  <2>1. /\ s.cursor <= finalized /\ disk.cursor <= s.cursor
        /\ Replays(s.policies, s.cursor)
    BY StatesSound DEF SoundState
  <2>2. {id \in Logged({"opened"}, s.cursor) : status[id] = "Active"} \subseteq s.policies
    BY <2>1 DEF Replays, Logged
  <2>3. s.policies \subseteq Logged({"opened"}, s.cursor)
    BY <2>1 DEF Replays, OpenedBy, Logged
  <2>4. \A id \in s.policies : id \notin Logged(Kinds \ {"opened"}, s.cursor)
    BY <2>1 DEF Replays, Logged
  <2> QED BY <2>1, <2>2, <2>3, <2>4
<1> QED BY <1>1, GuardianInvariance, PTL

\* A record of an execution tells what happened: executor.ts, monitor.ts:27-37.
THEOREM RecordsTellTheTruth == Spec => []RecordsTruthful
<1>1. GuardianInv => RecordsTruthful
  <2> SUFFICES ASSUME GuardianInv, NEW s \in States, NEW id \in PolicyIds
               PROVE  LET record == s.executions[id]
                      IN CASE record.status = "none" -> TRUE
                           [] record.status = "confirmed" ->
                                 status[id] = "Executed" /\ id \notin s.policies
                           [] record.status = "submitted" ->
                                 record.tx \in 1..Len(txs) /\ txs[record.tx].id = id
                           [] record.status = "reverted" ->
                                 /\ record.tx \in 1..Len(txs) /\ txs[record.tx].id = id
                                 /\ txs[record.tx].result = "reverted"
    BY DEF RecordsTruthful
  <2>1. s.executions[id] \in Records /\ Truthful(id, s.executions[id], s.policies, s.cursor)
    BY StatesSound DEF SoundState, AllTruthful, GuardianStates
  <2> QED BY <2>1 DEF Truthful, Records
<1> QED BY <1>1, GuardianInvariance, PTL

\* No transaction is sent behind one that is on record and pending: runner.ts:62-67.
THEOREM NothingBehindARecord == Spec => []NoneBehindRecord
<1>1. GuardianInv => NoneBehindRecord
  BY StatesSound DEF NoneBehindRecord, SoundState, NoneBehind, Submitted
<1> QED BY <1>1, GuardianInvariance, PTL

\* No exit of the guardian is without a minimum that protects it: evaluator.ts:31-39.
THEOREM ExitsAreProtected == Spec => []NoUnprotectedExit
<1>1. GuardianInv => NoUnprotectedExit
  BY DEF GuardianInv, MinimumSound, Protects, NoUnprotectedExit
<1> QED BY <1>1, GuardianInvariance, PTL

-----------------------------------------------------------------------------
(* A submitted transaction stays where a cycle finds it.                     *)

Outlived(id) == status[id] \in {"Cancelled", "Expired"}

\* What a state waits for is in its index, unless the policy was closed by others.
Resumable(s) ==
    \A id \in PolicyIds : s.executions[id].status = "submitted" =>
                             id \in s.policies \/ Outlived(id)

\* Whom a cycle serves is in the index, until it deletes the policy itself.
ServesIndexed ==
    /\ pc \in Serving \cup {"next"} => queue \subseteq mem.policies
    /\ pc \in Evaluating \cup {"saveHash", "receipt"} => current \in mem.policies

ResumeInv == Resumable(mem) /\ Resumable(disk) /\ ServesIndexed

\* The next event takes a policy that is waited for off the index only when it
\* records the execution, or when the policy was closed.
LEMMA ApplyEventResumable ==
    ASSUME ChainTypeOK, LogTruthful, NEW n \in 1..Len(log), NEW s \in GuardianStates, Resumable(s)
    PROVE  Resumable(ApplyEvent(s, log[n], n))
<1>1. PICK event : event = log[n]
  OBVIOUS
<1>2. event.kind \in Kinds /\ event.id \in PolicyIds
  BY <1>1, LogTypes DEF ChainTypeOK
<1>3. PICK t : t = ApplyEvent(s, event, n)
  OBVIOUS
<1>4. s.executions \in [PolicyIds -> Records] /\ s.policies \subseteq PolicyIds
  BY DEF GuardianStates
<1>5. CASE event.kind = "opened"
  <2>1. t.policies = s.policies \cup {event.id} /\ t.executions = s.executions
    BY <1>3, <1>5 DEF ApplyEvent, GuardianStates
  <2> QED BY <1>1, <1>3, <2>1 DEF Resumable
<1>6. CASE event.kind = "executed"
  <2>1. /\ t.policies = s.policies \ {event.id}
        /\ t.executions = [s.executions EXCEPT ![event.id] = Record("confirmed", -n)]
    BY <1>3, <1>6 DEF ApplyEvent, GuardianStates
  <2>2. t.executions[event.id].status = "confirmed"
        /\ \A id \in PolicyIds : id # event.id => t.executions[id] = s.executions[id]
    BY <1>2, <1>4, <2>1 DEF Record
  <2>3. ASSUME NEW id \in PolicyIds, t.executions[id].status = "submitted"
        PROVE  id \in t.policies \/ Outlived(id)
    BY <2>1, <2>2, <2>3 DEF Resumable
  <2> QED BY <1>1, <1>3, <2>3 DEF Resumable
<1>7. CASE event.kind \notin {"opened", "executed"}
  <2>1. t.policies = s.policies \ {event.id} /\ t.executions = s.executions
    BY <1>3, <1>7 DEF ApplyEvent, GuardianStates
  <2>2. Outlived(event.id)
    BY <1>1, <1>7 DEF LogTruthful, Outlived
  <2> QED BY <1>1, <1>3, <2>1, <2>2 DEF Resumable
<1> QED BY <1>5, <1>6, <1>7

\* A batch of events leaves what is waited for in the index.
LEMMA IndexedResumable ==
    ASSUME ChainTypeOK, LogTruthful, NEW s \in GuardianStates,
           NEW toBlock \in Nat, s.cursor <= toBlock, toBlock <= finalized, SoundState(s),
           Resumable(s)
    PROVE  Resumable(Indexed(s, toBlock))
<1>1. s.cursor \in Nat /\ toBlock <= Len(log) /\ Len(log) \in Nat
  BY DEF GuardianStates, ChainTypeOK
<1>2. PICK after : /\ after[s.cursor] = s
                   /\ \A n \in s.cursor..toBlock :
                         n # s.cursor => after[n] = ApplyEvent(after[n - 1], log[n], n)
                   /\ Indexed(s, toBlock) = [after[toBlock] EXCEPT !.cursor = toBlock]
  BY <1>1, IndexedUnfolds
<1>3. PICK T : T = {n \in s.cursor..toBlock : At(after[n], n) /\ Resumable(after[n])}
  OBVIOUS
<1>4. s.cursor \in T
  BY <1>1, <1>2, <1>3 DEF At, SoundState
<1>5. ASSUME NEW n \in s.cursor..toBlock, n \in T, n < toBlock
      PROVE  n + 1 \in T
  <2>1. /\ n \in Nat /\ n + 1 <= Len(log) /\ n + 1 \in s.cursor..toBlock /\ n + 1 # s.cursor
        /\ (n + 1) - 1 = n /\ n + 1 \in 1..Len(log)
    BY <1>1, <1>5
  <2>2. after[n + 1] = ApplyEvent(after[n], log[n + 1], n + 1)
    BY <1>2, <2>1
  <2>3. At(after[n], n) /\ Resumable(after[n]) /\ after[n] \in GuardianStates
    BY <1>3, <1>5 DEF At
  <2>4. At(after[n + 1], n + 1)
    BY <2>1, <2>2, <2>3, ApplyEventKeeps
  <2>5. Resumable(after[n + 1])
    BY <2>1, <2>2, <2>3, ApplyEventResumable
  <2> QED BY <1>3, <2>1, <2>4, <2>5
<1>6. toBlock \in T
  <2>1. \A n \in s.cursor..toBlock : n \in T
    BY <1>1, <1>4, <1>5, RangeInduction
  <2> QED BY <1>1, <2>1
<1>7. after[toBlock] \in GuardianStates /\ Resumable(after[toBlock])
  BY <1>3, <1>6 DEF At
<1>8. /\ Indexed(s, toBlock).policies = after[toBlock].policies
      /\ Indexed(s, toBlock).executions = after[toBlock].executions
  BY <1>2, <1>7 DEF GuardianStates
<1> QED BY <1>7, <1>8 DEF Resumable

\* What is said of a state of the guardian outlasts a step of the chain.
LEMMA ResumableStays ==
    ASSUME NEW s, Resumable(s),
           \A id \in PolicyIds : status[id] \in Closed => status'[id] = status[id]
    PROVE  Resumable(s)'
  BY DEF Resumable, Outlived, Closed

\* No step of the process, nor one of the chain, leaves a submitted transaction behind.
LEMMA ResumeNext == GuardianInv /\ ResumeInv /\ [Next]_vars => ResumeInv'
<1> SUFFICES ASSUME GuardianInv, ResumeInv, [Next]_vars PROVE ResumeInv'
  OBVIOUS
<1>1. /\ ChainTypeOK /\ LocalTypeOK /\ LogTruthful /\ TxsTruthful
      /\ SoundState(mem) /\ SoundState(disk) /\ CycleOrderly
  BY InvParts
<1>2. /\ Resumable(mem) /\ Resumable(disk) /\ ServesIndexed
      /\ mem \in GuardianStates /\ disk \in GuardianStates
      /\ mem.executions \in [PolicyIds -> Records]
  BY <1>1 DEF ResumeInv, LocalTypeOK, GuardianStates
<1>3. Resumable(EmptyState)
  BY DEF Resumable, EmptyState, NoRecord, Record
<1>4. CASE ChainStep
  <2>1. /\ UNCHANGED <<mem, disk, pc, queue, current>>
        /\ \A id \in PolicyIds : status[id] \in Closed => status'[id] = status[id]
    BY <1>1, <1>4, ChainKeeps DEF ChainStep, ChainAlone, localVars, ChainSafe, LogGrows
  <2>2. Resumable(mem)' /\ Resumable(disk)'
    BY <1>2, <2>1, ResumableStays DEF Resumable
  <2> QED BY <1>2, <2>1, <2>2 DEF ResumeInv, ServesIndexed
<1>5. ASSUME status' = status, Resumable(mem'), disk' \in {disk, mem}, ServesIndexed'
      PROVE  ResumeInv'
  BY <1>2, <1>5 DEF ResumeInv, Resumable, Outlived
<1>6. ASSUME mem' \in {mem, disk, EmptyState}, pc' \in {"down", "head", "logs", "saveIndex"},
             status' = status, disk' \in {disk, mem}
      PROVE  ResumeInv'
  BY <1>2, <1>3, <1>5, <1>6 DEF ServesIndexed, Serving, Evaluating
<1>7. ASSUME mem' = mem, UNCHANGED <<queue, current>>, status' = status, disk' \in {disk, mem},
             \/ pc \in Serving /\ pc' \in {"next", "saveDeletion"}
             \/ pc \in Evaluating /\ pc' \in {"value", "simulate", "submit"}
             \/ pc = "saveHash" /\ pc' = "receipt"
             \/ pc' = pc
      PROVE  ResumeInv'
  BY <1>2, <1>5, <1>7 DEF ServesIndexed, Serving, Evaluating
<1>8. CASE Start \/ ReadHead \/ SaveIndex \/ SyncFails \/ SaveIndexFails \/ SaveDeletionFails
           \/ CycleDone \/ Crash
  BY <1>6, <1>8 DEF Start, ReadHead, SaveIndex, SyncFails, SaveIndexFails, SaveDeletionFails,
                    CycleDone, Crash, Idle, Save, chainVars
<1>9. CASE ReadLogs
  <2>1. PICK toBlock : toBlock = IF mem.cursor + BatchSize < target
                                 THEN mem.cursor + BatchSize ELSE target
    OBVIOUS
  <2>2. /\ pc' = "saveIndex" /\ mem.cursor < target /\ mem' = Indexed(mem, toBlock)
        /\ disk' = disk /\ status' = status
    BY <1>9, <2>1 DEF ReadLogs, Idle, chainVars
  <2>3. toBlock \in Nat /\ mem.cursor <= toBlock /\ toBlock <= finalized
    BY <1>1, <2>1, <2>2, GuardianAssumption DEF LocalTypeOK, GuardianStates, ChainTypeOK
  <2>4. Resumable(mem')
    BY <1>1, <1>2, <2>2, <2>3, IndexedResumable
  <2> QED BY <1>5, <2>2, <2>4 DEF ServesIndexed, Serving, Evaluating
<1>10. CASE SyncDone
  <2>1. mem' = mem /\ queue' = mem.policies /\ pc' = "next" /\ disk' = disk /\ status' = status
    BY <1>10 DEF SyncDone, Idle, chainVars
  <2> QED BY <1>2, <1>5, <2>1 DEF ServesIndexed, Serving, Evaluating
<1>11. CASE Visit
  <2>1. PICK id \in queue : /\ pc = "next" /\ current' = id /\ queue' = queue \ {id}
                            /\ pc' \in {"receipt", "policy"}
                            /\ mem' = mem /\ disk' = disk /\ status' = status
    BY <1>11 DEF Visit, Idle, chainVars
  <2> QED BY <1>2, <1>5, <2>1 DEF ServesIndexed, Serving, Evaluating
<1>12. CASE GiveUp \/ SubmitFails \/ SaveHashFails \/ SaveOutcomeFails \/ SaveDeletion
            \/ SaveOutcome \/ SaveHash \/ ReadValue \/ Simulate \/ SubmitAnswerLost
  <2>1. /\ mem' = mem /\ UNCHANGED <<queue, current>> /\ status' = status /\ disk' \in {disk, mem}
        /\ \/ pc \in Serving /\ pc' \in {"next", "saveDeletion"}
           \/ pc \in Evaluating /\ pc' \in {"value", "simulate", "submit"}
           \/ pc = "saveHash" /\ pc' = "receipt"
    BY <1>12 DEF GiveUp, SubmitFails, SaveHashFails, SaveOutcomeFails, SaveDeletion, SaveOutcome,
                 SaveHash, ReadValue, Simulate, SubmitAnswerLost, Broadcast, Idle, Save, localVars,
                 chainVars, Serving, Evaluating
  <2> QED BY <1>7, <2>1
<1>13. CASE ReadPolicy
  <2>1. CASE status[current] = "Active"
    <3>1. /\ mem' = mem /\ UNCHANGED <<queue, current>> /\ status' = status /\ disk' = disk
          /\ pc = "policy" /\ pc' \in {"next", "value"}
      BY <1>13, <2>1 DEF ReadPolicy, Idle, localVars, chainVars
    <3> QED BY <1>7, <3>1 DEF Serving, Evaluating
  <2>2. CASE status[current] # "Active"
    <3>1. /\ mem' = [mem EXCEPT !.policies = mem.policies \ {current}]
          /\ UNCHANGED <<queue, current>> /\ status' = status /\ disk' = disk
          /\ pc = "policy" /\ pc' = "saveDeletion"
      BY <1>13, <2>2 DEF ReadPolicy, Idle, localVars, chainVars
    <3>2. mem'.policies = mem.policies \ {current} /\ mem'.executions = mem.executions
      BY <1>2, <3>1 DEF GuardianStates
    <3>3. mem.executions[current].status # "submitted" /\ current \notin queue
      BY <1>1, <3>1 DEF CycleOrderly, Serving, Evaluating
    <3>4. Resumable(mem')
      BY <1>2, <3>2, <3>3 DEF Resumable
    <3>5. ServesIndexed'
      BY <1>2, <3>1, <3>2, <3>3 DEF ServesIndexed, Serving, Evaluating
    <3> QED BY <1>5, <3>1, <3>4, <3>5
  <2> QED BY <2>1, <2>2
<1>14. CASE Submit
  <2>1. PICK record : record = Record("submitted", Len(txs) + 1)
    OBVIOUS
  <2>2. /\ mem' = [mem EXCEPT !.executions[current] = record]
        /\ UNCHANGED <<queue, current>> /\ status' = status /\ disk' = disk
        /\ pc = "submit" /\ pc' = "saveHash"
    BY <1>14, <2>1 DEF Submit, Broadcast, localVars
  <2>3. /\ mem'.policies = mem.policies
        /\ \A id \in PolicyIds : id # current => mem'.executions[id] = mem.executions[id]
    BY <1>2, <2>2 DEF GuardianStates
  <2>4. current \in mem.policies /\ queue \subseteq mem.policies
    BY <1>2, <2>2 DEF ServesIndexed, Serving, Evaluating
  <2>5. Resumable(mem')
    BY <1>2, <2>3, <2>4 DEF Resumable
  <2>6. ServesIndexed'
    BY <2>2, <2>3, <2>4 DEF ServesIndexed, Serving, Evaluating
  <2> QED BY <1>5, <2>2, <2>5, <2>6
<1>15. CASE ReadReceipt
  <2>1. /\ UNCHANGED <<queue, current>> /\ status' = status /\ disk' = disk
        /\ pc = "receipt" /\ pc' = "saveOutcome" /\ current \in PolicyIds
    BY <1>1, <1>15, ChainAssumption
       DEF ReadReceipt, Idle, localVars, chainVars, LocalTypeOK, Serving, Evaluating
  <2>2. \E r \in {"confirmed", "reverted"}, gone \in {{}, {current}} :
           mem' = [mem EXCEPT !.executions[current] = Record(r, mem.executions[current].tx), !.policies = @ \ gone]
    <3>1. CASE mem' = [mem EXCEPT !.executions[current] = Record("confirmed", mem.executions[current].tx),
                                  !.policies = @ \ {current}]
      BY <3>1
    <3>2. CASE mem' = [mem EXCEPT !.executions[current] = Record("reverted", mem.executions[current].tx)]
      <4>1. mem' = [mem EXCEPT !.executions[current] = Record("reverted", mem.executions[current].tx),
                               !.policies = @ \ {}]
        BY <1>2, <3>2 DEF GuardianStates
      <4> QED BY <4>1
    <3> QED BY <1>15, <3>1, <3>2 DEF ReadReceipt
  <2>3. PICK r \in {"confirmed", "reverted"}, gone \in {{}, {current}} :
           mem' = [mem EXCEPT !.executions[current] = Record(r, mem.executions[current].tx), !.policies = @ \ gone]
    BY <2>2
  <2>4. PICK record : record = Record(r, mem.executions[current].tx)
    OBVIOUS
  <2>5. record.status # "submitted"
    BY <2>3, <2>4 DEF Record
  <2>6. /\ mem'.policies = mem.policies \ gone
        /\ mem'.executions = [mem.executions EXCEPT ![current] = record]
    BY <1>2, <2>3, <2>4 DEF GuardianStates
  <2>7. /\ mem'.executions[current] = record
        /\ \A id \in PolicyIds : id # current => mem'.executions[id] = mem.executions[id]
    BY <1>2, <2>1, <2>6
  <2>8. Resumable(mem')
    BY <1>2, <2>3, <2>5, <2>6, <2>7 DEF Resumable
  <2>9. ServesIndexed'
    <3>1. current \notin queue /\ queue \subseteq mem.policies
      BY <1>1, <1>2, <2>1 DEF CycleOrderly, ServesIndexed, Serving, Evaluating
    <3> QED BY <2>1, <2>3, <2>6, <3>1 DEF ServesIndexed, Serving, Evaluating
  <2> QED BY <1>5, <2>1, <2>8, <2>9
<1>16. CASE UNCHANGED vars
  <2>1. UNCHANGED <<mem, disk, pc, queue, current, status>>
    BY <1>16 DEF vars, chainVars, localVars
  <2> QED BY <1>7, <2>1
<1> QED BY <1>4, <1>8, <1>9, <1>10, <1>11, <1>12, <1>13, <1>14, <1>15, <1>16
        DEF Next, Monitor, Evaluate, Execute, Fail

\* A submitted transaction has its policy in the index, so a cycle resumes from it,
\* whatever was deleted, retried or lost in a crash: runner.ts:58-67.
THEOREM SubmittedIsResumed == Spec => []SubmittedIsIndexed
<1>1. Init => ResumeInv
  BY DEF Init, ResumeInv, Resumable, ServesIndexed, EmptyState, NoRecord, Record, Serving, Evaluating
<1>2. GuardianInv /\ ResumeInv /\ [Next]_vars => ResumeInv'
  BY ResumeNext
<1>3. ResumeInv => SubmittedIsIndexed
  BY DEF ResumeInv, Resumable, Outlived, SubmittedIsIndexed, States
<1> QED BY <1>1, <1>2, <1>3, GuardianInvariance, PTL DEF Spec

\* A transaction on record is neither followed by another one nor left behind: the
\* resumption in runOnce with the deletions of monitor.ts and runner.ts.
THEOREM RecordsAlwaysHeeded == Spec => []RecordsAreHeeded
BY NothingBehindARecord, SubmittedIsResumed, PTL DEF RecordsAreHeeded
=============================================================================
