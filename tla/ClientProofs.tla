---------------------------- MODULE ClientProofs ----------------------------
(***************************************************************************)
(* Theorems of the two clients of the contract that are modelled without   *)
(* it: the guardian's process (GuardianProcess) and the page that reads a  *)
(* policy (PolicyView).                                                    *)
(*                                                                         *)
(* The process, for every set of policies, every number of attempts, any   *)
(* backlog of blocks and any number of signals: what a cycle may do next   *)
(* depends on what the save under way is for.  A save of the index goes    *)
(* back to reading logs, any other one goes on with the visits and is      *)
(* begun only when nothing is left to read.                                *)
(*                                                                         *)
(* The page, for every height of the chain, all values of a position and   *)
(* any number of loads in flight: what the policy was at one block says    *)
(* what it may be at a later one (ChainOrderly): once open it stays open,  *)
(* once settled it stays as it is.  A load is answered by blocks since it  *)
(* was sent, so its answer is sound, and remains so while the chain grows  *)
(* (LoadsOrderly).                                                         *)
(***************************************************************************)
EXTENDS GuardianProcess, PolicyView, SequenceTheorems, TLAPS

Awaits == {"down", "load", "listen", "close", "head", "logs", "next", "write", "rename", "wait"}

\* Only the save of an index may be under way while blocks are left to read.
SavesInOrder == pc \in {"write", "rename"} => saving = "index" \/ toRead = 0

\* A file is renamed only when it was written, and the process works only with
\* a file that it could read.
FilesSound == /\ pc = "rename" => temp = "whole"
              /\ pc \notin {"down", "load"} => file # "corrupt"

\* The inductive invariant.
ProcessInv == /\ pc \in Awaits
              /\ ProcessTypeOK
              /\ VisitsAreUpToDate
              /\ SavesInOrder
              /\ FilesSound

\* The age is counted up to a natural number.
LEMMA StaleIsNat == StaleAfter \in Nat /\ Stale \in Nat /\ PollInterval = 1
<1>1. MinStale \in Nat
  BY ProcessAssumption
<1>2. \E x \in {MinStale, 5} : \A y \in {MinStale, 5} : x >= y
  <2>1. CASE MinStale >= 5
    BY <1>1, <2>1
  <2>2. CASE 5 >= MinStale
    BY <1>1, <2>2
  <2> QED BY <1>1, <2>1, <2>2
<1>3. Max({MinStale, 5}) \in {MinStale, 5}
  BY <1>2 DEF Max
<1>4. 5 * PollInterval = 5 /\ PollInterval = 1
  BY DEF PollInterval
<1>5. StaleAfter \in Nat
  BY <1>1, <1>3, <1>4 DEF StaleAfter
<1> QED BY <1>4, <1>5 DEF Stale

\* The process is down at first.
LEMMA InitProcessInv == ProcessInit => ProcessInv
<1> SUFFICES ASSUME ProcessInit PROVE ProcessInv
  OBVIOUS
<1>1. ProcessTypeOK
  <2>1. aborted \in BOOLEAN /\ ready \in BOOLEAN
    BY Zenon DEF ProcessInit
  <2>2. /\ age \in 0..Stale /\ timer \in 0..PollInterval
        /\ lag \in 0..MaxLag /\ toRead \in 0..lag /\ attempt \in 1..Attempts
    BY StaleIsNat, ProcessAssumption DEF ProcessInit
  <2>3. /\ queue \subseteq PolicyIds /\ tracked \subseteq PolicyIds
        /\ file \in {"missing", "whole", "corrupt"} /\ temp \in {"none", "partial", "whole"}
    BY DEF ProcessInit
  <2> QED BY <2>1, <2>2, <2>3 DEF ProcessTypeOK
<1>2. pc \in Awaits /\ VisitsAreUpToDate /\ SavesInOrder /\ FilesSound
  BY DEF ProcessInit, VisitsAreUpToDate, SavesInOrder, FilesSound, Awaits
<1> QED BY <1>1, <1>2 DEF ProcessInv

\* A process that ends leaves nothing but its files.
LEMMA EndsKeeps ==
  ASSUME ProcessInv, NEW left \in {"none", "partial", "whole"}, Ends(left)
  PROVE  ProcessInv'
<1>1. ProcessTypeOK'
  <2>1. aborted' \in BOOLEAN /\ ready' \in BOOLEAN
    BY Zenon DEF Ends
  <2>2. /\ age' \in 0..Stale /\ timer' \in 0..PollInterval
        /\ lag' \in 0..MaxLag /\ toRead' \in 0..lag' /\ attempt' \in 1..Attempts
    BY StaleIsNat, ProcessAssumption DEF Ends
  <2>3. /\ queue' \subseteq PolicyIds /\ tracked' \subseteq PolicyIds
        /\ file' \in {"missing", "whole", "corrupt"} /\ temp' \in {"none", "partial", "whole"}
    BY DEF Ends, ProcessInv, ProcessTypeOK
  <2> QED BY <2>1, <2>2, <2>3 DEF ProcessTypeOK
<1>2. /\ pc' \in Awaits /\ VisitsAreUpToDate' /\ SavesInOrder' /\ FilesSound'
  BY DEF Ends, VisitsAreUpToDate, SavesInOrder, FilesSound, Awaits
<1> QED BY <1>1, <1>2 DEF ProcessInv

\* A failed call of sync is tried again or ends the cycle.
LEMMA SyncThrowsKeeps ==
  ASSUME ProcessInv, SyncThrows, pc \notin {"down", "load"},
         UNCHANGED <<aborted, tracked, queue, lag, toRead, file>>,
         temp' \in {"none", "partial", "whole"}
  PROVE  ProcessInv'
<1>1. pc' \in {"head", "wait"} /\ timer' \in 0..PollInterval /\ ready' = ready /\ age' = age
      /\ attempt' \in 1..Attempts
  BY StaleIsNat, ProcessAssumption DEF SyncThrows, CycleFails, Waits, ProcessInv, ProcessTypeOK
<1> QED BY <1>1 DEF ProcessInv, ProcessTypeOK, VisitsAreUpToDate, SavesInOrder, FilesSound, Awaits

\* Every step keeps the invariant.
LEMMA NextProcessInv == ProcessInv /\ [ProcessNext]_processVars => ProcessInv'
<1> SUFFICES ASSUME ProcessInv, [ProcessNext]_processVars PROVE ProcessInv'
  OBVIOUS
<1> USE StaleIsNat, ProcessAssumption
<1>0. temp \in {"none", "partial", "whole"}
  BY DEF ProcessInv, ProcessTypeOK
<1>1. CASE UNCHANGED processVars
  BY <1>1 DEF processVars, cycleVars, fileVars, ProcessInv, ProcessTypeOK, VisitsAreUpToDate,
              SavesInOrder, FilesSound
<1>2. CASE Start
  BY <1>2 DEF Start, cycleVars, fileVars, ProcessInv, ProcessTypeOK, VisitsAreUpToDate,
              SavesInOrder, FilesSound, Awaits
<1>3. CASE LoadState
  <2>1. CASE Ends(temp)
    BY <1>0, <2>1, EndsKeeps
  <2>2. CASE ~ Ends(temp)
    <3>1. ProcessTypeOK'
      <4>1. /\ lag' = MaxLag /\ tracked' \subseteq PolicyIds
            /\ UNCHANGED <<aborted, ready, age, timer, queue, toRead, attempt, file, temp>>
        BY <1>3, <2>2 DEF LoadState, fileVars
      <4> QED BY <4>1 DEF ProcessInv, ProcessTypeOK
    <3>2. pc' \in Awaits /\ VisitsAreUpToDate' /\ SavesInOrder' /\ FilesSound'
      BY <1>3, <2>2 DEF LoadState, fileVars, ProcessInv, VisitsAreUpToDate, SavesInOrder, FilesSound,
                        Awaits
    <3> QED BY <3>1, <3>2 DEF ProcessInv
  <2> QED BY <2>1, <2>2
<1>4. CASE Listen
  <2>1. CASE Ends(temp)
    BY <1>0, <2>1, EndsKeeps
  <2>2. CASE ~ Ends(temp)
    <3>1. ProcessTypeOK'
      <4>1. /\ attempt' \in 1..Attempts
            /\ UNCHANGED <<aborted, ready, age, timer, tracked, queue, lag, toRead, file, temp>>
        BY <1>4, <2>2 DEF Listen, fileVars
      <4> QED BY <4>1 DEF ProcessInv, ProcessTypeOK
    <3>2. pc' \in Awaits /\ VisitsAreUpToDate' /\ SavesInOrder' /\ FilesSound'
      BY <1>4, <2>2 DEF Listen, Again, fileVars, ProcessInv, VisitsAreUpToDate, SavesInOrder, FilesSound,
                        Awaits
    <3> QED BY <3>1, <3>2 DEF ProcessInv
  <2> QED BY <2>1, <2>2
<1>5. CASE Close
  BY <1>0, <1>5, EndsKeeps DEF Close
<1>6. CASE ReadHead
  BY <1>6 DEF ReadHead, fileVars, ProcessInv, ProcessTypeOK, VisitsAreUpToDate, SavesInOrder,
              FilesSound, Awaits
<1>7. CASE ReadLogs
  BY <1>7 DEF ReadLogs, ProcessInv, ProcessTypeOK, VisitsAreUpToDate, SavesInOrder,
              FilesSound, Awaits
<1>8. CASE SyncDone
  BY <1>8 DEF SyncDone, fileVars, ProcessInv, ProcessTypeOK, VisitsAreUpToDate, SavesInOrder,
              FilesSound, Awaits
<1>9. CASE CycleDone
  BY <1>9 DEF CycleDone, Waits, Again, fileVars, ProcessInv, ProcessTypeOK, VisitsAreUpToDate,
              SavesInOrder, FilesSound, Awaits
<1>10. CASE WaitOver
  BY <1>10 DEF WaitOver, Again, fileVars, ProcessInv, ProcessTypeOK, VisitsAreUpToDate,
               SavesInOrder, FilesSound, Awaits
<1>11. ASSUME NEW id \in PolicyIds, Visit(id) PROVE ProcessInv'
  BY <1>11 DEF Visit, ProcessInv, ProcessTypeOK, VisitsAreUpToDate, SavesInOrder, FilesSound,
               Awaits
<1>12. CASE Write
  BY <1>12 DEF Write, cycleVars, ProcessInv, ProcessTypeOK, VisitsAreUpToDate, SavesInOrder,
               FilesSound, Awaits
<1>13. CASE Rename
  BY <1>13 DEF Rename, cycleVars, ProcessInv, ProcessTypeOK, VisitsAreUpToDate, SavesInOrder,
               FilesSound, Awaits
<1>14. CASE SyncFails
  <2>1. temp' \in {"none", "partial", "whole"} /\ pc \notin {"down", "load"}
    BY <1>0, <1>14 DEF SyncFails, fileVars
  <2> QED BY <1>14, <2>1, SyncThrowsKeeps DEF SyncFails, fileVars
<1>15. CASE SaveFails
  <2>1. /\ pc \in {"write", "rename"} /\ temp' = "none" /\ saving' = "none"
        /\ UNCHANGED <<aborted, tracked, queue, lag, toRead, file>>
    BY <1>15 DEF SaveFails
  <2>2. CASE saving = "index"
    <3>1. SyncThrows
      BY <1>15, <2>2 DEF SaveFails
    <3> QED BY <2>1, <3>1, SyncThrowsKeeps
  <2>3. CASE saving # "index"
    <3>1. toRead = 0
      BY <2>1, <2>3 DEF ProcessInv, SavesInOrder
    <3>2. /\ pc' \in {"wait", "next"} /\ timer' \in 0..PollInterval
          /\ UNCHANGED <<ready, age, attempt>>
      <4>1. CASE saving = "deletion"
        BY <1>15, <4>1 DEF SaveFails, CycleFails, Waits
      <4>2. CASE saving # "deletion"
        BY <1>15, <2>3, <4>2 DEF SaveFails, ProcessInv, ProcessTypeOK
      <4> QED BY <4>1, <4>2
    <3> QED BY <2>1, <3>1, <3>2 DEF ProcessInv, ProcessTypeOK, VisitsAreUpToDate, SavesInOrder,
                                    FilesSound, Awaits
  <2> QED BY <2>2, <2>3
<1>16. CASE Signal
  <2>1. CASE aborted
    <3>1. PICK left \in IF pc = "write" THEN {temp, "partial"} ELSE {temp} : Ends(left)
      BY <1>16, <2>1 DEF Signal
    <3>2. left \in {"none", "partial", "whole"}
      BY <1>0, <3>1
    <3> QED BY <3>1, <3>2, EndsKeeps
  <2>2. CASE ~ aborted
    <3>1. /\ aborted' = TRUE /\ timer' \in {0, timer}
          /\ UNCHANGED <<pc, ready, age, tracked, queue, lag, toRead, attempt, saving, file, temp>>
      BY <1>16, <2>2 DEF Signal, cycleVars, fileVars
    <3>2. ProcessTypeOK'
      BY <3>1 DEF ProcessInv, ProcessTypeOK
    <3> QED BY <3>1, <3>2 DEF ProcessInv, VisitsAreUpToDate, SavesInOrder, FilesSound
  <2> QED BY <2>1, <2>2
<1>17. CASE Replace
  BY <1>17 DEF Replace, cycleVars, ProcessInv, ProcessTypeOK, VisitsAreUpToDate, SavesInOrder,
               FilesSound, Awaits
<1>18. CASE Tick
  BY <1>18 DEF Tick, cycleVars, fileVars, ProcessInv, ProcessTypeOK, VisitsAreUpToDate,
               SavesInOrder, FilesSound, Awaits
<1>19. CASE BlockFinal
  BY <1>19 DEF BlockFinal, fileVars, ProcessInv, ProcessTypeOK, VisitsAreUpToDate, SavesInOrder,
               FilesSound, Awaits
<1> QED BY <1>1, <1>2, <1>3, <1>4, <1>5, <1>6, <1>7, <1>8, <1>9, <1>10, <1>11, <1>12, <1>13,
           <1>14, <1>15, <1>16, <1>17, <1>18, <1>19 DEF ProcessNext, Works, Fails

\* The inductive invariant holds in every reachable state.
THEOREM ProcessInvariance == ProcessSpec => []ProcessInv
  BY InitProcessInv, NextProcessInv, PTL DEF ProcessSpec

\* The counters stay within their bounds, and sync is attempted no more often than
\* retryAttempts says, whichever of its calls or saves fail.
THEOREM ProcessTypeCorrect == ProcessSpec => []ProcessTypeOK
<1>1. ProcessInv => ProcessTypeOK
  BY DEF ProcessInv
<1> QED BY ProcessInvariance, <1>1, PTL

\* No policy is visited while blocks that were final when the cycle began are not in
\* the index.
THEOREM VisitsFollowSync == ProcessSpec => []VisitsAreUpToDate
<1>1. ProcessInv => VisitsAreUpToDate
  BY DEF ProcessInv
<1> QED BY ProcessInvariance, <1>1, PTL

\* The state file becomes damaged by no step of the process or of its end, and a
\* damaged one is only ever replaced by the operator.
THEOREM FileIsPreserved == ProcessSpec => FileStaysAsItWas
<1>1. ASSUME ProcessInv, [ProcessNext]_processVars
      PROVE  [(file = "corrupt") = (file' = "corrupt") \/ Replace]_processVars
  <2>1. CASE UNCHANGED file
    BY <2>1
  <2>2. CASE Rename
    BY <1>1, <2>2 DEF Rename, ProcessInv, FilesSound
  <2>3. CASE Replace
    BY <2>3
  <2>4. CASE ~ Rename /\ ~ Replace
    <3>1. UNCHANGED file
      BY <1>1, <2>4
         DEF ProcessNext, Start, Works, LoadState, Listen, Close, ReadHead, ReadLogs, SyncDone,
             CycleDone, WaitOver, Visit, Write, Fails, SyncFails, SaveFails, Signal, Tick,
             BlockFinal, Ends, processVars, fileVars
    <3> QED BY <2>1, <3>1
  <2> QED BY <2>1, <2>2, <2>3, <2>4
<1>2. ProcessInv /\ [ProcessNext]_processVars
      => [(file = "corrupt") = (file' = "corrupt") \/ Replace]_processVars
  BY <1>1
<1> QED BY ProcessInvariance, <1>2, PTL DEF ProcessSpec, FileStaysAsItWas

-----------------------------------------------------------------------------
(* The page.                                                                *)

Statuses == {"None", "Active", "Executed", "Cancelled", "Expired"}

Snapshots == [next : Nat \ {0}, status : Statuses, assets : Nat]

Views == [status : Statuses, current : Nat, returned : Nat, block : Nat]

AllAnswers == [kind : {"loading", "ready", "empty", "degraded"}, view : Views,
               failed : BOOLEAN]

LoadRecord == [stage : {"sent", "answered"}, quiet : BOOLEAN, sentAt : Nat,
               answer : AllAnswers, existed : BOOLEAN, alone : BOOLEAN]

Final(s) == s.status \notin {"None", "Active"}

\* What the policy may be at a later block than the one where it is a.
Follows(a, b) == /\ a.status # "None" => b.status # "None"
                 /\ Final(a) => b.status = a.status /\ b.assets = a.assets

\* The counter tells whether the policy is open.
SnapshotSound(s, id) == /\ id # 0 => (s.status = "None" <=> s.next <= id)
                        /\ id = 0 => s.status = "None"

ViewTypeOK == /\ routeId \in Nat /\ refreshing \in BOOLEAN /\ page \in AllAnswers
              /\ loads \in [1..Slots -> LoadRecord \cup {Free}]

ChainOrderly ==
    /\ chain \in Seq(Snapshots) /\ Height # 0
    /\ \A h \in 1..Height : SnapshotSound(chain[h], routeId)
    /\ \A g, h \in 1..Height : g <= h => Follows(chain[g], chain[h])

\* A view of a policy that holds in the present state of the chain.
ViewSound(view) ==
    /\ view.block \in 1..Height /\ view.status # "None" /\ Latest.status # "None"
    /\ view.status # "Active" => /\ view.status = Latest.status
                                 /\ view.returned = Latest.assets
                                 /\ view.current = view.returned
    /\ view.status = "Active" => /\ view.returned = 0
                                 /\ \E h \in view.block..Height :
                                       /\ chain[h].status # "None"
                                       /\ view.current = ValueAt(h)

\* new may replace old on a page that is not to go back.
Advances(old, new) ==
    /\ new.block >= old.block
    /\ old.status # "Active" => new = [old EXCEPT !.block = new.block]

\* A load that was sent knows whether the policy was open, and a page with no other
\* load shows nothing newer than the block it was sent at.
SentSound(n) ==
    LET s == loads[n] IN
    /\ s.sentAt \in 1..Height
    /\ s.existed <=> chain[s.sentAt].status # "None"
    /\ s.alone /\ page.kind = "ready" =>
          /\ page.view.block <= s.sentAt /\ s.existed
          /\ page.view.status # "Active" => Final(chain[s.sentAt])

\* An answer that load n may have got.
MayAnswer(n, answer) ==
    /\ answer.kind # "loading"
    /\ answer.kind = "ready" => ViewSound(answer.view)
    /\ answer.kind = "empty" => ~ loads[n].existed
    /\ answer.kind = "degraded" => \/ answer.failed \/ routeId < 1
                                   \/ ~ loads[n].existed /\ Latest.status # "None"
    /\ loads[n].alone /\ page.kind = "ready" =>
          /\ answer.kind # "empty"
          /\ answer.kind = "ready" => Advances(page.view, answer.view)

AnswerSound(n) == MayAnswer(n, loads[n].answer)

LoadsOrderly ==
    /\ \A n \in 1..Slots : /\ loads[n].stage = "sent" => SentSound(n)
                           /\ loads[n].stage = "answered" => AnswerSound(n)
    /\ \A m, n \in 1..Slots : InFlight(m) /\ InFlight(n) /\ loads[n].alone => m = n

PageSound == page.kind = "ready" => ViewSound(page.view)

\* The inductive invariant.
ViewInv == ViewTypeOK /\ ChainOrderly /\ LoadsOrderly /\ PageSound /\ WaitingIsReal

-----------------------------------------------------------------------------
(* The parts of the state.                                                  *)

\* A load in flight is a record, and one of two.
LEMMA LoadFields ==
  ASSUME ViewTypeOK, NEW n \in 1..Slots, InFlight(n)
  PROVE  loads[n] \in LoadRecord /\ loads[n].stage \in {"sent", "answered"}
<1>1. loads[n] \in LoadRecord \cup {Free}
  BY DEF ViewTypeOK
<1>2. loads[n] # Free
  BY DEF InFlight, Free
<1> QED BY <1>1, <1>2 DEF LoadRecord

\* The chain has a last block, which says what came of every earlier one.
LEMMA ChainFacts ==
  ASSUME ChainOrderly
  PROVE  /\ Height \in Nat \ {0} /\ Height \in 1..Height /\ Latest \in Snapshots
         /\ SnapshotSound(Latest, routeId)
         /\ \A h \in 1..Height : /\ h \in Nat \ {0} /\ h <= Height
                                 /\ chain[h] \in Snapshots /\ SnapshotSound(chain[h], routeId)
                                 /\ Follows(chain[h], Latest)
<1>1. chain \in Seq(Snapshots) /\ Height # 0
  BY DEF ChainOrderly
<1>2. Height \in Nat \ {0}
  BY <1>1 DEF Height
<1>3. Height \in 1..Height /\ \A h \in 1..Height : h \in Nat \ {0} /\ h <= Height
  BY <1>2
<1>4. \A h \in 1..Height : chain[h] \in Snapshots
  BY <1>1 DEF Height
<1> QED BY <1>2, <1>3, <1>4 DEF ChainOrderly, Latest

-----------------------------------------------------------------------------
(* The chain grows.                                                         *)

\* A block that follows from the last one takes no soundness away.
LEMMA MinedKeeps ==
  ASSUME ViewInv, NEW s \in Snapshots, Follows(Latest, s), SnapshotSound(s, routeId), Mined(s)
  PROVE  ViewInv'
<1>1. ViewTypeOK /\ ChainOrderly /\ LoadsOrderly /\ PageSound /\ WaitingIsReal
  BY DEF ViewInv
<1>2. PICK k \in Nat \ {0} : k = Height
  BY <1>1, ChainFacts
<1>3. chain' = Append(chain, s) /\ UNCHANGED <<routeId, page, refreshing, loads>>
  BY DEF Mined
<1>4. /\ chain \in Seq(Snapshots) /\ Len(chain) = k
      /\ \A h \in 1..k : chain[h] \in Snapshots /\ SnapshotSound(chain[h], routeId)
      /\ \A h \in 1..k : Follows(chain[h], Latest)
      /\ \A g, h \in 1..k : g <= h => Follows(chain[g], chain[h])
  BY <1>1, <1>2, ChainFacts DEF ChainOrderly, Height
<1>5. /\ chain' \in Seq(Snapshots) /\ Height' = k + 1 /\ Latest' = s
      /\ \A h \in 1..k : chain'[h] = chain[h]
      /\ chain'[k + 1] = s
  BY <1>3, <1>4 DEF Height, Latest
<1>6. Final(Latest) => Final(s) /\ s.status = Latest.status /\ s.assets = Latest.assets
  BY DEF Follows, Final
<1>7. Latest.status # "None" => s.status # "None"
  BY DEF Follows
<1>8. ChainOrderly'
  <2>1. \A h \in 1..(k + 1) : h \in 1..k \/ h = k + 1
    OBVIOUS
  <2>2. ASSUME NEW h \in 1..(k + 1) PROVE SnapshotSound(chain'[h], routeId')
    <3>1. routeId' = routeId
      BY <1>3
    <3> QED BY <1>4, <1>5, <2>1, <3>1
  <2>3. \A h \in 1..k : Follows(chain[h], s)
    BY <1>4, <1>6, <1>7 DEF Follows, Final
  <2>4. Follows(s, s)
    BY DEF Follows
  <2>5. ASSUME NEW g \in 1..(k + 1), NEW h \in 1..(k + 1), g <= h
        PROVE  Follows(chain'[g], chain'[h])
    <3>1. CASE h \in 1..k
      <4>1. g \in 1..k
        BY <1>2, <2>1, <2>5, <3>1
      <4> QED BY <1>4, <1>5, <2>5, <3>1, <4>1
    <3>2. CASE h = k + 1
      BY <1>5, <2>1, <2>3, <2>4, <3>2
    <3> QED BY <2>1, <3>1, <3>2
  <2>6. Height' # 0
    BY <1>5
  <2>7. \A h \in 1..Height' : SnapshotSound(chain'[h], routeId')
    BY <1>5, <2>2
  <2> QED BY <1>5, <2>5, <2>6, <2>7 DEF ChainOrderly
<1>9. \A h \in 1..k : ValueAt(h)' = ValueAt(h)
  BY <1>5 DEF ValueAt
<1>10. ASSUME NEW v, ViewSound(v) PROVE ViewSound(v)'
  <2>1. v.block \in 1..Height /\ v.status # "None" /\ Latest.status # "None"
    BY <1>10 DEF ViewSound
  <2>2. v.block \in 1..Height'
    BY <1>2, <1>5, <2>1
  <2>3. CASE v.status = "Active"
    <3>1. PICK h \in v.block..k : chain[h].status # "None" /\ v.current = ValueAt(h)
      BY <1>2, <1>10, <2>3 DEF ViewSound
    <3>2. h \in 1..k /\ h \in v.block..(k + 1)
      BY <1>2, <2>1, <3>1
    <3>3. chain'[h].status # "None" /\ v.current = ValueAt(h)'
      BY <1>5, <1>9, <3>1, <3>2
    <3>4. \E g \in v.block..Height' : chain'[g].status # "None" /\ v.current = ValueAt(g)'
      BY <1>5, <3>2, <3>3
    <3> QED BY <1>5, <1>7, <1>10, <2>1, <2>2, <2>3, <3>4 DEF ViewSound
  <2>4. CASE v.status # "Active"
    <3>1. Final(Latest)
      BY <1>10, <2>1, <2>4 DEF ViewSound, Final
    <3> QED BY <1>5, <1>6, <1>7, <1>10, <2>1, <2>2, <2>4, <3>1 DEF ViewSound
  <2> QED BY <2>3, <2>4
<1>11. PageSound'
  BY <1>1, <1>3, <1>10 DEF PageSound
<1>12. ASSUME NEW n \in 1..Slots, SentSound(n) PROVE SentSound(n)'
  <2>1. PICK a : a = loads[n]
    OBVIOUS
  <2>2. /\ a.sentAt \in 1..k
        /\ a.existed <=> chain[a.sentAt].status # "None"
        /\ a.alone /\ page.kind = "ready" =>
              /\ page.view.block <= a.sentAt /\ a.existed
              /\ page.view.status # "Active" => Final(chain[a.sentAt])
    BY <1>2, <1>12, <2>1 DEF SentSound
  <2>3. a.sentAt \in 1..(k + 1) /\ chain'[a.sentAt] = chain[a.sentAt]
    BY <1>5, <2>2
  <2>4. loads'[n] = a /\ page' = page
    BY <1>3, <2>1
  <2> QED BY <1>5, <2>2, <2>3, <2>4 DEF SentSound
<1>13. ASSUME NEW n \in 1..Slots, AnswerSound(n) PROVE AnswerSound(n)'
  <2>1. PICK a : a = loads[n].answer
    OBVIOUS
  <2>2. MayAnswer(n, a)
    BY <1>13, <2>1 DEF AnswerSound
  <2>3. a.kind = "ready" => ViewSound(a.view)'
    BY <1>10, <2>2 DEF MayAnswer
  <2>4. MayAnswer(n, a)'
    BY <1>3, <1>5, <1>7, <2>2, <2>3 DEF MayAnswer, Advances
  <2> QED BY <1>3, <2>1, <2>4 DEF AnswerSound
<1>14. LoadsOrderly'
  BY <1>1, <1>3, <1>12, <1>13 DEF LoadsOrderly, InFlight
<1>15. ViewTypeOK' /\ WaitingIsReal'
  BY <1>1, <1>3 DEF ViewTypeOK, WaitingIsReal, InFlight
<1> QED BY <1>8, <1>11, <1>14, <1>15 DEF ViewInv

\* Whatever happens to the policy, or before it is opened.
LEMMA ChainStepKeeps ==
  ASSUME ViewInv, ChainStep
  PROVE  ViewInv'
<1>1. ChainOrderly /\ routeId \in Nat
  BY DEF ViewInv, ViewTypeOK
<1>2. PICK l \in Snapshots : l = Latest
  BY <1>1, ChainFacts
<1>3. /\ SnapshotSound(l, routeId) /\ l.next \in Nat \ {0} /\ l.assets \in Nat /\ l.status \in Statuses
      /\ l = [next |-> l.next, status |-> l.status, assets |-> l.assets]
  BY <1>1, <1>2, ChainFacts DEF Snapshots
<1>4. CASE OpenNext
  <2>1. PICK worth \in Worth :
           Mined(IF l.next = routeId
                 THEN [next |-> l.next + 1, status |-> "Active", assets |-> worth]
                 ELSE [l EXCEPT !.next = @ + 1])
    BY <1>2, <1>4 DEF OpenNext
  <2>2. worth \in Nat
    BY ViewAssumption
  <2>3. CASE l.next = routeId
    <3>1. PICK s : s = [next |-> l.next + 1, status |-> "Active", assets |-> worth]
      OBVIOUS
    <3>2. s \in Snapshots /\ s.next = l.next + 1 /\ s.status = "Active" /\ s.assets = worth
      BY <1>3, <2>2, <3>1 DEF Snapshots, Statuses
    <3>3. SnapshotSound(s, routeId)
      BY <1>1, <1>3, <2>2, <2>3, <3>2 DEF SnapshotSound
    <3>4. Follows(l, s)
      BY <1>3, <2>3, <3>2 DEF SnapshotSound, Follows, Final
    <3> QED BY <1>2, <2>1, <2>3, <3>1, <3>2, <3>3, <3>4, MinedKeeps
  <2>4. CASE l.next # routeId
    <3>1. PICK s : s = [l EXCEPT !.next = @ + 1]
      OBVIOUS
    <3>2. s \in Snapshots /\ s.next = l.next + 1 /\ s.status = l.status /\ s.assets = l.assets
      BY <1>3, <3>1 DEF Snapshots
    <3>3. SnapshotSound(s, routeId)
      BY <1>1, <1>3, <2>4, <3>2 DEF SnapshotSound
    <3>4. Follows(l, s)
      BY <3>2 DEF Follows
    <3> QED BY <1>2, <2>1, <2>4, <3>1, <3>2, <3>3, <3>4, MinedKeeps
  <2> QED BY <2>3, <2>4
<1>5. CASE MoveValue
  <2>1. PICK worth \in Worth : Mined([l EXCEPT !.assets = worth])
    BY <1>2, <1>5 DEF MoveValue
  <2>2. worth \in Nat /\ l.status = "Active"
    BY <1>2, <1>5, ViewAssumption DEF MoveValue
  <2>3. PICK s : s = [l EXCEPT !.assets = worth]
    OBVIOUS
  <2>4. s \in Snapshots /\ s.next = l.next /\ s.status = "Active" /\ s.assets = worth
    BY <1>3, <2>2, <2>3 DEF Snapshots
  <2>5. SnapshotSound(s, routeId) /\ Follows(l, s)
    BY <1>3, <2>2, <2>4 DEF SnapshotSound, Follows, Final
  <2> QED BY <1>2, <2>1, <2>3, <2>4, <2>5, MinedKeeps
<1>6. CASE Settle
  <2>1. PICK outcome \in Outcomes : Mined([l EXCEPT !.status = outcome])
    BY <1>2, <1>6 DEF Settle
  <2>2. outcome \in {"Executed", "Cancelled", "Expired"} /\ l.status = "Active"
    BY <1>2, <1>6, ViewAssumption DEF Settle
  <2>3. PICK s : s = [l EXCEPT !.status = outcome]
    OBVIOUS
  <2>4. s \in Snapshots /\ s.next = l.next /\ s.status = outcome /\ s.assets = l.assets
    BY <1>3, <2>2, <2>3 DEF Snapshots, Statuses
  <2>5. SnapshotSound(s, routeId) /\ Follows(l, s)
    BY <1>3, <2>2, <2>4 DEF SnapshotSound, Follows, Final
  <2> QED BY <1>2, <2>1, <2>3, <2>4, <2>5, MinedKeeps
<1> QED BY <1>4, <1>5, <1>6 DEF ChainStep

-----------------------------------------------------------------------------
(* What a load may be answered.                                             *)

\* The greatest of three heights.
LEMMA MaxOfThree ==
  ASSUME NEW a \in Nat, NEW b \in Nat, NEW c \in Nat
  PROVE  LET m == Max({a, b, c}) IN m \in {a, b, c} /\ a <= m /\ b <= m /\ c <= m
<1>1. PICK S : S = {a, b, c}
  OBVIOUS
<1>2. \E x \in S : \A y \in S : x >= y
  <2>1. CASE b <= a /\ c <= a
    BY <1>1, <2>1
  <2>2. CASE a <= b /\ c <= b
    BY <1>1, <2>2
  <2>3. CASE a <= c /\ b <= c
    BY <1>1, <2>3
  <2> QED BY <2>1, <2>2, <2>3
<1>3. Max(S) = CHOOSE x \in S : \A y \in S : x >= y
  BY DEF Max
<1>4. Max(S) \in S /\ \A y \in S : Max(S) >= y
  BY <1>2, <1>3
<1> QED BY <1>1, <1>4

\* The place of a view in an answer without one.
LEMMA NoViewIsView == NoView \in Views
BY DEF NoView, Views, Statuses

\* A load that was sent is answered by a block since then.
LEMMA AnsweringFacts ==
  ASSUME ChainOrderly, NEW n \in 1..Slots, SentSound(n), NEW h \in Answering(n), h # Failed
  PROVE  /\ h \in 1..Height /\ loads[n].sentAt <= h /\ h \in Nat
         /\ Follows(chain[loads[n].sentAt], chain[h])
<1>1. PICK k \in Nat \ {0} : k = Height
  BY ChainFacts
<1>2. PICK a \in 1..k : a = loads[n].sentAt
  BY <1>1 DEF SentSound
<1>3. h \in a..k
  BY <1>1, <1>2 DEF Answering, CallsFrom, Failed
<1>4. h \in 1..k /\ a <= h /\ h \in Nat
  BY <1>3
<1> QED BY <1>1, <1>2, <1>4 DEF ChainOrderly

\* A page whose only load was sent when the policy had its final state shows it.
LEMMA FinalStays ==
  ASSUME ViewInv, NEW n \in 1..Slots, loads[n].stage = "sent", loads[n].alone,
         page.kind = "ready", page.view.status # "Active"
  PROVE  /\ Final(chain[loads[n].sentAt])
         /\ page.view = [status |-> Latest.status, current |-> Latest.assets,
                         returned |-> Latest.assets, block |-> page.view.block]
<1>1. SentSound(n) /\ PageSound /\ ViewTypeOK
  BY DEF ViewInv, LoadsOrderly
<1>2. Final(chain[loads[n].sentAt])
  BY <1>1 DEF SentSound
<1>3. page.view \in Views
  BY <1>1 DEF ViewTypeOK, AllAnswers
<1>4. ViewSound(page.view)
  BY <1>1 DEF PageSound
<1> QED BY <1>2, <1>3, <1>4 DEF ViewSound, Views

\* The view of a policy that has settled.
LEMMA SettledViewSound ==
  ASSUME ViewInv, NEW n \in 1..Slots, loads[n].stage = "sent",
         NEW policyAt \in Answering(n), NEW blockAt \in Answering(n),
         policyAt # Failed, blockAt # Failed, Final(chain[policyAt]),
         NEW answer, answer = Answer("ready", ToPolicyView(chain[policyAt],
                                              chain[policyAt].assets, blockAt), FALSE)
  PROVE  answer \in AllAnswers /\ MayAnswer(n, answer)
<1>1. ChainOrderly /\ SentSound(n) /\ ViewTypeOK
  BY DEF ViewInv, LoadsOrderly
<1>2. /\ policyAt \in 1..Height /\ blockAt \in 1..Height /\ loads[n].sentAt <= blockAt
      /\ Follows(chain[loads[n].sentAt], chain[policyAt])
      /\ blockAt \in Nat
  BY <1>1, AnsweringFacts
<1>3. PICK p \in Snapshots : p = chain[policyAt]
  BY <1>1, <1>2, ChainFacts
<1>4. Latest.status = p.status /\ Latest.assets = p.assets
  BY <1>1, <1>2, <1>3, ChainFacts DEF Follows
<1>5. PICK v : v = ToPolicyView(p, p.assets, blockAt)
  OBVIOUS
<1>6. /\ v \in Views /\ v.status = p.status /\ v.current = p.assets /\ v.returned = p.assets
      /\ v.block = blockAt
      /\ v = [status |-> p.status, current |-> p.assets, returned |-> p.assets,
              block |-> blockAt]
  BY <1>2, <1>3, <1>5 DEF ToPolicyView, Views, Snapshots, Final
<1>7. ViewSound(v)
  BY <1>2, <1>3, <1>4, <1>6 DEF ViewSound, Final
<1>8. answer \in AllAnswers /\ answer.kind = "ready" /\ answer.view = v
  BY <1>3, <1>5, <1>6 DEF Answer, AllAnswers
<1>9. ASSUME loads[n].alone, page.kind = "ready" PROVE Advances(page.view, v)
  <2>1. page.view.block <= loads[n].sentAt /\ page.view \in Views
    BY <1>1, <1>9 DEF SentSound, ViewTypeOK, AllAnswers
  <2>2. loads[n].sentAt \in Nat /\ page.view.block \in Nat
    BY <1>1, <2>1, ChainFacts DEF SentSound, Views
  <2>3. v.block >= page.view.block
    BY <1>2, <1>6, <2>1, <2>2
  <2>4. page.view.status # "Active" => v = [page.view EXCEPT !.block = v.block]
    BY <1>4, <1>6, <1>9, FinalStays
  <2> QED BY <2>3, <2>4 DEF Advances
<1> QED BY <1>7, <1>8, <1>9 DEF MayAnswer

\* The view of a policy that was active, with a value read later.
LEMMA ActiveViewSound ==
  ASSUME ViewInv, NEW n \in 1..Slots, loads[n].stage = "sent",
         NEW policyAt \in Answering(n), NEW blockAt \in Answering(n),
         policyAt # Failed, blockAt # Failed, chain[policyAt].status = "Active",
         NEW valueAt \in policyAt..Height, blockAt <= valueAt,
         NEW answer, answer = Answer("ready", ToPolicyView(chain[policyAt],
                                              ValueAt(valueAt), blockAt), FALSE)
  PROVE  answer \in AllAnswers /\ MayAnswer(n, answer)
<1>1. ChainOrderly /\ SentSound(n) /\ ViewTypeOK
  BY DEF ViewInv, LoadsOrderly
<1>2. /\ policyAt \in 1..Height /\ blockAt \in 1..Height /\ loads[n].sentAt <= blockAt
      /\ Follows(chain[loads[n].sentAt], chain[policyAt])
      /\ blockAt \in Nat
  BY <1>1, AnsweringFacts
<1>3. PICK p \in Snapshots : p = chain[policyAt]
  BY <1>1, <1>2, ChainFacts
<1>4. valueAt \in 1..Height /\ policyAt <= valueAt
  BY <1>1, <1>2, ChainFacts
<1>5. PICK q \in Snapshots : q = chain[valueAt]
  BY <1>1, <1>4, ChainFacts
<1>6. Follows(p, q) /\ Follows(q, Latest) /\ SnapshotSound(q, routeId)
  BY <1>1, <1>2, <1>3, <1>4, <1>5, ChainFacts DEF ChainOrderly
<1>7. PICK c \in Nat : c = ValueAt(valueAt)
  BY <1>5 DEF ValueAt, Snapshots
<1>8. valueAt \in blockAt..Height /\ chain[valueAt].status # "None"
  BY <1>1, <1>2, <1>3, <1>4, <1>5, <1>6, ChainFacts DEF Follows
<1>9. PICK v : v = ToPolicyView(p, c, blockAt)
  OBVIOUS
<1>10. /\ v \in Views /\ v.status = "Active" /\ v.current = c /\ v.returned = 0
       /\ v.block = blockAt
  BY <1>2, <1>3, <1>7, <1>9 DEF ToPolicyView, Views, Snapshots
<1>11. Latest.status # "None"
  BY <1>3, <1>6 DEF Follows
<1>12. ViewSound(v)
  BY <1>2, <1>7, <1>8, <1>10, <1>11 DEF ViewSound
<1>13. answer \in AllAnswers /\ answer.kind = "ready" /\ answer.view = v
  BY <1>3, <1>7, <1>9, <1>10 DEF Answer, AllAnswers
<1>14. ASSUME loads[n].alone, page.kind = "ready" PROVE Advances(page.view, v)
  <2>1. page.view.block <= loads[n].sentAt /\ page.view \in Views
    BY <1>1, <1>14 DEF SentSound, ViewTypeOK, AllAnswers
  <2>2. loads[n].sentAt \in Nat /\ page.view.block \in Nat
    BY <1>1, <2>1, ChainFacts DEF SentSound, Views
  <2>3. v.block >= page.view.block
    BY <1>2, <1>10, <2>1, <2>2
  <2>4. page.view.status = "Active"
    BY <1>2, <1>3, <1>14, FinalStays DEF Follows, Final
  <2> QED BY <2>3, <2>4 DEF Advances
<1> QED BY <1>12, <1>13, <1>14 DEF MayAnswer

\* Whatever readPolicyFromArc answers, it may answer.
LEMMA ReadSound ==
  ASSUME ViewInv, NEW n \in 1..Slots, loads[n].stage = "sent",
         NEW policyAt \in Answering(n), NEW nextAt \in Answering(n),
         NEW blockAt \in Answering(n),
         NEW answer \in ReadPolicyFromArc(policyAt, nextAt, blockAt)
  PROVE  answer \in AllAnswers /\ MayAnswer(n, answer)
<1>1. ChainOrderly /\ SentSound(n) /\ ViewTypeOK
  BY DEF ViewInv, LoadsOrderly
<1>2. PICK failed \in BOOLEAN : failed <=> Failed \in {policyAt, nextAt, blockAt}
  OBVIOUS
<1>3. loads[n].alone /\ page.kind = "ready" => loads[n].existed
  BY <1>1 DEF SentSound
<1>4. loads[n].existed <=> chain[loads[n].sentAt].status # "None"
  BY <1>1 DEF SentSound
<1>5. ASSUME nextAt # Failed
      PROVE  /\ SnapshotSound(chain[nextAt], routeId)
             /\ Follows(chain[loads[n].sentAt], chain[nextAt])
             /\ Follows(chain[nextAt], Latest)
             /\ chain[nextAt] \in Snapshots
  BY <1>1, <1>5, AnsweringFacts, ChainFacts
<1>6. CASE Missing(nextAt)
  <2>1. answer = Answer("empty", NoView, failed)
    BY <1>2, <1>6 DEF ReadPolicyFromArc
  <2>2. answer \in AllAnswers /\ answer.kind = "empty"
    BY <2>1, NoViewIsView DEF Answer, AllAnswers
  <2>3. ~ loads[n].existed
    <3>1. chain[nextAt].status = "None"
      BY <1>1, <1>5, <1>6 DEF Missing, SnapshotSound, Snapshots, ViewTypeOK
    <3> QED BY <1>4, <1>5, <1>6, <3>1 DEF Missing, Follows
  <2> QED BY <1>3, <2>2, <2>3 DEF MayAnswer
<1>7. CASE ~ Missing(nextAt) /\ (failed \/ chain[policyAt].status = "None")
  <2>1. answer = Answer("degraded", NoView, failed)
    BY <1>2, <1>7 DEF ReadPolicyFromArc
  <2>2. answer \in AllAnswers /\ answer.kind = "degraded" /\ answer.failed = failed
    BY <2>1, NoViewIsView DEF Answer, AllAnswers
  <2>3. ASSUME ~ failed, routeId >= 1
        PROVE  ~ loads[n].existed /\ Latest.status # "None"
    <3>1. policyAt # Failed /\ nextAt # Failed /\ chain[policyAt].status = "None"
      BY <1>2, <1>7, <2>3
    <3>2. ~ loads[n].existed
      BY <1>1, <1>4, <3>1, AnsweringFacts DEF Follows
    <3>3. chain[nextAt].status # "None"
      BY <1>1, <1>5, <1>7, <2>3, <3>1 DEF Missing, SnapshotSound, Snapshots, ViewTypeOK
    <3> QED BY <1>5, <3>1, <3>2, <3>3 DEF Follows
  <2>4. \/ answer.failed
        \/ routeId < 1
        \/ ~ loads[n].existed /\ Latest.status # "None"
    BY <1>1, <2>2, <2>3 DEF ViewTypeOK
  <2> QED BY <2>2, <2>4 DEF MayAnswer
<1>8. CASE ~ Missing(nextAt) /\ ~ failed /\ chain[policyAt].status # "None"
  <2>1. policyAt # Failed /\ nextAt # Failed /\ blockAt # Failed
    BY <1>2, <1>8
  <2>2. policyAt \in Nat /\ nextAt \in Nat /\ blockAt \in Nat
    BY <1>1, <2>1, AnsweringFacts
  <2>3. PICK doneAt : doneAt = Max({policyAt, nextAt, blockAt})
    OBVIOUS
  <2>4. doneAt \in Nat /\ policyAt <= doneAt /\ blockAt <= doneAt
    BY <2>2, <2>3, MaxOfThree
  <2>5. answer \in CurrentAssets(policyAt, blockAt, doneAt)
    BY <1>2, <1>8, <2>3 DEF ReadPolicyFromArc
  <2>6. CASE chain[policyAt].status # "Active"
    <3>1. answer = Answer("ready", ToPolicyView(chain[policyAt], chain[policyAt].assets,
                                                blockAt), FALSE)
      BY <2>5, <2>6 DEF CurrentAssets
    <3> QED BY <1>8, <2>1, <2>6, <3>1, SettledViewSound DEF Final
  <2>7. CASE chain[policyAt].status = "Active"
    <3>1. PICK valueAt \in CallsFrom(doneAt) :
             answer = IF valueAt = Failed THEN Answer("degraded", NoView, TRUE)
                      ELSE Answer("ready", ToPolicyView(chain[policyAt], ValueAt(valueAt),
                                                        blockAt), FALSE)
      BY <2>5, <2>7 DEF CurrentAssets
    <3>2. CASE valueAt = Failed
      <4>1. answer = Answer("degraded", NoView, TRUE)
        BY <3>1, <3>2
      <4>2. answer \in AllAnswers /\ answer.kind = "degraded" /\ answer.failed
        BY <4>1, NoViewIsView DEF Answer, AllAnswers
      <4> QED BY <4>2 DEF MayAnswer
    <3>3. CASE valueAt # Failed
      <4>1. valueAt \in policyAt..Height /\ blockAt <= valueAt
        <5>1. valueAt \in doneAt..Height /\ Height \in Nat
          BY <1>1, <3>1, <3>3, ChainFacts DEF CallsFrom, Failed
        <5> QED BY <2>2, <2>4, <5>1
      <4>2. answer = Answer("ready", ToPolicyView(chain[policyAt], ValueAt(valueAt),
                                                  blockAt), FALSE)
        BY <3>1, <3>3
      <4> QED BY <2>1, <2>7, <4>1, <4>2, ActiveViewSound
    <3> QED BY <3>2, <3>3
  <2> QED BY <2>6, <2>7
<1> QED BY <1>6, <1>7, <1>8

\* Whatever the endpoint answers, it may answer.
LEMMA AnswersSound ==
  ASSUME ViewInv, NEW n \in 1..Slots, loads[n].stage = "sent", NEW answer \in Answers(n)
  PROVE  answer \in AllAnswers /\ MayAnswer(n, answer)
<1>1. CASE routeId < 1
  <2>1. answer = Answer("degraded", NoView, FALSE)
    BY <1>1 DEF Answers
  <2>2. answer \in AllAnswers /\ answer.kind = "degraded"
    BY <2>1, NoViewIsView DEF Answer, AllAnswers
  <2> QED BY <1>1, <2>2 DEF MayAnswer
<1>2. CASE ~ routeId < 1
  <2>1. PICK policyAt \in Answering(n), nextAt \in Answering(n), blockAt \in Answering(n) :
           answer \in ReadPolicyFromArc(policyAt, nextAt, blockAt)
    BY <1>2 DEF Answers
  <2> QED BY <2>1, ReadSound
<1> QED BY <1>1, <1>2

-----------------------------------------------------------------------------
(* The loads and the page.                                                  *)

\* A load that is sent.
LEMMA LoadKeeps ==
  ASSUME ViewInv, NEW quiet \in BOOLEAN, Load(quiet)
  PROVE  ViewInv'
<1>1. ViewTypeOK /\ ChainOrderly /\ LoadsOrderly /\ PageSound /\ WaitingIsReal
  BY DEF ViewInv
<1>2. PICK k \in Nat \ {0} : k = Height
  BY <1>1, ChainFacts
<1>3. PICK alone : alone = (\A n \in 1..Slots : ~ InFlight(n))
  OBVIOUS
<1>4. PICK n \in 1..Slots :
         /\ ~ InFlight(n)
         /\ loads' = [m \in 1..Slots |->
                         IF m = n THEN Sent(quiet, alone)
                         ELSE IF InFlight(m) THEN [loads[m] EXCEPT !.alone = FALSE]
                         ELSE loads[m]]
         /\ page' = IF quiet THEN page ELSE Loading
         /\ refreshing' = quiet
         /\ UNCHANGED <<chain, routeId>>
  BY <1>3 DEF Load
<1>5. PICK s : s = Sent(quiet, alone)
  OBVIOUS
<1>6. /\ s.stage = "sent" /\ s.quiet = quiet /\ s.sentAt = k /\ s.alone = alone
      /\ s.existed <=> Latest.status # "None"
  BY <1>2, <1>5 DEF Sent
<1>7. s \in LoadRecord
  <2>1. alone \in BOOLEAN
    BY <1>3
  <2>2. Loading \in AllAnswers
    BY NoViewIsView DEF Loading, Answer, AllAnswers
  <2> QED BY <1>2, <1>5, <2>1, <2>2 DEF Sent, LoadRecord
<1>8. /\ loads'[n] = s
      /\ \A m \in 1..Slots : m # n /\ InFlight(m) =>
            loads'[m] = [loads[m] EXCEPT !.alone = FALSE]
      /\ \A m \in 1..Slots : m # n /\ ~ InFlight(m) => loads'[m] = loads[m]
  BY <1>4, <1>5
<1>9. ASSUME NEW m \in 1..Slots, InFlight(m)
      PROVE  /\ m # n /\ loads'[m] \in LoadRecord /\ loads'[m].alone = FALSE
             /\ loads'[m].stage = loads[m].stage /\ loads'[m].quiet = loads[m].quiet
             /\ loads'[m].sentAt = loads[m].sentAt /\ loads'[m].answer = loads[m].answer
             /\ loads'[m].existed = loads[m].existed
  <2>1. loads[m] \in LoadRecord
    BY <1>1, <1>9, LoadFields
  <2> QED BY <1>4, <1>8, <1>9, <2>1 DEF LoadRecord
<1>10. Loading \in AllAnswers /\ Loading.kind = "loading"
  BY NoViewIsView DEF Loading, Answer, AllAnswers
<1>11. page' \in AllAnswers /\ (page'.kind = "ready" => page' = page)
  BY <1>1, <1>4, <1>10 DEF ViewTypeOK
<1>12. ViewTypeOK'
  <2>1. ASSUME NEW m \in 1..Slots PROVE loads'[m] \in LoadRecord \cup {Free}
    BY <1>1, <1>7, <1>8, <1>9 DEF ViewTypeOK
  <2>2. loads' = [m \in 1..Slots |-> loads'[m]]
    BY <1>4
  <2>3. loads' \in [1..Slots -> LoadRecord \cup {Free}]
    BY <2>1, <2>2
  <2> QED BY <1>1, <1>4, <1>11, <2>3 DEF ViewTypeOK
<1>13. ChainOrderly'
  BY <1>1, <1>4 DEF ChainOrderly, Height
<1>14. PageSound'
  BY <1>1, <1>4, <1>11 DEF PageSound, ViewSound, Latest, Height, ValueAt
<1>15. SentSound(n)'
  <2>1. k \in 1..k /\ Latest = chain[k]
    BY <1>2 DEF Latest
  <2>2. ASSUME page'.kind = "ready"
        PROVE  /\ page'.view.block <= k /\ Latest.status # "None"
               /\ page'.view.status # "Active" => Final(Latest)
    <3>1. ViewSound(page.view) /\ page' = page
      BY <1>1, <1>11, <2>2 DEF PageSound
    <3> QED BY <1>2, <3>1 DEF ViewSound, Final
  <2>3. chain' = chain /\ Height' = k
    BY <1>2, <1>4 DEF Height
  <2> QED BY <1>6, <1>8, <2>1, <2>2, <2>3 DEF SentSound
<1>16. ASSUME NEW m \in 1..Slots, InFlight(m), SentSound(m) PROVE SentSound(m)'
  BY <1>4, <1>9, <1>16 DEF SentSound, Height
<1>17. ASSUME NEW m \in 1..Slots, InFlight(m), AnswerSound(m) PROVE AnswerSound(m)'
  <2>1. PICK a : a = loads[m].answer
    OBVIOUS
  <2>2. MayAnswer(m, a)
    BY <1>17, <2>1 DEF AnswerSound
  <2>3. a.kind = "ready" => ViewSound(a.view)'
    BY <1>4, <2>2 DEF MayAnswer, ViewSound, Latest, Height, ValueAt
  <2>4. MayAnswer(m, a)'
    <3>1. /\ loads'[m].alone = FALSE /\ loads'[m].existed = loads[m].existed
          /\ routeId' = routeId /\ Latest' = Latest
      BY <1>4, <1>9, <1>17 DEF Latest, Height
    <3> QED BY <2>2, <2>3, <3>1 DEF MayAnswer
  <2> QED BY <1>9, <1>17, <2>1, <2>4 DEF AnswerSound
<1>18. ASSUME NEW m \in 1..Slots, InFlight(m)' PROVE m = n \/ InFlight(m)
  BY <1>8, <1>18 DEF InFlight
<1>19. LoadsOrderly'
  <2>1. ASSUME NEW m \in 1..Slots
        PROVE  /\ loads'[m].stage = "sent" => SentSound(m)'
               /\ loads'[m].stage = "answered" => AnswerSound(m)'
    <3>1. CASE m = n
      BY <1>6, <1>8, <1>15, <3>1
    <3>2. CASE m # n /\ InFlight(m)
      BY <1>1, <1>9, <1>16, <1>17, <3>2 DEF LoadsOrderly
    <3>3. CASE m # n /\ ~ InFlight(m)
      BY <1>8, <3>3 DEF InFlight
    <3> QED BY <3>1, <3>2, <3>3
  <2>2. ASSUME NEW m \in 1..Slots, NEW l \in 1..Slots, InFlight(m)', InFlight(l)',
               loads'[l].alone
        PROVE  m = l
    <3>1. l = n
      BY <1>9, <1>18, <2>2
    <3>2. alone
      BY <1>6, <1>8, <2>2, <3>1
    <3> QED BY <1>3, <1>18, <2>2, <3>1, <3>2
  <2> QED BY <2>1, <2>2 DEF LoadsOrderly
<1>20. WaitingIsReal'
  <2>1. InFlight(n)' /\ loads'[n].quiet = quiet
    BY <1>6, <1>8 DEF InFlight
  <2>2. CASE quiet
    <3>1. page' = page
      BY <1>4, <2>2
    <3>2. ASSUME page.kind = "loading"
          PROVE  \E m \in 1..Slots : InFlight(m)' /\ ~ loads'[m].quiet
      <4>1. PICK m \in 1..Slots : InFlight(m) /\ ~ loads[m].quiet
        BY <1>1, <3>2 DEF WaitingIsReal
      <4>2. InFlight(m)' /\ ~ loads'[m].quiet
        BY <1>9, <4>1 DEF InFlight
      <4> QED BY <4>2
    <3> QED BY <2>1, <3>1, <3>2 DEF WaitingIsReal
  <2>3. CASE ~ quiet
    BY <1>4, <2>1, <2>3 DEF WaitingIsReal
  <2> QED BY <2>2, <2>3
<1> QED BY <1>12, <1>13, <1>14, <1>19, <1>20 DEF ViewInv

\* The endpoint answers.
LEMMA ServeKeeps ==
  ASSUME ViewInv, NEW n \in 1..Slots, Serve(n)
  PROVE  ViewInv'
<1>1. ViewTypeOK /\ ChainOrderly /\ LoadsOrderly /\ PageSound /\ WaitingIsReal
  BY DEF ViewInv
<1>2. PICK answer \in Answers(n) : loads[n].stage = "sent" /\ Respond(n, answer)
  BY DEF Serve
<1>3. answer \in AllAnswers /\ MayAnswer(n, answer)
  BY <1>2, AnswersSound
<1>4. UNCHANGED <<chain, routeId, page, refreshing>>
  BY <1>2 DEF Respond
<1>5. loads[n] \in LoadRecord /\ loads \in [1..Slots -> LoadRecord \cup {Free}]
  BY <1>1, <1>2, LoadFields DEF ViewTypeOK, InFlight
<1>6. PICK r : r = [loads[n] EXCEPT !.stage = "answered", !.sentAt = 0, !.answer = answer]
  OBVIOUS
<1>7. /\ r \in LoadRecord /\ r.stage = "answered" /\ r.answer = answer
      /\ r.existed = loads[n].existed /\ r.alone = loads[n].alone
      /\ r.quiet = loads[n].quiet
  BY <1>3, <1>5, <1>6 DEF LoadRecord
<1>8. loads' = [loads EXCEPT ![n] = r]
  BY <1>2, <1>6 DEF Respond
<1>9. loads'[n] = r /\ \A m \in 1..Slots : m # n => loads'[m] = loads[m]
  BY <1>5, <1>8
<1>10. ViewTypeOK'
  <2>1. loads' \in [1..Slots -> LoadRecord \cup {Free}]
    BY <1>5, <1>7, <1>8
  <2> QED BY <1>1, <1>4, <2>1 DEF ViewTypeOK
<1>11. ChainOrderly' /\ PageSound'
  BY <1>1, <1>4 DEF ChainOrderly, PageSound, ViewSound, Latest, Height, ValueAt
<1>12. \A m \in 1..Slots : InFlight(m)' <=> InFlight(m)
  BY <1>2, <1>7, <1>9 DEF InFlight
<1>13. AnswerSound(n)'
  <2>1. \A v : ViewSound(v) => ViewSound(v)'
    BY <1>4 DEF ViewSound, Latest, Height, ValueAt
  <2>2. /\ loads'[n].answer = answer /\ loads'[n].existed = loads[n].existed
        /\ loads'[n].alone = loads[n].alone /\ Latest' = Latest
    BY <1>4, <1>7, <1>9 DEF Latest, Height
  <2>3. MayAnswer(n, answer)'
    BY <1>3, <1>4, <2>1, <2>2 DEF MayAnswer
  <2> QED BY <2>2, <2>3 DEF AnswerSound
<1>14. ASSUME NEW m \in 1..Slots, m # n
       PROVE  /\ SentSound(m) => SentSound(m)'
              /\ AnswerSound(m) => AnswerSound(m)'
  BY <1>4, <1>9, <1>14 DEF SentSound, AnswerSound, MayAnswer, ViewSound, Latest, Height,
                           ValueAt
<1>15. LoadsOrderly'
  <2>1. ASSUME NEW m \in 1..Slots
        PROVE  /\ loads'[m].stage = "sent" => SentSound(m)'
               /\ loads'[m].stage = "answered" => AnswerSound(m)'
    BY <1>1, <1>7, <1>9, <1>13, <1>14 DEF LoadsOrderly
  <2>2. \A m \in 1..Slots : loads'[m].alone = loads[m].alone
    BY <1>7, <1>9
  <2> QED BY <1>1, <1>12, <2>1, <2>2 DEF LoadsOrderly
<1>16. WaitingIsReal'
  <2>1. \A m \in 1..Slots : loads'[m].quiet = loads[m].quiet
    BY <1>7, <1>9
  <2> QED BY <1>1, <1>4, <1>12, <2>1 DEF WaitingIsReal
<1> QED BY <1>10, <1>11, <1>15, <1>16 DEF ViewInv

\* An answer is shown, and its load is done: one that was alone leaves none behind.
LEMMA FinishKeeps ==
  ASSUME ViewInv, NEW n \in 1..Slots, InFlight(n), NEW answer \in AllAnswers,
         answer.kind # "loading", answer.kind = "ready" => ViewSound(answer.view),
         Finish(n, answer)
  PROVE  ViewInv'
<1>1. ViewTypeOK /\ ChainOrderly /\ LoadsOrderly /\ PageSound /\ WaitingIsReal
  BY DEF ViewInv
<1>2. /\ page' = answer /\ refreshing' = FALSE /\ UNCHANGED <<chain, routeId>>
      /\ loads' = [loads EXCEPT ![n] = Free]
  BY DEF Finish
<1>3. /\ loads' \in [1..Slots -> LoadRecord \cup {Free}] /\ loads'[n] = Free
      /\ \A m \in 1..Slots : m # n => loads'[m] = loads[m]
  BY <1>1, <1>2 DEF ViewTypeOK
<1>4. ViewTypeOK'
  BY <1>1, <1>2, <1>3 DEF ViewTypeOK
<1>5. \A v : ViewSound(v) => ViewSound(v)'
  BY <1>2 DEF ViewSound, Latest, Height, ValueAt
<1>6. ChainOrderly' /\ PageSound'
  BY <1>1, <1>2, <1>5 DEF ChainOrderly, PageSound, Height
<1>7. ~ InFlight(n)' /\ \A m \in 1..Slots : m # n => (InFlight(m)' <=> InFlight(m))
  BY <1>3 DEF InFlight, Free
<1>8. \A m \in 1..Slots : m # n /\ InFlight(m) => ~ loads[m].alone
  BY <1>1 DEF LoadsOrderly
<1>9. ASSUME NEW m \in 1..Slots, m # n, InFlight(m)
      PROVE  /\ SentSound(m) => SentSound(m)'
             /\ AnswerSound(m) => AnswerSound(m)'
  <2>1. loads'[m] = loads[m] /\ ~ loads[m].alone /\ Latest' = Latest /\ Height' = Height
    BY <1>2, <1>3, <1>8, <1>9 DEF Latest, Height
  <2>2. SentSound(m) => SentSound(m)'
    BY <1>2, <2>1 DEF SentSound
  <2>3. PICK a : a = loads[m].answer
    OBVIOUS
  <2>4. MayAnswer(m, a) => MayAnswer(m, a)'
    BY <1>2, <1>5, <2>1 DEF MayAnswer
  <2> QED BY <2>1, <2>2, <2>3, <2>4 DEF AnswerSound
<1>10. LoadsOrderly'
  <2>1. ASSUME NEW m \in 1..Slots
        PROVE  /\ loads'[m].stage = "sent" => SentSound(m)'
               /\ loads'[m].stage = "answered" => AnswerSound(m)'
    <3>1. CASE m = n
      BY <1>3, <3>1 DEF Free
    <3>2. CASE m # n
      BY <1>1, <1>3, <1>9, <3>2 DEF LoadsOrderly, InFlight
    <3> QED BY <3>1, <3>2
  <2> QED BY <1>1, <1>3, <1>7, <2>1 DEF LoadsOrderly
<1>11. WaitingIsReal'
  BY <1>2 DEF WaitingIsReal
<1> QED BY <1>4, <1>6, <1>10, <1>11 DEF ViewInv

\* A load ends, with its answer or without one.
LEMMA EndKeeps ==
  ASSUME ViewInv, NEW n \in 1..Slots, TakeAnswer(n) \/ LoseAnswer(n)
  PROVE  ViewInv'
<1>1. CASE TakeAnswer(n)
  <2>1. InFlight(n) /\ loads[n].stage = "answered" /\ Finish(n, loads[n].answer)
    BY <1>1 DEF TakeAnswer, InFlight
  <2>2. MayAnswer(n, loads[n].answer)
    BY <2>1 DEF ViewInv, LoadsOrderly, AnswerSound
  <2>3. loads[n].answer \in AllAnswers
    BY <2>1, LoadFields DEF ViewInv, LoadRecord
  <2> QED BY <2>1, <2>2, <2>3, FinishKeeps DEF MayAnswer
<1>2. CASE LoseAnswer(n)
  <2>1. PICK answer : answer = Answer("degraded", NoView, TRUE)
    OBVIOUS
  <2>2. answer \in AllAnswers /\ answer.kind = "degraded"
    BY <2>1, NoViewIsView DEF Answer, AllAnswers
  <2> QED BY <1>2, <2>1, <2>2, FinishKeeps DEF LoseAnswer
<1> QED BY <1>1, <1>2

\* The page is opened.
LEMMA ViewInitSound ==
  ASSUME ViewInit
  PROVE  ViewInv
<1>1. /\ chain = <<[next |-> 1, status |-> "None", assets |-> 0]>> /\ routeId \in Nat
      /\ page = Loading /\ refreshing = FALSE
      /\ loads = [n \in 1..Slots |-> IF n = 1 THEN Sent(FALSE, TRUE) ELSE Free]
  BY ViewAssumption DEF ViewInit
<1>2. PICK b : b = [next |-> 1, status |-> "None", assets |-> 0]
  OBVIOUS
<1>3. b \in Snapshots /\ b.next = 1 /\ b.status = "None" /\ chain = <<b>>
  BY <1>1, <1>2 DEF Snapshots, Statuses
<1>4. Height = 1 /\ chain[1] = b /\ chain \in Seq(Snapshots) /\ Latest = b
  BY <1>3 DEF Height, Latest
<1>5. SnapshotSound(b, routeId) /\ Follows(b, b)
  BY <1>1, <1>3 DEF SnapshotSound, Follows
<1>6. ChainOrderly
  BY <1>4, <1>5 DEF ChainOrderly
<1>7. PICK s : s = Sent(FALSE, TRUE)
  OBVIOUS
<1>8. Loading \in AllAnswers /\ Loading.kind = "loading"
  BY NoViewIsView DEF Loading, Answer, AllAnswers
<1>9. /\ s \in LoadRecord /\ s.stage = "sent" /\ s.quiet = FALSE /\ s.sentAt = 1
      /\ s.existed = FALSE
  BY <1>3, <1>4, <1>7, <1>8 DEF Sent, LoadRecord
<1>10. /\ 1 \in 1..Slots /\ loads[1] = s
       /\ \A n \in 1..Slots : n # 1 => loads[n] = Free
       /\ loads \in [1..Slots -> LoadRecord \cup {Free}]
  <2>1. 1 \in 1..Slots
    BY ViewAssumption
  <2>2. loads = [n \in 1..Slots |-> IF n = 1 THEN s ELSE Free]
    BY <1>1, <1>7
  <2>3. \A n \in 1..Slots : loads[n] = IF n = 1 THEN s ELSE Free
    BY <2>2
  <2> QED BY <1>9, <2>1, <2>2, <2>3
<1>11. ViewTypeOK
  BY <1>1, <1>8, <1>10 DEF ViewTypeOK
<1>12. \A n \in 1..Slots : n # 1 => loads[n].stage = "free"
  BY <1>10 DEF Free
<1>13. LoadsOrderly
  <2>1. SentSound(1)
    <3>1. loads[1].sentAt = 1 /\ loads[1].existed = FALSE /\ page.kind # "ready"
      BY <1>1, <1>8, <1>9, <1>10
    <3>2. Height = 1 /\ chain[1].status = "None" /\ 1 \in 1..1
      BY <1>3, <1>4
    <3> QED BY <3>1, <3>2 DEF SentSound
  <2>2. ASSUME NEW n \in 1..Slots
        PROVE  /\ loads[n].stage = "sent" => SentSound(n)
               /\ loads[n].stage = "answered" => AnswerSound(n)
    BY <1>9, <1>10, <1>12, <2>1
  <2>3. \A n \in 1..Slots : InFlight(n) => n = 1
    BY <1>12 DEF InFlight
  <2> QED BY <2>2, <2>3 DEF LoadsOrderly
<1>14. PageSound /\ WaitingIsReal
  BY <1>1, <1>8, <1>9, <1>10 DEF PageSound, WaitingIsReal, InFlight
<1> QED BY <1>6, <1>11, <1>13, <1>14 DEF ViewInv

\* Every step keeps the invariant.
LEMMA ViewStepKeeps ==
  ASSUME ViewInv, [ViewNext]_viewVars
  PROVE  ViewInv'
<1>1. CASE ViewNext
  <2>1. CASE ChainStep
    BY <2>1, ChainStepKeeps
  <2>2. CASE Poll \/ Refresh \/ Retry
    <3>1. TRUE \in BOOLEAN /\ FALSE \in BOOLEAN
      OBVIOUS
    <3> QED BY <2>2, <3>1, LoadKeeps DEF Poll, Refresh, Retry
  <2>3. CASE \E n \in 1..Slots : Serve(n) \/ TakeAnswer(n) \/ LoseAnswer(n)
    BY <2>3, ServeKeeps, EndKeeps
  <2> QED BY <1>1, <2>1, <2>2, <2>3 DEF ViewNext
<1>2. CASE UNCHANGED viewVars
  BY <1>2 DEF viewVars, ViewInv, ViewTypeOK, ChainOrderly, LoadsOrderly, PageSound,
              WaitingIsReal, InFlight, SentSound, AnswerSound, MayAnswer, ViewSound,
              ValueAt, Latest, Height
<1> QED BY <1>1, <1>2

-----------------------------------------------------------------------------
(* The theorems.                                                            *)

\* The inductive invariant.
THEOREM ViewInvariance == ViewSpec => []ViewInv
<1>1. ViewInit => ViewInv
  BY ViewInitSound
<1>2. ViewInv /\ [ViewNext]_viewVars => ViewInv'
  BY ViewStepKeeps
<1> QED BY <1>1, <1>2, PTL DEF ViewSpec

\* What the page shows of a policy is so, although its parts are read by different
\* calls: a settled policy is shown as it settled, an active one without proceeds and
\* with the value of a block no older than the one shown.
THEOREM ViewsTellTheTruth == ViewSpec => []ViewIsTruthful
<1>1. ViewInv => ViewIsTruthful
  BY DEF ViewInv, PageSound, ViewSound, ViewIsTruthful
<1> QED BY <1>1, ViewInvariance, PTL

\* A policy is said not to exist, or not to be readable, only for a reason.
THEOREM AbsenceHasReason == ViewSpec => []AbsenceIsReal
<1>1. ViewInv => AbsenceIsReal
  BY DEF ViewInv, LoadsOrderly, AnswerSound, MayAnswer, AbsenceIsReal
<1> QED BY <1>1, ViewInvariance, PTL

\* The page never waits for an answer that is not under way.
THEOREM PageWaitsForSomething == ViewSpec => []WaitingIsReal
<1>1. ViewInv => WaitingIsReal
  BY DEF ViewInv
<1> QED BY <1>1, ViewInvariance, PTL

\* The answer of a load that no other overlapped takes the page forward.
THEOREM ViewsOnlyAdvance == ViewSpec => ViewsAdvance
<1>1. ASSUME ViewInv, NEW n \in 1..Slots, TakeAnswer(n), loads[n].alone, page.kind = "ready"
      PROVE  /\ page'.kind # "empty"
             /\ page'.kind = "ready" =>
                   /\ page'.view.block >= page.view.block
                   /\ page.view.status # "Active" =>
                         page'.view = [page.view EXCEPT !.block = page'.view.block]
  <2>1. loads[n].stage = "answered" /\ page' = loads[n].answer
    BY <1>1 DEF TakeAnswer, Finish
  <2>2. MayAnswer(n, loads[n].answer)
    BY <1>1, <2>1 DEF ViewInv, LoadsOrderly, AnswerSound
  <2> QED BY <1>1, <2>1, <2>2 DEF MayAnswer, Advances
<1>2. ViewInv /\ [ViewNext]_viewVars =>
        [\A n \in 1..Slots : (TakeAnswer(n) /\ loads[n].alone /\ page.kind = "ready") =>
           /\ page'.kind # "empty"
           /\ page'.kind = "ready" =>
                 /\ page'.view.block >= page.view.block
                 /\ page.view.status # "Active" =>
                       page'.view = [page.view EXCEPT !.block = page'.view.block]]_viewVars
  BY <1>1
<1> QED BY <1>2, ViewInvariance, PTL DEF ViewSpec, ViewsAdvance
=============================================================================
