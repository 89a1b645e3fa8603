--------------------------- MODULE GuardianProcess ---------------------------
(***************************************************************************)
(* The guardian as a service (main.ts): it loads its state file, serves    *)
(* its health endpoint, runs cycles until it is told to stop, and is       *)
(* started again.  What a cycle does to one policy is the module Guardian; *)
(* here a cycle is the order of its steps, which of them may end it, and   *)
(* when its success is reported.                                           *)
(*                                                                         *)
(* Time is counted in poll intervals.  Any number of them may pass in any  *)
(* step; the wait between two cycles lasts one.                            *)
(***************************************************************************)
EXTENDS Integers, FiniteSetsExt

CONSTANTS PolicyIds,   \* policies that may be tracked
          Broken,      \* those that cannot be evaluated: every read fails
          Attempts,    \* retryAttempts
          MinStale,    \* the least age at which readiness is withdrawn
          MaxLag,      \* bound: finalized blocks to read, counted up to here
          MaxSignals   \* bound: SIGINT and SIGTERM received

ASSUME ProcessAssumption ==
    /\ PolicyIds \subseteq Nat \ {0} /\ Broken \subseteq PolicyIds
    /\ Attempts \in 1..10 /\ MinStale \in Nat
    /\ MaxLag \in Nat /\ MaxSignals \in Nat

VARIABLES pc,       \* the await the process is in, or down
          aborted,  \* the controller's signal
          ready,    \* markReady was called: the first cycle succeeded
          age,      \* since lastSuccessfulCycleTimestampSeconds, up to Stale
          timer,    \* what is left of the wait
          tracked,  \* state.policies
          queue,    \* policies of this cycle still to visit
          lag,      \* finalized blocks the index in memory lacks
          toRead,   \* of these, the ones this sync is to read
          attempt,  \* of withRetry around sync
          saving,   \* whose save is under way
          file,     \* the state file
          temp,     \* the file beside it that a save writes first
          signals

cycleVars == <<tracked, queue, lag, toRead, attempt>>
fileVars == <<saving, file, temp>>
processVars == <<pc, aborted, ready, age, timer, cycleVars, fileVars, signals>>

PollInterval == 1

\* staleAfterSeconds, in poll intervals.
StaleAfter == Max({MinStale, 5 * PollInterval})
Stale == StaleAfter + 1

ProcessInit ==
    /\ pc = "down" /\ aborted = FALSE /\ ready = FALSE /\ age = Stale /\ timer = 0
    /\ tracked = {} /\ queue = {} /\ lag = 0 /\ toRead = 0 /\ attempt = 1
    /\ saving = "none" /\ file \in {"missing", "whole", "corrupt"} /\ temp = "none"
    /\ signals = 0

\* What GET /readyz answers with 200.
Serving == pc \notin {"down", "load", "listen", "close"}
Readyz == Serving /\ ready /\ age <= StaleAfter

-----------------------------------------------------------------------------
(* runGuardian: start and stop.                                             *)

\* The process is gone and what it held with it; temp is what is left there.
Ends(left) ==
    /\ pc' = "down" /\ aborted' = FALSE /\ ready' = FALSE /\ age' = Stale /\ timer' = 0
    /\ tracked' = {} /\ queue' = {} /\ lag' = 0 /\ toRead' = 0 /\ attempt' = 1
    /\ saving' = "none" /\ temp' = left
    /\ UNCHANGED file

Start == /\ pc = "down"
         /\ pc' = "load"
         /\ UNCHANGED <<aborted, ready, age, timer, cycleVars, fileVars, signals>>

\* The operator takes a damaged file away.
Replace == /\ pc = "down" /\ file = "corrupt"
           /\ file' = "missing"
           /\ UNCHANGED <<pc, aborted, ready, age, timer, cycleVars, saving, temp, signals>>

\* Mutant: a file that cannot be parsed counts as missing.
LoadAnything ==
    /\ pc = "load"
    /\ pc' = "listen"
    /\ \E indexed \in SUBSET PolicyIds : tracked' = IF file = "whole" THEN indexed ELSE {}
    /\ lag' = MaxLag
    /\ UNCHANGED <<aborted, ready, age, timer, queue, toRead, attempt, fileVars, signals>>

\* initialize: no file is an empty state, one that cannot be parsed ends the process.
\* What a file holds is the index of some earlier moment.
LoadState ==
    \/ /\ pc = "load" /\ file # "corrupt"
       /\ pc' = "listen"
       /\ \E indexed \in SUBSET PolicyIds : tracked' = IF file = "whole" THEN indexed ELSE {}
       /\ lag' = MaxLag
       /\ UNCHANGED <<aborted, ready, age, timer, queue, toRead, attempt, fileVars, signals>>
    \/ /\ pc = "load" /\ file = "corrupt"
       /\ Ends(temp) /\ UNCHANGED signals

\* The condition of both loops.
Again == IF aborted THEN "close" ELSE "head"

\* Another process may have the port.
Listen == \/ /\ pc = "listen"
             /\ pc' = Again /\ attempt' = 1
             /\ UNCHANGED <<aborted, ready, age, timer, tracked, queue, lag, toRead,
                            fileVars, signals>>
          \/ /\ pc = "listen"
             /\ Ends(temp) /\ UNCHANGED signals

\* health.stop, then the process ends by itself.
Close == pc = "close" /\ Ends(temp) /\ UNCHANGED signals

\* The first signal aborts, and a wait that has begun hears it.  There is no handler
\* for a second one: it ends the process where it is.
Signal ==
    /\ pc # "down" /\ signals < MaxSignals
    /\ signals' = signals + 1
    /\ IF aborted
       THEN \E left \in IF pc = "write" THEN {temp, "partial"} ELSE {temp} : Ends(left)
       ELSE /\ aborted' = TRUE
            /\ timer' = IF pc = "wait" THEN 0 ELSE timer
            /\ UNCHANGED <<pc, ready, age, cycleVars, fileVars>>

-----------------------------------------------------------------------------
(* The cycle.                                                               *)

\* Time passes, and blocks become final.
Tick == /\ age' = IF age < Stale THEN age + 1 ELSE age
        /\ timer' = IF timer > 0 THEN timer - 1 ELSE timer
        /\ UNCHANGED <<pc, aborted, ready, cycleVars, fileVars, signals>>

BlockFinal == /\ pc # "down" /\ lag < MaxLag
              /\ lag' = lag + 1
              /\ UNCHANGED <<pc, aborted, ready, age, timer, tracked, queue, toRead, attempt,
                             fileVars, signals>>

\* The wait after a cycle; a signal that was aborted before is not heard in it.
Waits == pc' = "wait" /\ timer' = PollInterval

\* Mutant: a cycle that failed is dated like one that did not.
CycleFailsDated == Waits /\ ready' = ready /\ age' = 0

CycleFails == Waits /\ UNCHANGED <<ready, age>>

ReadHead == /\ pc = "head"
            /\ toRead' = lag
            /\ pc' = "logs"
            /\ UNCHANGED <<aborted, ready, age, timer, tracked, queue, lag, attempt, fileVars,
                           signals>>

\* A batch: policies are opened and closed, in memory, and the index is saved.
ReadLogs ==
    /\ pc = "logs" /\ toRead > 0
    /\ toRead' = toRead - 1 /\ lag' = lag - 1
    /\ \E opened, closed \in SUBSET PolicyIds : tracked' = (tracked \cup opened) \ closed
    /\ pc' = "write" /\ saving' = "index"
    /\ UNCHANGED <<aborted, ready, age, timer, queue, attempt, file, temp, signals>>

SyncDone == /\ pc = "logs" /\ toRead = 0
            /\ queue' = tracked
            /\ pc' = "next"
            /\ UNCHANGED <<aborted, ready, age, timer, tracked, lag, toRead, attempt, fileVars,
                           signals>>

\* Mutant: sync is tried again without end.
SyncThrowsForever ==
    /\ pc' = "head"
    /\ UNCHANGED <<attempt, ready, age, timer>>

\* Mutant: a sync that failed is passed over.
SyncThrowsUnnoticed ==
    /\ pc' = "next"
    /\ UNCHANGED <<attempt, ready, age, timer>>

\* withRetry around sync, which starts again from the block it has reached.
SyncThrows ==
    \/ /\ attempt < Attempts
       /\ attempt' = attempt + 1 /\ pc' = "head"
       /\ UNCHANGED <<ready, age, timer>>
    \/ /\ attempt = Attempts
       /\ CycleFails /\ UNCHANGED attempt

\* A call of sync fails.
SyncFails == /\ pc \in {"head", "logs"}
             /\ SyncThrows
             /\ UNCHANGED <<aborted, tracked, queue, lag, toRead, fileVars, signals>>

\* Mutant: a policy that cannot be evaluated ends the cycle.
VisitOrThrow(id) ==
    /\ pc = "next" /\ id \in queue /\ \A other \in queue : id <= other
    /\ queue' = queue \ {id}
    /\ IF id \in Broken
       THEN CycleFails /\ UNCHANGED <<tracked, saving>>
       ELSE /\ pc' = "next" /\ UNCHANGED <<tracked, saving, ready, age, timer>>
    /\ UNCHANGED <<aborted, lag, toRead, attempt, file, temp, signals>>

\* The next policy: nothing is to do or it cannot be evaluated; it is no longer
\* active and is dropped; or it is executed or resumed, which may drop it.
Visit(id) ==
    /\ pc = "next" /\ id \in queue /\ \A other \in queue : id <= other
    /\ queue' = queue \ {id}
    /\ \/ pc' = "next" /\ UNCHANGED <<tracked, saving>>
       \/ /\ id \notin Broken
          /\ pc' = "write" /\ saving' = "deletion" /\ tracked' = tracked \ {id}
       \/ /\ id \notin Broken
          /\ pc' = "write" /\ saving' = "execution" /\ tracked' \in {tracked, tracked \ {id}}
    /\ UNCHANGED <<aborted, ready, age, timer, lag, toRead, attempt, file, temp, signals>>

\* The end of runOnce, and of waitUntilReady when it is the first.
CycleDone ==
    /\ pc = "next" /\ queue = {}
    /\ age' = 0 /\ ready' = TRUE /\ attempt' = 1
    /\ IF ready THEN Waits ELSE pc' = Again /\ UNCHANGED timer
    /\ UNCHANGED <<aborted, tracked, queue, lag, toRead, fileVars, signals>>

WaitOver == /\ pc = "wait" /\ timer = 0
            /\ pc' = Again /\ attempt' = 1 /\ queue' = {}
            /\ UNCHANGED <<aborted, ready, age, timer, tracked, lag, toRead, fileVars, signals>>

-----------------------------------------------------------------------------
(* FileGuardianStateStore.save.                                             *)

\* Mutant: the state is written over the old one.
WriteInPlace == /\ pc = "write"
                /\ pc' = "rename" /\ file' = "corrupt" /\ temp' = "whole"
                /\ UNCHANGED <<aborted, ready, age, timer, cycleVars, saving, signals>>

\* The file beside: one that was left there is written over.
Write == /\ pc = "write"
         /\ pc' = "rename" /\ temp' = "whole"
         /\ UNCHANGED <<aborted, ready, age, timer, cycleVars, saving, file, signals>>

Rename == /\ pc = "rename"
          /\ file' = IF temp = "whole" THEN "whole" ELSE "corrupt"
          /\ temp' = "none"
          /\ pc' = IF saving = "index" THEN "logs" ELSE "next"
          /\ saving' = "none"
          /\ UNCHANGED <<aborted, ready, age, timer, cycleVars, signals>>

\* The file beside is removed.  The executor catches the failure; runOnce does not.
SaveFails ==
    /\ pc \in {"write", "rename"}
    /\ temp' = "none" /\ saving' = "none"
    /\ CASE saving = "index" -> SyncThrows
         [] saving = "deletion" -> CycleFails /\ UNCHANGED attempt
         [] OTHER -> pc' = "next" /\ UNCHANGED <<ready, age, timer, attempt>>
    /\ UNCHANGED <<aborted, tracked, queue, lag, toRead, file, signals>>

-----------------------------------------------------------------------------

Works == \/ LoadState \/ Listen \/ Close
         \/ ReadHead \/ ReadLogs \/ SyncDone \/ CycleDone \/ WaitOver
         \/ \E id \in PolicyIds : Visit(id)
         \/ Write \/ Rename
Fails == SyncFails \/ SaveFails

ProcessNext == Start \/ Works \/ Fails \/ Signal \/ Replace \/ Tick \/ BlockFinal

\* Time passes and every await of a running process ends, one way or the other.
ProcessSpec == /\ ProcessInit /\ [][ProcessNext]_processVars
               /\ WF_processVars(Tick) /\ WF_processVars(Works \/ Fails)

-----------------------------------------------------------------------------
(* Properties.                                                              *)

\* Types; withRetry makes no more attempts than it is told (retry.ts:16).
ProcessTypeOK ==
    /\ aborted \in BOOLEAN /\ ready \in BOOLEAN /\ age \in 0..Stale /\ timer \in 0..PollInterval
    /\ queue \subseteq PolicyIds /\ tracked \subseteq PolicyIds
    /\ lag \in 0..MaxLag /\ toRead \in 0..lag
    /\ attempt \in 1..Attempts
    /\ file \in {"missing", "whole", "corrupt"} /\ temp \in {"none", "partial", "whole"}

\* Policies are visited only when the index has reached the block that the cycle read
\* as final, whatever failed before (monitor.ts:70-102, runner.ts:51-56).
VisitsAreUpToDate == pc = "next" => toRead = 0

\* No failure and no end of the process damages the state file, and one that was
\* damaged is kept as it is until the operator takes it away (store.ts:118-143; the
\* runbook, docs/runbooks/GUARDIAN.md:62-67, wants it preserved).
FileStaysAsItWas == [][(file = "corrupt") = (file' = "corrupt") \/ Replace]_processVars

\* A process that is told to stop does, even when the signal comes in the middle of a
\* cycle, where the wait that follows does not hear it (runner.ts:133-145).
StopsWhenAborted == aborted ~> pc = "down"

\* A guardian whose cycles keep failing does not stay ready (health.ts:37-43,
\* runner.ts:104).
ReadyIsEarned == []<>Readyz => []<><<CycleDone>>_processVars

\* A policy that stays tracked is visited again and again, unless sync or saves keep
\* failing: one before it that can never be evaluated does not keep the cycle from it
\* (runner.ts:66-81).
EveryPolicyVisited ==
    \A id \in PolicyIds :
        <>[](id \in tracked) /\ <>[][~ Fails]_processVars => []<><<Visit(id)>>_processVars

=============================================================================
