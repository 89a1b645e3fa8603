----------------------------- MODULE PolicyView -----------------------------
(***************************************************************************)
(* What the monitor page shows of one policy: readPolicyFromArc, the       *)
(* endpoint that serves it, and the page that loads, polls and reloads.    *)
(*                                                                         *)
(* The chain is its history, one snapshot of the policy per block, and a   *)
(* call is answered by some block between the moment the request was sent  *)
(* and the moment its answer is put together.  Several loads may be in     *)
(* flight, and their answers arrive in any order.                          *)
(***************************************************************************)
EXTENDS Integers, Sequences, FiniteSetsExt

CONSTANTS RouteIds,     \* policy numbers a page is opened for, 0 for an invalid one
          Worth,        \* values a position may have, zero included
          Outcomes,     \* final statuses that occur
          MaxBlocks,    \* bound: height of the chain
          Slots         \* bound: loads in flight at a time

ASSUME ViewAssumption ==
    /\ RouteIds \subseteq Nat /\ Worth \subseteq Nat
    /\ Outcomes \subseteq {"Executed", "Cancelled", "Expired"}
    /\ MaxBlocks \in Nat \ {0} /\ Slots \in Nat \ {0}

VARIABLES chain,       \* the snapshot of each block
          routeId,     \* the page's policy number
          page,        \* LoadState: the last answer taken, or loading
          refreshing,
          loads        \* slot -> a load in flight

viewVars == <<chain, routeId, page, refreshing, loads>>

Height == Len(chain)
Latest == chain[Height]

NoView == [status |-> "None", current |-> 0, returned |-> 0, block |-> 0]

\* An answer: 200 with a view, 404 (empty) or anything else (degraded).  failed
\* is for the properties: whether something other than the chain's own state is
\* the reason.
Answer(kind, view, failed) == [kind |-> kind, view |-> view, failed |-> failed]
Loading == Answer("loading", NoView, FALSE)

\* A load that was sent, and one that is answered.  existed and alone are for the
\* properties: whether the policy was open when the page asked, and whether no other
\* load overlapped with this one.
Free == [stage |-> "free"]
InFlight(n) == loads[n].stage # "free"

Sent(quiet, alone) ==
    [stage |-> "sent", quiet |-> quiet, sentAt |-> Height, answer |-> Loading,
     existed |-> Latest.status # "None", alone |-> alone]

ViewInit ==
    /\ chain = <<[next |-> 1, status |-> "None", assets |-> 0]>>
    /\ routeId \in RouteIds
    /\ page = Loading
    /\ refreshing = FALSE
    /\ loads = [n \in 1..Slots |-> IF n = 1 THEN Sent(FALSE, TRUE) ELSE Free]

-----------------------------------------------------------------------------
(* The chain: the policy is opened when the counter reaches its number, its *)
(* value moves, and it settles once.                                        *)

Mined(snapshot) == /\ Height < MaxBlocks
                   /\ chain' = Append(chain, snapshot)
                   /\ UNCHANGED <<routeId, page, refreshing, loads>>

OpenNext == \E worth \in Worth :
    Mined(IF Latest.next = routeId
          THEN [next |-> Latest.next + 1, status |-> "Active", assets |-> worth]
          ELSE [Latest EXCEPT !.next = @ + 1])

MoveValue == /\ Latest.status = "Active"
             /\ \E worth \in Worth \ {Latest.assets} : Mined([Latest EXCEPT !.assets = worth])

Settle == /\ Latest.status = "Active"
          /\ \E outcome \in Outcomes : Mined([Latest EXCEPT !.status = outcome])

-----------------------------------------------------------------------------
(* readPolicyFromArc and the endpoint.                                      *)

Failed == 0     \* in the place of a block: the call failed

\* assertPolicyExists: whether it throws for a counter that was read.
Missing(nextAt) == nextAt # Failed /\ chain[nextAt].next <= routeId

\* getPolicyValue: zero for a policy that is not active.
ValueAt(h) == IF chain[h].status = "Active" THEN chain[h].assets ELSE 0

\* toPolicyView, as far as status and amounts go.
ToPolicyView(policy, currentAssets, observedBlock) ==
    [status |-> policy.status, current |-> currentAssets,
     returned |-> IF policy.status = "Active" THEN 0 ELSE policy.assets,
     block |-> observedBlock]

\* The answers a call may get when it is made at height h.
CallsFrom(h) == (h..Height) \cup {Failed}

\* Mutant: the value is asked for whatever the status.
CurrentAssetsAlways(policyAt, blockAt, doneAt) ==
    {IF valueAt = Failed THEN Answer("degraded", NoView, TRUE)
     ELSE Answer("ready", ToPolicyView(chain[policyAt], ValueAt(valueAt), blockAt), FALSE) :
       valueAt \in CallsFrom(doneAt)}

\* Mutant: the value is asked for together with the rest.
CurrentAssetsTogether(policyAt, blockAt, doneAt) ==
    LET policy == chain[policyAt]
    IN {Answer("ready", ToPolicyView(policy, IF policy.status = "Active" THEN ValueAt(valueAt)
                                             ELSE policy.assets, blockAt), FALSE) :
          valueAt \in policyAt..Height}

\* The value of an active policy is a fourth call, made when the others are done at
\* doneAt, and may fail too; for a settled policy it is the proceeds.
CurrentAssets(policyAt, blockAt, doneAt) ==
    LET policy == chain[policyAt]
    IN IF policy.status # "Active"
       THEN {Answer("ready", ToPolicyView(policy, policy.assets, blockAt), FALSE)}
       ELSE {IF valueAt = Failed THEN Answer("degraded", NoView, TRUE)
             ELSE Answer("ready", ToPolicyView(policy, ValueAt(valueAt), blockAt), FALSE) :
               valueAt \in CallsFrom(doneAt)}

\* Mutant: a policy that cannot be read is reported as missing.
ReadMissingOnError(policyAt, nextAt, blockAt) ==
    LET failed == Failed \in {policyAt, nextAt, blockAt}
    IN IF Missing(nextAt) \/ failed THEN {Answer("empty", NoView, failed)}
       ELSE CurrentAssets(policyAt, blockAt, Max({policyAt, nextAt, blockAt}))

\* Mutant: failures are looked at before the counter.
ReadFailuresFirst(policyAt, nextAt, blockAt) ==
    LET failed == Failed \in {policyAt, nextAt, blockAt}
    IN CASE failed -> {Answer("degraded", NoView, failed)}
         [] ~ failed /\ chain[policyAt].status = "None" -> {Answer("degraded", NoView, failed)}
         [] OTHER -> CurrentAssets(policyAt, blockAt, Max({policyAt, nextAt, blockAt}))

\* Three calls in parallel: getPolicy, which reverts for a policy that is not
\* open, nextPolicyId and the block number.  The counter is looked at first.
ReadPolicyFromArc(policyAt, nextAt, blockAt) ==
    LET failed == Failed \in {policyAt, nextAt, blockAt}
    IN CASE Missing(nextAt) -> {Answer("empty", NoView, failed)}
         [] ~ Missing(nextAt) /\ (failed \/ chain[policyAt].status = "None") ->
               {Answer("degraded", NoView, failed)}
         [] OTHER -> CurrentAssets(policyAt, blockAt, Max({policyAt, nextAt, blockAt}))

\* Mutant: a node that is one block behind may answer.
AnsweringBehind(n) == CallsFrom(Max({1, loads[n].sentAt - 1}))

\* What the calls of a load may be answered with: a block since it was sent.
Answering(n) == CallsFrom(loads[n].sentAt)

\* What a load may be answered.  The endpoint rejects what is not a positive number
\* without a call.
Answers(n) ==
    IF routeId < 1 THEN {Answer("degraded", NoView, FALSE)}
    ELSE UNION {ReadPolicyFromArc(policyAt, nextAt, blockAt) :
                   policyAt, nextAt, blockAt \in Answering(n)}

Respond(n, answer) ==
    /\ loads[n].stage = "sent"
    /\ loads' = [loads EXCEPT ![n].stage = "answered", ![n].sentAt = 0, ![n].answer = answer]
    /\ UNCHANGED <<chain, routeId, page, refreshing>>

-----------------------------------------------------------------------------
(* The page.                                                                *)

\* load: one that is not quiet replaces what is shown.
Load(quiet) ==
    LET alone == \A n \in 1..Slots : ~ InFlight(n)
    IN \E n \in 1..Slots :
          /\ ~ InFlight(n) /\ \A m \in 1..(n - 1) : InFlight(m)
          /\ loads' = [m \in 1..Slots |->
                          IF m = n THEN Sent(quiet, alone)
                          ELSE IF InFlight(m) THEN [loads[m] EXCEPT !.alone = FALSE]
                          ELSE loads[m]]
          /\ page' = IF quiet THEN page ELSE Loading
          /\ refreshing' = quiet
          /\ UNCHANGED <<chain, routeId>>

\* Every fifteen seconds, whatever is in flight.
Poll == Load(TRUE)

\* The button beside a policy that is shown, unless it spins.
Refresh == page.kind = "ready" /\ ~ refreshing /\ Load(TRUE)

\* The button of a page that could not read.
Retry == page.kind = "degraded" /\ Load(FALSE)

\* Mutant: a missing policy returns before the flag is reset.
FinishEarlyReturn(n, answer) ==
    /\ page' = answer
    /\ refreshing' = (answer.kind = "empty" /\ refreshing)
    /\ loads' = [loads EXCEPT ![n] = Free]
    /\ UNCHANGED <<chain, routeId>>

\* Mutant: a policy once shown as active is not replaced.
FinishOnce(n, answer) ==
    /\ page' = IF page.view.status = "Active" THEN page ELSE answer
    /\ refreshing' = FALSE
    /\ loads' = [loads EXCEPT ![n] = Free]
    /\ UNCHANGED <<chain, routeId>>

\* Any answer is shown, whichever load it belongs to.
Finish(n, answer) ==
    /\ page' = answer
    /\ refreshing' = FALSE
    /\ loads' = [loads EXCEPT ![n] = Free]
    /\ UNCHANGED <<chain, routeId>>

TakeAnswer(n) == loads[n].stage = "answered" /\ Finish(n, loads[n].answer)

\* The endpoint cannot be reached, or its answer is lost.
LoseAnswer(n) == InFlight(n) /\ Finish(n, Answer("degraded", NoView, TRUE))

ChainStep == OpenNext \/ MoveValue \/ Settle
Serve(n) == loads[n].stage = "sent" /\ \E answer \in Answers(n) : Respond(n, answer)

ViewNext == \/ ChainStep \/ Poll \/ Refresh \/ Retry
            \/ \E n \in 1..Slots : Serve(n) \/ TakeAnswer(n) \/ LoseAnswer(n)

ViewSpec == ViewInit /\ [][ViewNext]_viewVars

\* The timer fires, a load ends, and calls that are made again and again do not all fail.
ServeUnfailed == \E n \in 1..Slots :
    loads[n].stage = "sent" /\ \E answer \in Answers(n) : ~ answer.failed /\ Respond(n, answer)
TakeUnfailed == \E n \in 1..Slots :
    /\ loads[n].stage = "answered" /\ ~ loads[n].answer.failed
    /\ TakeAnswer(n)

FairViewSpec == /\ ViewSpec
                /\ WF_viewVars(Poll)
                /\ WF_viewVars(\E n \in 1..Slots : TakeAnswer(n) \/ LoseAnswer(n))
                /\ SF_viewVars(ServeUnfailed)
                /\ SF_viewVars(TakeUnfailed)

-----------------------------------------------------------------------------
(* Properties.                                                              *)

Settled == Latest.status \notin {"None", "Active"}

\* What is shown as settled is the policy's final state with its proceeds, which the
\* value shown equals; an active policy shows none returned, and a value it had at the
\* block shown beside it or later, zero if it had settled by then (policy-read-model.ts:
\* 108-119: the status, the block and the value are read by different calls).
ViewIsTruthful ==
    page.kind = "ready" =>
        LET view == page.view
        IN /\ view.block \in 1..Height
           /\ view.status # "Active" =>
                 /\ view.status = Latest.status
                 /\ view.returned = Latest.assets /\ view.current = view.returned
           /\ view.status = "Active" =>
                 /\ view.returned = 0
                 /\ \E h \in view.block..Height : /\ chain[h].status # "None"
                                                 /\ view.current = ValueAt(h)

\* An answer says that a policy does not exist only if it did not when the page asked,
\* and that it cannot be read only if a call failed, the number is invalid or the
\* policy was opened in between (policy-read-model.ts:102-107: getPolicy reverts for a
\* policy that does not exist, which by itself is a failed call).
AbsenceIsReal ==
    \A n \in 1..Slots : loads[n].stage = "answered" =>
        LET answer == loads[n].answer
        IN /\ answer.kind = "empty" => ~ loads[n].existed
           /\ answer.kind = "degraded" =>
                 \/ answer.failed \/ routeId < 1
                 \/ ~ loads[n].existed /\ Latest.status # "None"

\* The page waits only for something: it spins while a load is in flight, and shows
\* the skeleton while one that is not quiet is, whatever overlapped
\* (policy-monitor.tsx:20-47).
WaitingIsReal ==
    /\ refreshing => \E n \in 1..Slots : InFlight(n)
    /\ page.kind = "loading" => \E n \in 1..Slots : InFlight(n) /\ ~ loads[n].quiet

\* As long as loads do not overlap, what is shown only moves forward: the block does
\* not go down, a settled policy stays as it is and none that was shown is said not to
\* exist (policy-monitor.tsx:52-54: with overlapping loads the last answer wins).
ViewsAdvance == [][
    \A n \in 1..Slots : (TakeAnswer(n) /\ loads[n].alone /\ page.kind = "ready") =>
        /\ page'.kind # "empty"
        /\ page'.kind = "ready" =>
              /\ page'.view.block >= page.view.block
              /\ page.view.status # "Active" => page'.view = [page.view EXCEPT !.block = page'.view.block]
    ]_viewVars

\* A policy that has settled is shown as settled sooner or later, whatever answers
\* arrive late or are lost on the way (policy-monitor.tsx:54).
SettlementShown == (Settled /\ routeId > 0) ~> (page.kind = "ready" /\ page.view.status = Latest.status)

=============================================================================
