---------------------------- MODULE BlockRanges ----------------------------
(***************************************************************************)
(* reverseBlockRanges of apps/e2e: the windows, newest first, in which the *)
(* lifecycle runner searches the log for the opening it resumes.  A step   *)
(* is one turn of the loop.                                                *)
(***************************************************************************)
EXTENDS Integers, Sequences

CONSTANTS Blocks,  \* block numbers a search may start or end at
          Sizes    \* range sizes a search may ask for

ASSUME BlockAssumption == Blocks \subseteq Nat /\ Sizes \subseteq Int

VARIABLES minimumBlock, maximumBlock, maximumRangeSize,  \* the arguments
          toBlock, ranges,
          outcome                                        \* how the call ended

searchVars == <<minimumBlock, maximumBlock, maximumRangeSize, toBlock, ranges, outcome>>
arguments == <<minimumBlock, maximumBlock, maximumRangeSize>>

BlockRange == [fromBlock : Nat, toBlock : Nat]

SearchInit == /\ minimumBlock \in Blocks
              /\ maximumBlock \in Blocks
              /\ maximumRangeSize \in Sizes
              /\ toBlock = maximumBlock
              /\ ranges = <<>>
              /\ outcome = "running"

Reject == /\ outcome = "running" /\ maximumRangeSize < 1
          /\ outcome' = "rejected"
          /\ UNCHANGED <<arguments, toBlock, ranges>>

\* Nothing to search, or nothing left.
Finish == /\ outcome = "running" /\ maximumRangeSize >= 1 /\ toBlock < minimumBlock
          /\ outcome' = "returned"
          /\ UNCHANGED <<arguments, toBlock, ranges>>

\* Mutant: both ends are counted as one block.
FromBlockTooLow ==
    LET candidate == toBlock - maximumRangeSize
    IN IF candidate > minimumBlock THEN candidate ELSE minimumBlock

FromBlock ==
    LET candidate == toBlock - maximumRangeSize + 1
    IN IF candidate > minimumBlock THEN candidate ELSE minimumBlock

\* Mutant: the search ends when one block is left.
TurnStopsEarly ==
    /\ outcome = "running" /\ maximumRangeSize >= 1 /\ minimumBlock <= toBlock
    /\ ranges' = Append(ranges, [fromBlock |-> FromBlock, toBlock |-> toBlock])
    /\ IF FromBlock <= minimumBlock + 1
       THEN outcome' = "returned" /\ UNCHANGED toBlock
       ELSE toBlock' = FromBlock - 1 /\ UNCHANGED outcome
    /\ UNCHANGED arguments

Turn == /\ outcome = "running" /\ maximumRangeSize >= 1 /\ minimumBlock <= toBlock
        /\ ranges' = Append(ranges, [fromBlock |-> FromBlock, toBlock |-> toBlock])
        /\ IF FromBlock = minimumBlock
           THEN outcome' = "returned" /\ UNCHANGED toBlock
           ELSE toBlock' = FromBlock - 1 /\ UNCHANGED outcome
        /\ UNCHANGED arguments

SearchNext == Reject \/ Finish \/ Turn

SearchSpec == SearchInit /\ [][SearchNext]_searchVars

-----------------------------------------------------------------------------
(* Properties.                                                              *)

Within(block, range) == range.fromBlock <= block /\ block <= range.toBlock

\* No window is larger than the node accepts, none leaves the searched blocks,
\* and each lies wholly before the ones searched earlier, so that the first
\* hit is the most recent one and no block is searched twice.
WindowsDescend ==
    /\ \A i \in 1..Len(ranges) :
          /\ minimumBlock <= ranges[i].fromBlock /\ ranges[i].toBlock <= maximumBlock
          /\ ranges[i].fromBlock <= ranges[i].toBlock
          /\ ranges[i].toBlock - ranges[i].fromBlock < maximumRangeSize
    /\ \A i, j \in 1..Len(ranges) : i < j => ranges[j].toBlock < ranges[i].fromBlock

\* A search that returns has left out no block between its ends: an opening that
\* is in the log is found.
EveryBlockSearched ==
    outcome = "returned" =>
       \A block \in minimumBlock..maximumBlock :
          \E i \in 1..Len(ranges) : Within(block, ranges[i])

\* The search returns every block once, newest window first: the opening that is
\* in the log is found, and the most recent one is found first.
SearchedOnce == WindowsDescend /\ EveryBlockSearched

\* The lowest block searched so far.
Lowest == IF ranges = <<>> THEN maximumBlock + 1 ELSE ranges[Len(ranges)].fromBlock

\* The inductive invariant: the windows cover exactly the blocks from Lowest up,
\* and the loop goes on right below it.
LoopInv ==
    /\ minimumBlock \in Nat /\ maximumBlock \in Nat /\ maximumRangeSize \in Int
    /\ toBlock \in Int /\ ranges \in Seq(BlockRange)
    /\ outcome \in {"running", "returned", "rejected"}
    /\ outcome = "running" => toBlock = Lowest - 1
    /\ ranges # <<>> => minimumBlock <= Lowest
    /\ outcome = "returned" => Lowest <= minimumBlock \/ maximumBlock < minimumBlock
    /\ \A i \in 1..Len(ranges) : Lowest <= ranges[i].fromBlock
    /\ \A block \in Lowest..maximumBlock : \E i \in 1..Len(ranges) : Within(block, ranges[i])
    /\ WindowsDescend
=============================================================================
