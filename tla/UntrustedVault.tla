--------------------------- MODULE UntrustedVault ---------------------------
(***************************************************************************)
(* ProtectionManager.sol from inside: the calls it makes to a vault in the *)
(* middle of an opening or an exit.  One vault is honest; the other is     *)
(* allowed too, but while it is called it may spend what it holds, use     *)
(* what it was approved for, call the manager again, answer anything or    *)
(* revert, as in test/ProtectionManagerAdversarial.t.sol.                  *)
(*                                                                         *)
(* A call of the manager is a frame on the stack, which remembers the      *)
(* state to go back to when it reverts.  When and by whom a policy may be  *)
(* settled, and prices, are in ProtectionManager; here a share of the      *)
(* honest vault is worth one and any exit may be asked for.                *)
(***************************************************************************)
EXTENDS Integers, Sequences, SequencesExt

CONSTANTS Owner,          \* opens the policies
          Beneficiary,    \* of all of them
          Treasury, Manager, Honest, Untrusted,
          Funds,          \* what the owner has at first
          Fee,            \* protectionFeeAssets
          Principals,     \* bound: principals of openings
          Minimums,       \* bound: minimumAssets of exits
          Reports,        \* bound: shares the untrusted vault says it issued
          MaxPolicies,    \* bound: policies opened
          MaxDepth        \* bound: calls of the manager within each other

Vaults == {Honest, Untrusted}
Accounts == {Owner, Beneficiary, Treasury, Manager} \cup Vaults

ASSUME UntrustedAssumption ==
    /\ Fee \in Nat /\ Funds \in Nat
    /\ Manager \notin {Owner, Beneficiary, Treasury} \cup Vaults
    /\ Honest # Untrusted /\ Owner \notin Vaults
    /\ Beneficiary \notin Vaults \cup {Owner}   \* it receives, and spends nothing here
    /\ Principals \subseteq Nat \ {0} /\ Minimums \subseteq Nat /\ Reports \subseteq Nat
    /\ MaxPolicies \in Nat /\ MaxDepth \in Nat \ {0}

VARIABLES world,   \* the storage of the token, the manager and the honest vault
          stack    \* the calls of the manager under way, the last one on top

untrustedVars == <<world, stack>>

Move(ledger, from, to, amount) ==
    IF from = to THEN ledger ELSE [ledger EXCEPT ![from] = @ - amount, ![to] = @ + amount]

UntrustedInit ==
    /\ world = [usdc |-> [a \in Accounts |-> IF a = Owner THEN Funds ELSE 0],
                allowance |-> [v \in Vaults |-> 0],   \* from the manager
                policies |-> <<>>,
                active |-> [v \in Vaults |-> 0],      \* activeSharesByVault
                custody |-> 0,                        \* its shares of the honest vault
                entered |-> FALSE]                    \* ReentrancyGuard
    /\ stack = <<>>

Idle == stack = <<>>
Top == Last(stack)

\* The untrusted vault has control: in a call, or by a transaction of its own.
UntrustedActs == IF Idle THEN TRUE ELSE Top.vault = Untrusted

\* What the chain holds when no transaction is under way or the present one reverts.
Committed == IF Idle THEN world ELSE stack[1].saved

\* Mutant: the modifier is missing.
MayEnterAgain == TRUE

\* nonReentrant, for a caller that has control.
MayEnter == ~ world.entered

Enters(w, call, vault, id, amount) ==
    /\ world' = w
    /\ stack' = Append(stack, [call |-> call, vault |-> vault, id |-> id, amount |-> amount,
                               balance |-> world.usdc[Beneficiary],
                               custody |-> world.custody, saved |-> world])

Leaves(w) == world' = w /\ stack' = Front(stack)

-----------------------------------------------------------------------------
(* The manager, up to its call of the vault.                                *)

\* Mutant: the vault is approved for the fee as well.
OpenApprovingTotal(vault, principal) ==
    LET sender == IF Idle THEN Owner ELSE Top.vault
    IN /\ UntrustedActs /\ MayEnter
       /\ Len(stack) < MaxDepth /\ Len(world.policies) < MaxPolicies
       /\ principal + Fee <= world.usdc[sender]
       /\ Enters([world EXCEPT
                    !.usdc = Move(Move(@, sender, Manager, principal + Fee),
                                  Manager, Treasury, Fee),
                    !.allowance[vault] = principal + Fee,
                    !.entered = TRUE], "open", vault, 0, principal)

\* openPolicy: principal and fee come in, the fee goes out, the vault is approved for
\* the principal.
Open(vault, principal) ==
    LET sender == IF Idle THEN Owner ELSE Top.vault
    IN /\ UntrustedActs /\ MayEnter
       /\ Len(stack) < MaxDepth /\ Len(world.policies) < MaxPolicies
       /\ principal + Fee <= world.usdc[sender]
       /\ Enters([world EXCEPT
                    !.usdc = Move(Move(@, sender, Manager, principal + Fee),
                                  Manager, Treasury, Fee),
                    !.allowance[vault] = principal,
                    !.entered = TRUE], "open", vault, 0, principal)

\* Mutant: the policy is settled only when the vault has answered, if at all.
ExitStillActive(id, minimum) ==
    /\ UntrustedActs /\ MayEnter /\ Len(stack) < MaxDepth
    /\ id <= Len(world.policies) /\ world.policies[id].status = "Active"
    /\ LET policy == world.policies[id]
       IN Enters([world EXCEPT !.active[policy.vault] = @ - policy.shares,
                               !.entered = TRUE], "exit", policy.vault, id, minimum)

\* _exitPolicy: the policy is settled and its shares are no longer counted before the
\* vault is called.
Exit(id, minimum) ==
    /\ UntrustedActs /\ MayEnter /\ Len(stack) < MaxDepth
    /\ id <= Len(world.policies) /\ world.policies[id].status = "Active"
    /\ LET policy == world.policies[id]
       IN Enters([world EXCEPT !.policies[id].status = "Closed",
                               !.active[policy.vault] = @ - policy.shares,
                               !.entered = TRUE], "exit", policy.vault, id, minimum)

-----------------------------------------------------------------------------
(* The vault, while it is called.                                           *)

\* What the untrusted vault does: spend what is its own, take what it may.
Spend(to, amount) ==
    /\ UntrustedActs /\ amount <= world.usdc[Untrusted]
    /\ world' = [world EXCEPT !.usdc = Move(@, Untrusted, to, amount)]
    /\ UNCHANGED stack

Take(amount) ==
    /\ UntrustedActs
    /\ amount <= world.allowance[Untrusted] /\ amount <= world.usdc[Manager]
    /\ world' = [world EXCEPT !.usdc = Move(@, Manager, Untrusted, amount),
                              !.allowance[Untrusted] = @ - amount]
    /\ UNCHANGED stack

\* What the honest vault does: take the principal for as many shares, or pay for them.
Served == IF Top.call = "open"
          THEN [world EXCEPT !.usdc = Move(@, Manager, Honest, Top.amount),
                             !.allowance[Honest] = @ - Top.amount,
                             !.custody = @ + Top.amount]
          ELSE LET shares == world.policies[Top.id].shares
               IN [world EXCEPT !.usdc = Move(@, Honest, Beneficiary, shares),
                                !.custody = @ - shares]

-----------------------------------------------------------------------------
(* The manager, when the vault has answered.                                *)

\* Mutant: the allowance that was not used is left.
OpenedStillApproved(w, report) ==
    LET shares == IF Top.vault = Honest THEN w.custody - Top.custody ELSE report
        opened == [w EXCEPT
                     !.policies = Append(@, [vault |-> Top.vault, shares |-> shares,
                                             minimum |-> 0, status |-> "Active",
                                             returned |-> 0]),
                     !.active[Top.vault] = @ + shares,
                     !.entered = FALSE]
    IN /\ report = shares /\ 1 <= shares
       /\ Top.vault = Honest => opened.active[Honest] <= opened.custody
       /\ Leaves(opened)

\* The rest of openPolicy.  The untrusted vault reports its balances as it likes, so
\* it passes every check of them.
Opened(w, report) ==
    LET shares == IF Top.vault = Honest THEN w.custody - Top.custody ELSE report
        opened == [w EXCEPT
                     !.allowance[Top.vault] = 0,
                     !.policies = Append(@, [vault |-> Top.vault, shares |-> shares,
                                             minimum |-> 0, status |-> "Active",
                                             returned |-> 0]),
                     !.active[Top.vault] = @ + shares,
                     !.entered = FALSE]
    IN /\ report = shares /\ 1 <= shares
       /\ Top.vault = Honest => opened.active[Honest] <= opened.custody
       /\ Leaves(opened)

\* Mutant: what the vault reports is believed.
ExitedAsReported(w, report) ==
    LET policy == w.policies[Top.id]
        exited == [w EXCEPT !.policies[Top.id] = [policy EXCEPT !.returned = report,
                                                                !.minimum = Top.amount],
                            !.entered = FALSE]
    IN /\ Top.amount <= report
       /\ Leaves(exited)

\* Mutant: the guard is not released.
ExitedStillEntered(w, report) ==
    LET policy == w.policies[Top.id]
        returned == w.usdc[Beneficiary] - Top.balance
        exited == [w EXCEPT !.policies[Top.id] = [policy EXCEPT !.returned = returned,
                                                                !.minimum = Top.amount]]
    IN /\ report = returned /\ Top.amount <= returned
       /\ Leaves(exited)

\* The rest of _exitPolicy: what the beneficiary gained since is what was reported and
\* no less than the minimum, and the policy's shares are gone.
Exited(w, report) ==
    LET policy == w.policies[Top.id]
        returned == w.usdc[Beneficiary] - Top.balance
        exited == [w EXCEPT !.policies[Top.id] = [policy EXCEPT !.returned = returned,
                                                                !.minimum = Top.amount],
                            !.entered = FALSE]
    IN /\ report = returned /\ Top.amount <= returned
       /\ Top.vault = Honest => /\ Top.custody - w.custody = policy.shares
                                /\ exited.active[Honest] <= exited.custody
       /\ Leaves(exited)

Answered(w, report) == IF Top.call = "open" THEN Opened(w, report) ELSE Exited(w, report)

HonestAnswers == /\ ~ Idle /\ Top.vault = Honest
                 /\ Answered(Served, IF Top.call = "open" THEN Top.amount
                                                          ELSE world.policies[Top.id].shares)

UntrustedAnswers == /\ ~ Idle /\ Top.vault = Untrusted
                    /\ \E report \in Reports : Answered(world, report)

\* A check fails, or the vault reverts: nothing that the call did remains.  Whoever
\* called the manager goes on.
Reverts == /\ ~ Idle
           /\ \/ Top.vault = Untrusted
              \/ Top.call = "exit" /\ world.policies[Top.id].shares < Top.amount
           /\ Leaves(Top.saved)

\* Anybody may send the manager assets.
Gift == /\ Idle /\ 0 < world.usdc[Owner]
        /\ world' = [world EXCEPT !.usdc = Move(@, Owner, Manager, 1)]
        /\ UNCHANGED stack

-----------------------------------------------------------------------------

Ends == HonestAnswers \/ UntrustedAnswers \/ Reverts

UntrustedNext ==
    \/ \E vault \in Vaults, principal \in Principals : Open(vault, principal)
    \/ \E id \in 1..MaxPolicies, minimum \in Minimums : Exit(id, minimum)
    \/ \E to \in {Beneficiary, Owner} : Spend(to, 1)
    \/ Take(1)
    \/ Gift
    \/ Ends

\* A transaction ends (gas is finite), and whoever asks for an exit without a minimum
\* is served in the end.
UntrustedSpec == /\ UntrustedInit /\ [][UntrustedNext]_untrustedVars
                 /\ WF_untrustedVars(Ends)
                 /\ \A id \in 1..MaxPolicies : SF_untrustedVars(Idle /\ Exit(id, 0))

-----------------------------------------------------------------------------
(* Properties.                                                              *)

Ids(w) == 1..Len(w.policies)

\* Types; no balance, allowance or count goes below zero, in the middle of a call or
\* after it, and no call of the manager is inside another.
UntrustedTypeOK ==
    /\ world.usdc \in [Accounts -> Nat] /\ world.allowance \in [Vaults -> Nat]
    /\ world.active \in [Vaults -> Nat] /\ world.custody \in Nat
    /\ \A id \in Ids(world) : /\ world.policies[id].vault \in Vaults
                              /\ world.policies[id].status \in {"Active", "Closed"}
                              /\ world.policies[id].shares \in Nat \ {0}
    /\ Len(stack) <= 1

\* What the policies are recorded to have returned was paid: no asset that the
\* beneficiary received is counted for two policies, however the calls of their exits
\* were nested, and none is counted that it did not receive
\* (ProtectionManager.sol:388-410).
PaidOnce ==
    LET w == Committed
    IN SumFunction([id \in Ids(w) |-> w.policies[id].returned]) <= w.usdc[Beneficiary]

\* What others sent to the manager cannot be taken from it: its balance never falls
\* from one transaction to the next (ProtectionManager.sol:352-354: the vault is approved
\* for the principal alone and only while it is called).
GiftsStay == [][Committed'.usdc[Manager] >= Committed.usdc[Manager]]_untrustedVars

\* The policies of the honest vault do not notice the other: their shares are counted
\* and held, and each that was closed returned what its shares were worth.
HonestPoliciesWhole ==
    LET w == Committed
        shares(id) == IF w.policies[id].vault = Honest /\ w.policies[id].status = "Active"
                      THEN w.policies[id].shares ELSE 0
    IN /\ w.active[Honest] = SumFunction([id \in Ids(w) |-> shares(id)])
       /\ w.active[Honest] <= w.custody /\ w.custody <= w.usdc[Honest]
       /\ \A id \in Ids(w) :
             (w.policies[id].vault = Honest /\ w.policies[id].status = "Closed") =>
                w.policies[id].returned = w.policies[id].shares

\* A policy of the honest vault can always be closed, and is, whatever the other vault
\* does in its calls (ReentrancyGuard is released by every way out).
HonestPoliciesClose ==
    \A id \in 1..MaxPolicies :
       (id <= Len(Committed.policies) /\ Committed.policies[id].vault = Honest) ~>
          (id <= Len(Committed.policies) /\ Committed.policies[id].status = "Closed")
=============================================================================
