---------------------- MODULE GovernancePowerDelegation ----------------------
(***************************************************************************)
(* GovernancePowerDelegationERC20 with the hook of StakedPSYSV3: who has   *)
(* the voting and the proposition power of the tokens, now and at a past   *)
(* block.  The contract is the one flattened into contracts/proposals/     *)
(* extend-stkaave-distribution/StakedTokenV2Rev3.sol; the hook is          *)
(* _beforeTokenTransfer of StakedPSYSV3.sol.                               *)
(*                                                                         *)
(* The module is the governance side of the token only: Mint, Burn and     *)
(* Transfer stand for whatever the token's own rules let happen to the     *)
(* balances, each with the hook that precedes it.  StakedPSYSV3.tla puts   *)
(* the two sides together.                                                 *)
(***************************************************************************)
EXTENDS Snapshots, LedgerTotal

CONSTANTS
    Accounts,           \* the addresses that may own tokens or receive power
    ZeroAddress,        \* address(0), the other side of a mint and of a burn
    DelegationTypes,    \* DelegationType: voting power and proposition power
    Amounts,
    FirstBlock,         \* the block of the deployment
    MaxSupply,          \* bound on the supply of the model
    MaxBlock            \* bound: the last block the model reaches

ASSUME GovernanceAssumption ==
    /\ ZeroAddress \notin Accounts
    /\ Amounts \subseteq Nat
    /\ IsFiniteSet(Accounts)
    /\ FirstBlock \in Nat
    /\ MaxSupply \in Nat
    /\ MaxBlock \in Nat

VARIABLES
    blockNumber,        \* block.number
    balances,           \* ERC20._balances
    delegates,          \* delegates[t][a]: whom a gave its power of type t
    snapshots           \* snapshots[t][d]: the powers of type t that d had

govVars == <<blockNumber, balances, delegates, snapshots>>

GovTypeOK ==
    /\ blockNumber \in Nat
    /\ balances \in [Accounts -> Nat]
    /\ delegates \in [DelegationTypes -> [Accounts -> Accounts \cup {ZeroAddress}]]
    /\ snapshots \in [DelegationTypes -> [Accounts -> Seq(Snapshot)]]

GovInit ==
    /\ blockNumber = FirstBlock
    /\ balances = [a \in Accounts |-> 0]
    /\ delegates = [t \in DelegationTypes |-> [a \in Accounts |-> ZeroAddress]]
    /\ snapshots = [t \in DelegationTypes |-> [a \in Accounts |-> <<>>]]

-----------------------------------------------------------------------------
\* _getDelegatee; address(0) has no delegate, and delegates to itself.
GetDelegatee(t, a) ==
    IF a = ZeroAddress \/ delegates[t][a] = ZeroAddress THEN a ELSE delegates[t][a]

\* Mutant of PreviousPower: an account without a snapshot had no power.
PreviousPowerFromZero(t, d) ==
    IF snapshots[t][d] = <<>> THEN 0 ELSE Latest(snapshots[t][d]).value

\* "previous" in _moveDelegatesByType: the power of d before the move.
PreviousPower(t, d) ==
    IF snapshots[t][d] = <<>> THEN balances[d] ELSE Latest(snapshots[t][d]).value

\* previous.sub(amount) in _moveDelegatesByType reverts on an overdraft.
CanMoveDelegates(t, from, to, amount) ==
    from # to /\ from # ZeroAddress => amount <= PreviousPower(t, from)

\* Mutant of MoveDelegates: the two sides are swapped.
MoveDelegatesBackwards(t, from, to, amount) ==
    [d \in Accounts |->
        IF from = to THEN snapshots[t][d]
        ELSE IF d = from
        THEN WriteSnapshot(snapshots[t][d], blockNumber, PreviousPower(t, d) + amount)
        ELSE IF d = to
        THEN WriteSnapshot(snapshots[t][d], blockNumber, PreviousPower(t, d) - amount)
        ELSE snapshots[t][d]]

\* _moveDelegatesByType: the snapshots of type t after it.
MoveDelegates(t, from, to, amount) ==
    [d \in Accounts |->
        IF from = to THEN snapshots[t][d]
        ELSE IF d = from
        THEN WriteSnapshot(snapshots[t][d], blockNumber, PreviousPower(t, d) - amount)
        ELSE IF d = to
        THEN WriteSnapshot(snapshots[t][d], blockNumber, PreviousPower(t, d) + amount)
        ELSE snapshots[t][d]]

\* Mutant of BeforeTokenTransfer: the recipient's power is raised, not its delegate's.
HookIgnoringRecipientsDelegate(from, to, amount) ==
    /\ \A t \in DelegationTypes :
            CanMoveDelegates(t, GetDelegatee(t, from), to, amount)
    /\ snapshots' = [t \in DelegationTypes |->
            MoveDelegates(t, GetDelegatee(t, from), to, amount)]

\* _beforeTokenTransfer of StakedPSYSV3, before the balances change.
BeforeTokenTransfer(from, to, amount) ==
    /\ \A t \in DelegationTypes :
            CanMoveDelegates(t, GetDelegatee(t, from), GetDelegatee(t, to), amount)
    /\ snapshots' = [t \in DelegationTypes |->
            MoveDelegates(t, GetDelegatee(t, from), GetDelegatee(t, to), amount)]

\* Mutant of DelegateTypes: the previous delegate is read after the change.
DelegateTypesMovingNothing(delegator, delegatee, types) ==
    /\ delegates' = [t \in DelegationTypes |->
            IF t \in types THEN [delegates[t] EXCEPT ![delegator] = delegatee]
                           ELSE delegates[t]]
    /\ UNCHANGED <<blockNumber, balances, snapshots>>

\* _delegateByType for every type in "types", by delegator.
DelegateTypes(delegator, delegatee, types) ==
    /\ \A t \in types : CanMoveDelegates(t, GetDelegatee(t, delegator), delegatee,
                                         balances[delegator])
    /\ delegates' = [t \in DelegationTypes |->
            IF t \in types THEN [delegates[t] EXCEPT ![delegator] = delegatee]
                           ELSE delegates[t]]
    /\ snapshots' = [t \in DelegationTypes |->
            IF t \in types THEN MoveDelegates(t, GetDelegatee(t, delegator),
                                              delegatee, balances[delegator])
                           ELSE snapshots[t]]
    /\ UNCHANGED <<blockNumber, balances>>

-----------------------------------------------------------------------------
(* The transactions. *)

DelegateByType(delegator, delegatee, t) == DelegateTypes(delegator, delegatee, {t})

Delegate(delegator, delegatee) == DelegateTypes(delegator, delegatee, DelegationTypes)

Mint(account, amount) ==
    /\ BeforeTokenTransfer(ZeroAddress, account, amount)
    /\ balances' = [balances EXCEPT ![account] = @ + amount]
    /\ UNCHANGED <<blockNumber, delegates>>

Burn(account, amount) ==
    /\ BeforeTokenTransfer(account, ZeroAddress, amount)
    /\ amount <= balances[account]
    /\ balances' = [balances EXCEPT ![account] = @ - amount]
    /\ UNCHANGED <<blockNumber, delegates>>

Transfer(from, to, amount) ==
    /\ BeforeTokenTransfer(from, to, amount)
    /\ amount <= balances[from]
    /\ balances' = [[balances EXCEPT ![from] = @ - amount] EXCEPT ![to] = @ + amount]
    /\ UNCHANGED <<blockNumber, delegates>>

NextBlock ==
    /\ blockNumber < MaxBlock
    /\ blockNumber' = blockNumber + 1
    /\ UNCHANGED <<balances, delegates, snapshots>>

-----------------------------------------------------------------------------
MintStep     == \E a \in Accounts, n \in Amounts :
                    Total(balances) + n <= MaxSupply /\ Mint(a, n)
BurnStep     == \E a \in Accounts, n \in Amounts : Burn(a, n)
SendStep     == \E from, to \in Accounts, n \in Amounts : Transfer(from, to, n)
DelegateStep ==
    \E a, d \in Accounts :
        \/ Delegate(a, d)
        \/ \E t \in DelegationTypes : DelegateByType(a, d, t)

GovNext == \/ MintStep
           \/ BurnStep
           \/ SendStep
           \/ DelegateStep
           \/ NextBlock

GovSpec == GovInit /\ [][GovNext]_govVars

=============================================================================
