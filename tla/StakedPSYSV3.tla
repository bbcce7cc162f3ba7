----------------------------- MODULE StakedPSYSV3 -----------------------------
(***************************************************************************)
(* The whole token: the handlers of StakedToken, each with the hook        *)
(* _beforeTokenTransfer that the implementation behind the proxy runs      *)
(* before it changes a balance.                                            *)
(*                                                                         *)
(* revision 1 is StakedPSYS.sol: ERC20WithSnapshot writes the balances of  *)
(* the two sides to _snapshots.  revision 2 is StakedPSYSV3.sol: it moves  *)
(* voting and proposition power between the delegates of the two sides.    *)
(* An upgrade keeps the storage, and _votingSnapshots lies where           *)
(* _snapshots was (GovernancePowerWithSnapshot.sol), so that the balances  *)
(* recorded so far become voting power; the proposition power of revision  *)
(* 2 starts without a snapshot.                                            *)
(*                                                                         *)
(* A new timestamp is a new block, so block.number is "now" as well.       *)
(***************************************************************************)
EXTENDS StakedTokenProperties, Snapshots

CONSTANTS
    ZeroAddress,
    VOTING_POWER,
    PROPOSITION_POWER,
    DelegationTypes,    \* the powers a run follows; no operation mixes them
    FirstRevision       \* 1: a token that is upgraded; 2: deployed as StakedPSYSV3

ASSUME StakedPSYSV3Assumption ==
    /\ ZeroAddress \notin PsysHolders
    /\ VOTING_POWER # PROPOSITION_POWER
    /\ DelegationTypes \subseteq {VOTING_POWER, PROPOSITION_POWER}
    /\ FirstRevision \in {1, 2}

VARIABLES
    revision,           \* lastInitializedRevision: which implementation runs
    delegates,          \* _votingDelegates and _propositionPowerDelegates
    snapshots           \* _votingSnapshots and _propositionPowerSnapshots

governanceVars == <<revision, delegates, snapshots>>

Power == INSTANCE GovernancePowerProperties WITH
            blockNumber <- now, FirstBlock <- StartTime, MaxBlock <- MaxTime,
            Amounts <- 0 .. MAX_UINT256, MaxSupply <- MAX_UINT256

V3Init ==
    /\ Init
    /\ revision = FirstRevision
    /\ delegates = [t \in DelegationTypes |-> [a \in Accounts |-> ZeroAddress]]
    /\ snapshots = [t \in DelegationTypes |-> [a \in Accounts |-> <<>>]]

\* Mutant of SnapshotBalances: a burn leaves no snapshot.
SnapshotBalancesNotBurnt(t, from, to, amount) ==
    IF from = to \/ to = ZeroAddress \/ t # VOTING_POWER THEN snapshots[t]
    ELSE [a \in Accounts |->
            IF a = from THEN WriteSnapshot(snapshots[t][a], now, balances[a] - amount)
            ELSE IF a = to THEN WriteSnapshot(snapshots[t][a], now, balances[a] + amount)
            ELSE snapshots[t][a]]

\* ERC20WithSnapshot writes the balances that the transfer will leave to
\* _snapshots, the later _votingSnapshots.
SnapshotBalances(t, from, to, amount) ==
    IF from = to \/ t # VOTING_POWER THEN snapshots[t]
    ELSE [a \in Accounts |->
            IF a = from THEN WriteSnapshot(snapshots[t][a], now, balances[a] - amount)
            ELSE IF a = to THEN WriteSnapshot(snapshots[t][a], now, balances[a] + amount)
            ELSE snapshots[t][a]]

\* _beforeTokenTransfer of the implementation that runs.
BeforeTokenTransfer(from, to, amount) ==
    /\ \/ /\ revision = 1
          /\ from \in Accounts /\ from # to => amount <= balances[from]
          /\ snapshots' = [t \in DelegationTypes |->
                                SnapshotBalances(t, from, to, amount)]
       \/ /\ revision = 2
          /\ Power!BeforeTokenTransfer(from, to, amount)
    /\ UNCHANGED <<revision, delegates>>

-----------------------------------------------------------------------------
(* The transactions, with the hook. *)

StakeV3(sender, onBehalfOf, amount) ==
    /\ Stake(sender, onBehalfOf, amount)
    /\ BeforeTokenTransfer(ZeroAddress, onBehalfOf, amount)

RedeemV3(u, to, amount) ==
    /\ Redeem(u, to, amount)
    /\ BeforeTokenTransfer(u, ZeroAddress, AmountToRedeem(u, amount))

TransferV3(from, to, amount) ==
    /\ IF from = to THEN TransferToSelf(from, amount)
                    ELSE TransferToOther(from, to, amount)
    /\ BeforeTokenTransfer(from, to, amount)

\* delegate and delegateByType, of revision 2 only.
DelegateV3(delegator, delegatee, types) ==
    /\ revision = 2
    /\ Power!DelegateTypes(delegator, delegatee, types)
    /\ UNCHANGED <<now, asset, totalSupply, stakerRewardsToClaim,
                   stakersCooldowns, psys, revision>>

\* The proxy admin installs StakedPSYSV3 and calls its initialize().
Upgrade ==
    /\ revision = 1
    /\ revision' = 2
    /\ UNCHANGED <<vars, delegates, snapshots>>

-----------------------------------------------------------------------------
StakeV3Step    == \E u \in Users, a \in Accounts, n \in Amounts : StakeV3(u, a, n)
RedeemV3Step   == \E u \in Users, a \in Accounts, n \in Limits : RedeemV3(u, a, n)
TransferV3Step == \E u \in Users, a \in Accounts, n \in Amounts \cup {0} :
                        TransferV3(u, a, n)
DelegateV3Step == \E u \in Users, a \in Accounts,
                     types \in {{t} : t \in DelegationTypes} \cup {DelegationTypes} :
                        DelegateV3(u, a, types)

V3Next ==
    \/ StakeV3Step
    \/ RedeemV3Step
    \/ TransferV3Step
    \/ DelegateV3Step
    \/ Upgrade
    \/ CooldownStep /\ UNCHANGED governanceVars
    \/ ClaimStep /\ UNCHANGED governanceVars
    \/ ConfigureStep /\ UNCHANGED governanceVars
    \/ Tick /\ UNCHANGED governanceVars

V3Vars == <<now, asset, balances, totalSupply, stakerRewardsToClaim,
            stakersCooldowns, psys, revision, delegates, snapshots>>

V3Spec == V3Init /\ [][V3Next]_V3Vars

-----------------------------------------------------------------------------
(***************************************************************************)
(* With the hook in the way a holder in the window can still take all of   *)
(* its stake out: the power it leaves behind covers what is subtracted     *)
(* from it, whoever it delegated to.  (_beforeTokenTransfer, redeem)       *)
(***************************************************************************)
HolderCanExitV3 ==
    \A u \in Users :
        balances[u] # 0 /\ InUnstakeWindow(u) => ENABLED RedeemV3(u, u, MAX_UINT256)

(***************************************************************************)
(* One token, one vote, in both revisions and across the upgrade: the      *)
(* voting and the proposition power of an account are what the accounts    *)
(* that delegate to it own.  (ERC20WithSnapshot._beforeTokenTransfer,      *)
(* StakedPSYSV3._beforeTokenTransfer, _moveDelegatesByType)                *)
(***************************************************************************)
PowerIsDelegatedV3 == Power!PowerIsDelegated

(***************************************************************************)
(* The voting power at the end of a past block never changes, whatever     *)
(* happens later: a later revision reads the snapshots that an earlier one *)
(* wrote, and finds what they meant then.  (_votingSnapshots,              *)
(* getPowerAtBlock)                                                        *)
(***************************************************************************)
PastVotesFixed ==
    [][\A t \in DelegationTypes \cap {VOTING_POWER}, d \in Accounts,
          b \in StartTime .. now :
            b < now' => Power!GetPowerAtBlock(d, b, t)'
                            = Power!GetPowerAtBlock(d, b, t)]_V3Vars

(***************************************************************************)
(* The whole token implements the register of votes in both revisions: the *)
(* voting power at a block is what was staked at its end and delegated to  *)
(* the one asked for, also when revision 2 is asked about a block of       *)
(* revision 1.  (getPowerAtBlock, the two _beforeTokenTransfer)            *)
(***************************************************************************)
Votes == INSTANCE VoteRegister WITH
            Voters <- Accounts, Types <- DelegationTypes \cap {VOTING_POWER},
            Nobody <- ZeroAddress, block <- now, tokens <- balances,
            representative <- [t \in DelegationTypes \cap {VOTING_POWER} |->
                                    delegates[t]],
            register <- [t \in DelegationTypes \cap {VOTING_POWER} |->
                            [d \in Accounts |-> [b \in 0 .. now |->
                                Power!GetPowerAtBlock(d, b, t)]]]

ImplementsVotes == Votes!RegisterSpec

(***************************************************************************)
(* getPowerAtBlock "returns the delegated power of a user at a certain     *)
(* block" (StakedTokenV2Rev3.sol:1142): what revision 2 once answered for  *)
(* a past block, it answers always.  For proposition power it does not: an *)
(* account that owned tokens before the upgrade has its present balance at *)
(* every past block until its first snapshot, and 0 at the same blocks     *)
(* afterwards.                                                             *)
(***************************************************************************)
PastAnswersFixed ==
    [][\A t \in DelegationTypes, d \in Accounts, b \in StartTime .. now :
            revision = 2 /\ b < now =>
                Power!GetPowerAtBlock(d, b, t)' = Power!GetPowerAtBlock(d, b, t)]_V3Vars

=============================================================================
