---------------------- MODULE GovernancePowerProperties ----------------------
(***************************************************************************)
(* What the delegation of governance power must satisfy.                   *)
(***************************************************************************)
EXTENDS GovernancePowerDelegation

\* The balances whose power of type t is with d; 0 for everybody else's.
DelegatedTo(t, d) ==
    [a \in Accounts |-> IF GetDelegatee(t, a) = d THEN balances[a] ELSE 0]

(***************************************************************************)
(* One token, one vote: the power of an account is exactly what the        *)
(* accounts that delegate to it own, itself included unless it has         *)
(* delegated.  No sequence of mints, burns, transfers and delegations      *)
(* counts a token twice, forgets one, or makes previous.sub(amount)        *)
(* revert and so block a transfer.  (_moveDelegatesByType, _delegateByType,*)
(* _beforeTokenTransfer)                                                   *)
(***************************************************************************)
PowerIsDelegated ==
    \A t \in DelegationTypes, d \in Accounts :
        PreviousPower(t, d) = Total(DelegatedTo(t, d))

\* Both sides of a delegation have a snapshot, so that only an account whose
\* power is its own balance has none.
DelegationsHaveSnapshots ==
    \A t \in DelegationTypes, a \in Accounts :
        delegates[t][a] \notin {ZeroAddress, a} =>
            snapshots[t][a] # <<>> /\ snapshots[t][delegates[t][a]] # <<>>

(***************************************************************************)
(* The inductive invariant of the delegation.  PowerIsDelegated needs      *)
(* DelegationsHaveSnapshots: PreviousPower takes the balance for the power *)
(* of an account without a snapshot, right only if nobody delegates to it  *)
(* and it delegates to nobody.                                             *)
(***************************************************************************)
GovInv == GovTypeOK /\ PowerIsDelegated /\ DelegationsHaveSnapshots

(***************************************************************************)
(* At most one snapshot per block, in the order of the blocks, none in the *)
(* future: what the binary search relies on.  (_writeSnapshot)             *)
(***************************************************************************)
InBlockOrder(list, block) ==
    /\ \A i, j \in 1 .. Len(list) :
            i < j => list[i].blockNumber < list[j].blockNumber
    /\ \A i \in 1 .. Len(list) : list[i].blockNumber <= block

SnapshotsOrdered ==
    \A t \in DelegationTypes, d \in Accounts : InBlockOrder(snapshots[t][d], blockNumber)

\* getPowerAtBlock; getPowerCurrent is its value at the current block.
GetPowerAtBlock(d, block, t) ==
    SearchByBlockNumber(snapshots[t][d], balances[d], block)

\* What it should be: the value of the latest snapshot not after the block.
PowerAtBlock(d, block, t) ==
    LET list    == snapshots[t][d]
        earlier == {i \in 1 .. Len(list) : list[i].blockNumber <= block}
    IN  IF list = <<>> THEN balances[d]
        ELSE IF earlier = {} THEN 0
        ELSE list[CHOOSE i \in earlier : \A j \in earlier : j <= i].value

(***************************************************************************)
(* The binary search finds the latest snapshot that is not after the       *)
(* block, for every account, every list that can arise and every block up  *)
(* to the current one.  (_searchByBlockNumber)                             *)
(***************************************************************************)
SearchFindsLatest ==
    \A t \in DelegationTypes, d \in Accounts, b \in 0 .. blockNumber :
        GetPowerAtBlock(d, b, t) = PowerAtBlock(d, b, t)

(***************************************************************************)
(* The past is fixed: nothing that happens later changes the power an      *)
(* account had at the end of a block, so that a vote counted at a block    *)
(* always counts the same.  The step to the next block ends the current    *)
(* one.  (getPowerAtBlock)                                                 *)
(***************************************************************************)
PastPowerFixed ==
    [][\A t \in DelegationTypes, d \in Accounts, b \in 0 .. blockNumber :
            b < blockNumber' =>
                GetPowerAtBlock(d, b, t)' = GetPowerAtBlock(d, b, t)]_govVars

(***************************************************************************)
(* The delegation implements the register of votes: what getPowerAtBlock   *)
(* answers for a block, however late and after whatever mints, burns,      *)
(* transfers and delegations, is what the accounts owned at its end that   *)
(* delegated to the one asked for.  (getPowerAtBlock, _moveDelegatesByType,*)
(* _writeSnapshot)                                                         *)
(***************************************************************************)
Register == INSTANCE VoteRegister WITH
                Voters <- Accounts, Types <- DelegationTypes,
                Nobody <- ZeroAddress, block <- blockNumber,
                tokens <- balances, representative <- delegates,
                register <- [t \in DelegationTypes |-> [d \in Accounts |->
                                [b \in 0 .. blockNumber |->
                                    GetPowerAtBlock(d, b, t)]]]

ImplementsRegister == Register!RegisterSpec

\* totalSupplyAt: the argument is not used.
TotalSupplyAt(block) == Total(balances)

(***************************************************************************)
(* totalSupplyAt "returns the total supply at a certain block number", by  *)
(* which the voting strategy contracts "calculate the total votes needed   *)
(* for threshold/quorum" (StakedTokenV2Rev3.sol:1160-1161): the votes at a *)
(* block are at most that many.  It returns the current supply, which the  *)
(* comment justifies with "no PSYS minting"; stkPSYS are minted and burnt, *)
(* so that the votes of a past block can exceed it.                        *)
(***************************************************************************)
VotesWithinSupply ==
    \A t \in DelegationTypes, b \in FirstBlock .. blockNumber :
        Total([d \in Accounts |-> GetPowerAtBlock(d, b, t)]) <= TotalSupplyAt(b)

=============================================================================
