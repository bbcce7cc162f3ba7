--------------------- MODULE PegasysDistributionManager ---------------------
(***************************************************************************)
(* The reward accounting that StakedPSYS, StakedPSYSV3 and                 *)
(* PegasysIncentivesController inherit: contracts/stake/                   *)
(* PegasysDistributionManager.sol.                                         *)
(*                                                                         *)
(* The contract is abstract in all but name: it owns the AssetData records *)
(* and the arithmetic on them, and the inheriting contract decides when    *)
(* they are updated.  This module therefore has no state of its own.  It   *)
(* gives the operations as operators from a record to a record, with the   *)
(* time of the block, block.timestamp, as the parameter "time".            *)
(*                                                                         *)
(* SafeMath reverts are not hidden in the arithmetic: RewardsDefined says  *)
(* when an update does not revert, and the modules that use it take it as  *)
(* a guard.                                                                *)
(***************************************************************************)
EXTENDS Integers

CONSTANTS
    DISTRIBUTION_END,   \* the timestamp after which nothing more is emitted
    Scale               \* 10 ** PRECISION, the fixed-point scale of an index

ASSUME DistributionAssumption ==
    /\ DISTRIBUTION_END \in Nat
    /\ Scale \in Nat \ {0}

(***************************************************************************)
(* struct AssetData.  The widths (uint128 for the emission and the         *)
(* timestamp, uint256 for the indexes) are never reached: an index grows   *)
(* by less than 2^128 * 2^32 * 10^18 over the life of a distribution.      *)
(***************************************************************************)
AssetData(Holders) ==
    [emissionPerSecond : Nat, lastUpdateTimestamp : Nat, index : Nat,
     users : [Holders -> Nat]]

EmptyAsset(Holders) ==
    [emissionPerSecond |-> 0, lastUpdateTimestamp |-> 0, index |-> 0,
     users |-> [h \in Holders |-> 0]]

\* Mutant of GetAssetIndex: the end of the distribution does not cap the time.
GetAssetIndexUncapped(asset, totalBalance, time) ==
    IF \/ asset.emissionPerSecond = 0
       \/ totalBalance = 0
       \/ asset.lastUpdateTimestamp = time
       \/ asset.lastUpdateTimestamp >= DISTRIBUTION_END
    THEN asset.index
    ELSE (asset.emissionPerSecond * (time - asset.lastUpdateTimestamp) * Scale)
            \div totalBalance + asset.index

(***************************************************************************)
(* _getAssetIndex: the index at "time" of a distribution over              *)
(* totalBalance tokens.  It stands still when nothing is emitted, when     *)
(* nobody stakes, and from the end of the distribution on.                 *)
(***************************************************************************)
GetAssetIndex(asset, totalBalance, time) ==
    LET currentTimestamp == IF time > DISTRIBUTION_END
                            THEN DISTRIBUTION_END ELSE time
        timeDelta        == currentTimestamp - asset.lastUpdateTimestamp
    IN  IF \/ asset.emissionPerSecond = 0
           \/ totalBalance = 0
           \/ asset.lastUpdateTimestamp = time
           \/ asset.lastUpdateTimestamp >= DISTRIBUTION_END
        THEN asset.index
        ELSE (asset.emissionPerSecond * timeDelta * Scale) \div totalBalance
             + asset.index

\* _getRewards: what a balance earned between two values of the index.
GetRewards(principalUserBalance, reserveIndex, userIndex) ==
    (principalUserBalance * (reserveIndex - userIndex)) \div Scale

(***************************************************************************)
(* _updateAssetStateInternal.  The early return of the code when the       *)
(* record is already up to date is the identity here too: then             *)
(* GetAssetIndex returns asset.index and the timestamp does not change.    *)
(* The timestamp moves even when the index does not.                       *)
(***************************************************************************)
UpdateAssetState(asset, totalStaked, time) ==
    [asset EXCEPT !.index = GetAssetIndex(asset, totalStaked, time),
                  !.lastUpdateTimestamp = time]

\* reserveIndex.sub(userIndex) in _getRewards reverts when it would be negative.
RewardsDefined(asset, user, stakedByUser, totalStaked, time) ==
    stakedByUser # 0 =>
        asset.users[user] <= GetAssetIndex(asset, totalStaked, time)

\* The value _updateUserAssetInternal returns: what the user accrued.
AccruedRewards(asset, user, stakedByUser, totalStaked, time) ==
    IF stakedByUser = 0 THEN 0
    ELSE GetRewards(stakedByUser, GetAssetIndex(asset, totalStaked, time),
                    asset.users[user])

\* The record _updateUserAssetInternal leaves behind.
UpdateUserAsset(asset, user, totalStaked, time) ==
    LET updated == UpdateAssetState(asset, totalStaked, time)
    IN  [updated EXCEPT !.users[user] = updated.index]

\* Mutants of ConfigureAsset: the index starts again from zero; the seconds
\* since the last update are paid at the new emission.
ConfigureAssetFromZero(asset, emissionPerSecond, totalStaked, time) ==
    [UpdateAssetState(asset, totalStaked, time)
        EXCEPT !.emissionPerSecond = emissionPerSecond, !.index = 0]

ConfigureAssetUnsettled(asset, emissionPerSecond, totalStaked, time) ==
    [asset EXCEPT !.emissionPerSecond = emissionPerSecond]

\* One iteration of configureAssets: settle, then change the emission.
ConfigureAsset(asset, emissionPerSecond, totalStaked, time) ==
    [UpdateAssetState(asset, totalStaked, time)
        EXCEPT !.emissionPerSecond = emissionPerSecond]

=============================================================================
