-------------------------- MODULE IncentivesHistory --------------------------
(***************************************************************************)
(* The incentives controller together with what an observer counts:        *)
(*   emitted       what all distributions emitted so far: their            *)
(*                 emissionPerSecond for every second before               *)
(*                 DISTRIBUTION_END in which somebody was lending          *)
(*   fairShare[u]  u's part of it, in units of 1/FairScale: in each such   *)
(*                 second the lenders of an asset share what it emits in   *)
(*                 proportion to their balances                            *)
(*   claimed[u]    the rewards u claimed, without the bonus                *)
(* FairScale is a multiple of every supply that the balances of Moves can  *)
(* add up to, so that the parts are exact.                                 *)
(***************************************************************************)
EXTENDS PegasysIncentivesController

CONSTANT FairScale

Balances == {0} \cup {move[3] : move \in Moves}

ASSUME FairScaleAssumption ==
    /\ FairScale \in Nat \ {0}
    /\ \A b \in [Users -> Balances] : Total(b) # 0 => FairScale % Total(b) = 0

VARIABLES emitted, fairShare, claimed

incentivesVars == <<now, assets, usersUnclaimedRewards, lent, psys, staked,
                    emitted, fairShare, claimed>>

IncentivesInit ==
    /\ ControllerInit
    /\ emitted = 0
    /\ fairShare = [u \in Users |-> 0]
    /\ claimed = [u \in Users |-> 0]

\* What the asset a emits in this second.
Emission(a) ==
    IF now < DISTRIBUTION_END /\ Total(lent[a]) # 0
    THEN assets[a].emissionPerSecond ELSE 0

EmittedNow == Total([a \in ListedAssets |-> Emission(a)])

\* The part of one unit of a supply in an emission of 1.
Portion(supply) == IF supply = 0 THEN 0 ELSE FairScale \div supply

FairShareNow(u) ==
    Total([a \in ListedAssets |->
            lent[a][u] * Emission(a) * Portion(Total(lent[a]))])

SecondPasses ==
    /\ NextBlock
    /\ emitted' = emitted + EmittedNow
    /\ fairShare' = [u \in Users |-> fairShare[u] + FairShareNow(u)]
    /\ UNCHANGED claimed

\* What u has accrued in asset a and not stored yet.
Accrued(a, u) ==
    AccruedRewards(assets[a], u, lent[a][u], Total(lent[a]), now)

\* All rewards of u that are not claimed.
Owed(u) ==
    usersUnclaimedRewards[u] + Total([a \in ListedAssets |-> Accrued(a, u)])

RewardsPaid ==
    /\ \E u \in Users, list \in AssetLists, n \in Amounts,
          to \in Recipients, stake \in BOOLEAN, report \in StakeReport :
            /\ ClaimRewards(u, list, n, to, stake, report)
            /\ claimed' = [claimed EXCEPT ![u] = @ +
                    AmountToClaim(n, usersUnclaimedRewards[u] +
                        ClaimedAssets(u, list, StakeOf(u, report)).accruedRewards)]
    /\ UNCHANGED <<emitted, fairShare>>

IncentivesNext ==
    \/ SecondPasses
    \/ RewardsPaid
    \/ LendingStep /\ UNCHANGED <<emitted, fairShare, claimed>>
    \/ ImpostorStep /\ UNCHANGED <<emitted, fairShare, claimed>>
    \/ ConfigureStep /\ UNCHANGED <<emitted, fairShare, claimed>>

IncentivesSpec == IncentivesInit /\ [][IncentivesNext]_incentivesVars

-----------------------------------------------------------------------------
(***************************************************************************)
(* Types; and no index of a user is ahead of its asset's, which is what    *)
(* keeps every settlement from reverting.                                  *)
(***************************************************************************)
ControllerTypeOK ==
    /\ now \in Nat
    /\ assets \in [Assets -> AssetData(Users)]
    /\ \A a \in Assets, u \in Users : assets[a].users[u] <= assets[a].index
    /\ usersUnclaimedRewards \in [Users -> Nat]
    /\ psys \in [{Controller, PSM, RewardsVault} \cup Recipients -> Nat]
    /\ staked \in [Recipients -> Nat]

(***************************************************************************)
(* The vault never pays, and never owes, more than the listed assets       *)
(* emitted and the bonus on it: not for an asset that is named twice in a  *)
(* claim, not for an impostor, not for many small claims instead of one.   *)
(* (claimRewards, _claimRewards, handleAction, _getAssetIndex)             *)
(***************************************************************************)
PaidAndOwedWithinEmission ==
    100 * (VaultPSYS - psys[RewardsVault])
        + (100 + EXTRA_PSM_REWARD) * Total([u \in Users |-> Owed(u)])
    <= (100 + EXTRA_PSM_REWARD) * emitted

(***************************************************************************)
(* Nobody gets more than its own part of what the assets emit, second by   *)
(* second and asset by asset: not by depositing just before a claim, not   *)
(* by what another user has left unclaimed, not by naming an asset twice.  *)
(* (handleAction with the balance and supply of before, _claimRewards,     *)
(* _getAssetIndex, _getRewards)                                            *)
(***************************************************************************)
EarnedWithinShare ==
    \A u \in Users : (claimed[u] + Owed(u)) * FairScale <= fairShare[u]

(***************************************************************************)
(* No transaction changes what anybody has earned, to the last unit: not a *)
(* deposit or a withdrawal of another user, not a claim over any list of   *)
(* assets, not a new emission.  Only time does, and only upwards.          *)
(* (handleAction before the balance changes; the settlement of every       *)
(* handler)                                                                *)
(***************************************************************************)
OnlyTimeEarns ==
    [][\A u \in Users :
        IF now' = now THEN claimed'[u] + Owed(u)' = claimed[u] + Owed(u)
                      ELSE claimed'[u] + Owed(u)' >= claimed[u] + Owed(u)]_incentivesVars

(***************************************************************************)
(* What getRewardsBalance shows for a list of assets without repetition is *)
(* exactly what a claim of everything over that list would be given: the   *)
(* view projects each asset by itself, the claim settles them in turn.     *)
(***************************************************************************)
BalanceIsClaimable ==
    \A u \in Users, list \in AssetLists, report \in StakeReport :
        IsInjective(list) =>
            GetRewardsBalance(list, u, report) =
                usersUnclaimedRewards[u]
                  + ClaimedAssets(u, list, StakeOf(u, report)).accruedRewards

=============================================================================
