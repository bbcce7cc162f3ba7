---------------------------- MODULE RewardHistory ----------------------------
(***************************************************************************)
(* The staked token together with what an observer counts of the rewards,  *)
(* second by second and claim by claim:                                    *)
(*   emitted       what the distribution emitted so far, that is           *)
(*                 emissionPerSecond for every second before               *)
(*                 DISTRIBUTION_END in which somebody was staking          *)
(*   fairShare[u]  u's part of it, in units of 1/FairScale: in each such   *)
(*                 second a holder earns in proportion to its balance      *)
(*   claimed[u]    the rewards u took out                                  *)
(* FairScale is a multiple of every supply, so the parts are exact.  The   *)
(* auxiliary variables restrict no step of the token.                      *)
(***************************************************************************)
EXTENDS StakedTokenProperties

CONSTANT FairScale

ASSUME FairScaleAssumption ==
    /\ FairScale \in Nat \ {0}
    /\ \A s \in 1 .. InitialPSYS * Cardinality(Users) + VaultPSYS :
            FairScale % s = 0

VARIABLES emitted, fairShare, claimed

rewardVars == <<now, asset, balances, totalSupply, stakerRewardsToClaim,
                stakersCooldowns, psys, emitted, fairShare, claimed>>

RewardInit ==
    /\ Init
    /\ emitted = 0
    /\ fairShare = [a \in Accounts |-> 0]
    /\ claimed = [a \in Accounts |-> 0]

Emitting == now < DISTRIBUTION_END /\ totalSupply # 0

SecondPasses ==
    /\ Tick
    /\ IF Emitting
       THEN /\ emitted' = emitted + asset.emissionPerSecond
            /\ fairShare' = [a \in Accounts |-> fairShare[a] +
                    balances[a] * asset.emissionPerSecond
                                * (FairScale \div totalSupply)]
       ELSE UNCHANGED <<emitted, fairShare>>
    /\ UNCHANGED claimed

RewardsPaid ==
    /\ \E u \in Users, a \in Accounts, n \in Limits :
            /\ ClaimRewards(u, a, n)
            /\ claimed' = [claimed EXCEPT ![u] = @ + AmountToClaim(u, n)]
    /\ UNCHANGED <<emitted, fairShare>>

RewardNext ==
    \/ SecondPasses
    \/ RewardsPaid
    \/ StakeStep /\ UNCHANGED <<emitted, fairShare, claimed>>
    \/ RedeemStep /\ UNCHANGED <<emitted, fairShare, claimed>>
    \/ CooldownStep /\ UNCHANGED <<emitted, fairShare, claimed>>
    \/ TransferStep /\ UNCHANGED <<emitted, fairShare, claimed>>
    \/ ConfigureStep /\ UNCHANGED <<emitted, fairShare, claimed>>

RewardSpec == RewardInit /\ [][RewardNext]_rewardVars

\* getTotalRewardsBalance(a): the stored rewards and those not yet settled.
GetTotalRewardsBalance(a) == stakerRewardsToClaim[a] + Accrued(a)

\* All that a was ever given.
Earned(a) == claimed[a] + GetTotalRewardsBalance(a)

(***************************************************************************)
(* The contract never owes, and never has paid, more rewards than the      *)
(* distribution emitted: the roundings of the index and of the accruals    *)
(* only lose.  (_getAssetIndex, _getRewards, _updateUserAssetInternal and  *)
(* every handler that calls them)                                          *)
(***************************************************************************)
RewardsWithinEmission ==
    Total([a \in Accounts |-> Earned(a)]) <= emitted

(***************************************************************************)
(* And nobody gets more than its own part of the emission, however stakes, *)
(* transfers, redeems and claims are interleaved: tokens carry no reward   *)
(* earned before they arrived.                                             *)
(***************************************************************************)
FairShareBound ==
    \A a \in Accounts : Earned(a) * FairScale <= fairShare[a]

(***************************************************************************)
(* No transaction changes what anybody has earned, to the last unit; only  *)
(* time does, and only upwards.  It is the order of the handlers - settle  *)
(* sender and recipient at the old balances and the old supply, then move  *)
(* the tokens - that makes it so.  Configuration is left out: the manager  *)
(* settles the distribution with the stake it reports.                     *)
(***************************************************************************)
EarningsSettledExactly ==
    [][~ ConfigureStep =>
        \A a \in Accounts : IF now' = now THEN Earned(a)' = Earned(a)
                                          ELSE Earned(a)' >= Earned(a)]_rewardVars

=============================================================================
