--------------------------- MODULE HistoryTheorems ---------------------------
(***************************************************************************)
(* What observers of the staked token see, for every set of users, every   *)
(* emission and every interleaving of stakes, transfers, redeems, claims,  *)
(* changes of the emission and seconds.                                    *)
(*                                                                         *)
(* The cooldowns: who withdraws has waited.                                *)
(*                                                                         *)
(* The rewards: no transaction changes what anybody has earned; nobody     *)
(* earns more than its own part of the emission; and all together earn no  *)
(* more than was emitted.  What the contract owes is kept in two places:   *)
(* the rewards it has stored, and the distance of an account's index to    *)
(* that of the distribution.  Recorded and AsOfNow add the two up, in      *)
(* units of 1/Scale, so that the roundings of the accruals do not matter;  *)
(* Pending is what was emitted since the distribution was last settled,    *)
(* before it is divided and rounded to an index.                           *)
(***************************************************************************)
EXTENDS CooldownHistory, RewardHistory, StakedTokenTheorems

-----------------------------------------------------------------------------
(* The history of the cooldowns. *)

(***************************************************************************)
(* The inductive invariant of the history.  A stamp is bounded from below  *)
(* by its owner's latest activation and from above by the time (part of    *)
(* IndInv), and activations are in the past.                               *)
(***************************************************************************)
HistoryInv ==
    /\ IndInv
    /\ activatedAt \in [Accounts -> Nat]
    /\ CooldownRespected

(***************************************************************************)
(* In a step that activates nothing, each stamp stays, is cleared, or is a *)
(* running one that moves to a later time that is not in the future.       *)
(***************************************************************************)
StampsPostponed ==
    \A a \in Accounts :
        \/ stakersCooldowns'[a] = stakersCooldowns[a]
        \/ stakersCooldowns'[a] = 0
        \/ /\ stakersCooldowns[a] # 0
           /\ stakersCooldowns'[a] \in stakersCooldowns[a] .. now

\* Shares entering an account (stake, _transfer) never bring its window forward.
LEMMA EnterPostpones ==
    ASSUME IndInv, NEW h \in Accounts, Gate!Enter(h)
    PROVE  StampsPostponed /\ now' = now
<1>1. stakersCooldowns \in [Accounts -> Nat] /\ now \in Nat
  BY DEF IndInv, TypeOK
<1>2. PICK s \in Gate!Postponed(h) : stakersCooldowns' = [stakersCooldowns EXCEPT ![h] = s]
  BY DEF Gate!Enter
<1>3. s = 0 \/ (stakersCooldowns[h] # 0 /\ s \in stakersCooldowns[h] .. now)
  BY DEF Gate!Postponed
<1> QED
  BY <1>1, <1>2, <1>3 DEF StampsPostponed, Gate!Enter

\* Shares leaving an account (redeem, _transfer) keep its window or close it.
LEMMA LeavePostpones ==
    ASSUME IndInv, NEW h \in Accounts, Gate!Leave(h)
    PROVE  StampsPostponed /\ now' = now
<1>1. stakersCooldowns \in [Accounts -> Nat]
  BY DEF IndInv, TypeOK
<1>2. stakersCooldowns' = [stakersCooldowns EXCEPT ![h] = Gate!Remaining(h)]
  BY DEF Gate!Leave
<1>3. Gate!Remaining(h) = 0 \/ Gate!Remaining(h) = stakersCooldowns[h]
  BY DEF Gate!Remaining
<1> QED
  BY <1>1, <1>2, <1>3 DEF StampsPostponed, Gate!Leave

\* A transfer postpones the window of both its accounts.
LEMMA PassPostpones ==
    ASSUME IndInv, NEW g \in Accounts, NEW h \in Accounts, Gate!Pass(g, h)
    PROVE  StampsPostponed /\ now' = now
<1>1. stakersCooldowns \in [Accounts -> Nat] /\ now \in Nat /\ g # h
  BY DEF IndInv, TypeOK, Gate!Pass
<1>2. PICK s \in Gate!Postponed(h) :
        stakersCooldowns' = [stakersCooldowns EXCEPT ![g] = Gate!Remaining(g), ![h] = s]
  BY DEF Gate!Pass
<1>3. s = 0 \/ (stakersCooldowns[h] # 0 /\ s \in stakersCooldowns[h] .. now)
  BY DEF Gate!Postponed
<1>4. Gate!Remaining(g) = 0 \/ Gate!Remaining(g) = stakersCooldowns[g]
  BY DEF Gate!Remaining
<1> QED
  BY <1>1, <1>2, <1>3, <1>4 DEF StampsPostponed, Gate!Pass

\* Only cooldown() and time do more to the stamps than postpone or clear them.
LEMMA QuietStepsPostpone ==
    ASSUME IndInv, StakeStep \/ RedeemStep \/ ClaimStep \/ TransferStep \/ ConfigureStep
    PROVE  StampsPostponed /\ now' = now
<1>1. CASE StakeStep
  BY <1>1, StakeEnters, EnterPostpones DEF StakeStep
<1>2. CASE RedeemStep
  <2>1. PICK u \in Users, a \in Accounts, n \in Limits : Redeem(u, a, n)
    BY <1>2 DEF RedeemStep
  <2>2. Gate!Leave(u) /\ u \in Accounts
    BY <2>1, RedeemLeaves DEF Accounts
  <2> QED
    BY <2>2, LeavePostpones
<1>3. CASE ClaimStep
  BY <1>3 DEF ClaimStep, ClaimRewards, StampsPostponed
<1>4. CASE TransferStep
  <2>1. ASSUME NEW u \in Users, NEW n \in Amounts \cup {0}, TransferToSelf(u, n)
        PROVE  StampsPostponed /\ now' = now
    BY <2>1 DEF TransferToSelf, StampsPostponed
  <2>2. ASSUME NEW u \in Users, NEW n \in Amounts \cup {0}, NEW a \in Accounts,
               TransferToOther(u, a, n)
        PROVE  StampsPostponed /\ now' = now
    <3>1. Gate!Pass(u, a) /\ u \in Accounts
      BY <2>2, TransferPasses DEF Accounts
    <3> QED
      BY <3>1, PassPostpones
  <2> QED
    BY <1>4, <2>1, <2>2 DEF TransferStep
<1>5. CASE ConfigureStep
  BY <1>5 DEF ConfigureStep, ConfigureAssets, StampsPostponed
<1> QED
  BY <1>1, <1>2, <1>3, <1>4, <1>5

\* The fresh contract, with an empty history, satisfies the invariant.
LEMMA InitHistoryInv == HistoryInit => HistoryInv
<1> SUFFICES ASSUME HistoryInit PROVE HistoryInv
  OBVIOUS
<1>1. IndInv
  BY InitIndInv DEF HistoryInit
<1>2. CooldownRespected
  BY DEF HistoryInit, Init, CooldownRespected
<1> QED
  BY <1>1, <1>2 DEF HistoryInit, HistoryInv

\* Every transaction keeps the invariant of the cooldown history.
LEMMA NextHistoryInv == HistoryInv /\ [HistoryNext]_historyVars => HistoryInv'
<1> SUFFICES ASSUME HistoryInv, [HistoryNext]_historyVars PROVE HistoryInv'
  OBVIOUS
<1>1. IndInv'
  BY NextIndInv DEF HistoryInv, HistoryNext, CooldownActivated, historyVars,
                    Next, CooldownStep, vars
<1>2. /\ stakersCooldowns \in [Accounts -> Nat] /\ now \in Nat
      /\ activatedAt \in [Accounts -> Nat] /\ StampsPast
  BY DEF HistoryInv, IndInv, TypeOK
<1>3. stakersCooldowns' \in [Accounts -> Nat] /\ StampsPast' /\ now' \in Nat
  BY <1>1 DEF IndInv, TypeOK
<1>4. now # 0
  BY <1>2, StakedTokenAssumption DEF HistoryInv, IndInv
<1>5. CASE CooldownActivated
  <2>1. PICK u \in Users : /\ Cooldown(u)
                           /\ activatedAt' = [activatedAt EXCEPT ![u] = now]
    BY <1>5 DEF CooldownActivated
  <2>2. /\ stakersCooldowns' = [stakersCooldowns EXCEPT ![u] = now]
        /\ now' = now /\ u \in Accounts
    BY <2>1 DEF Cooldown, Accounts
  <2>3. activatedAt' \in [Accounts -> Nat]
    BY <1>2, <2>1, <2>2
  <2>4. CooldownRespected'
    BY <1>2, <1>4, <2>1, <2>2 DEF HistoryInv, CooldownRespected
  <2> QED
    BY <1>1, <2>3, <2>4 DEF HistoryInv
<1>6. CASE /\ StakeStep \/ RedeemStep \/ ClaimStep \/ TransferStep \/ ConfigureStep
           /\ UNCHANGED activatedAt
  <2>1. StampsPostponed /\ now' = now
    BY <1>6, QuietStepsPostpone DEF HistoryInv
  <2>2. CooldownRespected'
    BY <1>2, <1>3, <1>6, <2>1
       DEF HistoryInv, CooldownRespected, StampsPostponed
  <2> QED
    BY <1>1, <1>2, <1>6, <2>2 DEF HistoryInv
<1>7. CASE Tick /\ UNCHANGED activatedAt
  <2>1. now' = now + 1 /\ stakersCooldowns' = stakersCooldowns
    BY <1>7 DEF Tick
  <2>2. CooldownRespected'
    BY <1>2, <1>7, <2>1 DEF HistoryInv, CooldownRespected
  <2> QED
    BY <1>1, <1>2, <1>7, <2>2 DEF HistoryInv
<1>8. CASE UNCHANGED historyVars
  BY <1>1, <1>8 DEF historyVars, HistoryInv, CooldownRespected
<1> QED
  BY <1>5, <1>6, <1>7, <1>8 DEF HistoryNext

(***************************************************************************)
(* A running cooldown was started by its owner, and never runs ahead of    *)
(* the owner's latest activation.                                          *)
(***************************************************************************)
THEOREM CooldownsRespected == HistorySpec => []CooldownRespected
<1>1. HistorySpec => []HistoryInv
  BY InitHistoryInv, NextHistoryInv, PTL DEF HistorySpec
<1>2. HistoryInv => CooldownRespected
  BY DEF HistoryInv
<1> QED
  BY <1>1, <1>2, PTL

(***************************************************************************)
(* Nobody withdraws without having waited for more than COOLDOWN_SECONDS   *)
(* since their own latest call of cooldown(), for any number of users and  *)
(* whatever the others send them in between.                               *)
(***************************************************************************)
THEOREM WithdrawalsAfterCooldown == HistorySpec => WithdrawalAfterCooldown
<1> DEFINE Withdrawn(a) ==
            totalSupply' < totalSupply /\ balances'[a] < balances[a] =>
                /\ activatedAt[a] # 0
                /\ now > activatedAt[a] + COOLDOWN_SECONDS
<1>1. HistoryInv /\ [HistoryNext]_historyVars =>
        [\A a \in Accounts : Withdrawn(a)]_historyVars
  <2> SUFFICES ASSUME HistoryInv, HistoryNext, NEW a \in Accounts,
                      totalSupply' < totalSupply, balances'[a] < balances[a]
               PROVE  /\ activatedAt[a] # 0
                      /\ now > activatedAt[a] + COOLDOWN_SECONDS
    BY DEF historyVars
  <2>1. /\ now \in Nat /\ totalSupply \in Nat /\ balances \in [Accounts -> Nat]
        /\ stakersCooldowns \in [Accounts -> Nat] /\ activatedAt \in [Accounts -> Nat]
    BY DEF HistoryInv, IndInv, TypeOK
  <2>2. ~ (totalSupply' = totalSupply)
    BY <2>1
  <2>3. ~ StakeStep
    BY <2>1, StakedTokenAssumption DEF StakeStep, Stake
  <2>4. RedeemStep
    BY <2>2, <2>3 DEF HistoryNext, CooldownActivated, Cooldown, ClaimStep, ClaimRewards,
       TransferStep, TransferToSelf, TransferToOther, ConfigureStep, ConfigureAssets, Tick
  <2>5. PICK u \in Users, to \in Accounts, n \in Limits : Redeem(u, to, n)
    BY <2>4 DEF RedeemStep
  <2>6. a = u
    BY <2>1, <2>5 DEF Redeem, Accounts
  <2>7. now > stakersCooldowns[a] + COOLDOWN_SECONDS /\ Gate!Leave(u)
    BY <2>5, <2>6, RedeemLeaves DEF Redeem, InUnstakeWindow, HistoryInv
  <2>8. stakersCooldowns[a] # 0
    BY <2>6, <2>7 DEF Gate!Leave, Gate!Open
  <2>9. activatedAt[a] # 0 /\ activatedAt[a] <= stakersCooldowns[a]
    BY <2>1, <2>8 DEF HistoryInv, CooldownRespected
  <2> QED
    BY <2>1, <2>7, <2>9, StakedTokenAssumption
<1>2. HistorySpec => []HistoryInv
  BY InitHistoryInv, NextHistoryInv, PTL DEF HistorySpec
<1> QED
  BY <1>1, <1>2, PTL DEF HistorySpec, WithdrawalAfterCooldown

-----------------------------------------------------------------------------
(* The history of the rewards. *)

CurrentIndex == GetAssetIndex(asset, totalSupply, now)

\* What a took out, and what is stored for it.
Paid(a) == claimed[a] + stakerRewardsToClaim[a]

\* What a accrued up to the index i, in units of 1/Scale.
Accruing(a, i) == balances[a] * (i - asset.users[a])

Recorded(a) == Paid(a) * Scale + Accruing(a, asset.index)
AsOfNow(a)  == Paid(a) * Scale + Accruing(a, CurrentIndex)

Pending == PendingOf(asset, totalSupply, now)

RewardTypes ==
    /\ claimed \in [Accounts -> Nat]
    /\ emitted \in Nat
    /\ fairShare \in [Accounts -> Nat]

\* The parts of the inductive invariant.
RewardInv == IndInv /\ SupplyBacked /\ RewardTypes

-----------------------------------------------------------------------------
(* The index and the accruals. *)

\* Nobody's settlement reverts, and the rounding of an accrual only loses.
LEMMA AccruedExactly ==
    ASSUME IndInv, NEW a \in Accounts
    PROVE  /\ CurrentIndex \in Nat /\ asset.index \in Nat /\ asset.users[a] \in Nat
           /\ asset.users[a] <= asset.index /\ asset.index <= CurrentIndex
           /\ Accruing(a, CurrentIndex) \in Nat /\ Accruing(a, asset.index) \in Nat
           /\ Accrued(a) = Accruing(a, CurrentIndex) \div Scale
           /\ Accrued(a) \in Nat
           /\ Accrued(a) * Scale <= Accruing(a, CurrentIndex)
<1>1. /\ now \in Nat /\ totalSupply \in Nat /\ SettledAt(asset, Accounts, now)
      /\ balances[a] \in Nat
  BY IndInvSettled DEF IndInv, TypeOK
<1> DEFINE i == GetAssetIndex(asset, totalSupply, now)
           r == AccruedRewards(asset, a, balances[a], totalSupply, now)
           x == balances[a] * (i - asset.users[a])
           y == balances[a] * (asset.index - asset.users[a])
<1>2. /\ i \in Nat /\ asset.index \in Nat /\ asset.users[a] \in Nat
      /\ asset.users[a] <= asset.index /\ asset.index <= i
      /\ y \in Nat /\ x \in Nat
      /\ r = x \div Scale /\ r \in Nat /\ r * Scale <= x
  BY <1>1, AccruedIsShare
<1>3. /\ CurrentIndex = i /\ Accrued(a) = r
      /\ Accruing(a, CurrentIndex) = x /\ Accruing(a, asset.index) = y
  BY DEF CurrentIndex, Accruing, Accrued
<1> HIDE DEF i, r, x, y
<1> QED
  BY <1>2, <1>3

\* What the index has gained is not more than what is pending.
LEMMA IndexPending ==
    ASSUME IndInv
    PROVE  /\ Pending \in Nat
           /\ (CurrentIndex - asset.index) * totalSupply <= Pending * Scale
           /\ totalSupply = 0 => CurrentIndex = asset.index
<1>1. /\ now \in Nat /\ totalSupply \in Nat /\ asset \in AssetData(Accounts)
      /\ asset.lastUpdateTimestamp <= now
  BY IndInvSettled DEF SettledAt
<1> QED
  BY <1>1, IndexWithinPending DEF CurrentIndex, Pending

\* The second that passes adds its emission, if it is one that counts.
LEMMA PendingTick ==
    ASSUME IndInv, Tick
    PROVE  Pending' = Pending + (IF Emitting THEN asset.emissionPerSecond ELSE 0)
<1>1. /\ now \in Nat /\ totalSupply \in Nat /\ asset \in AssetData(Accounts)
      /\ asset.lastUpdateTimestamp <= now
      /\ now' = now + 1 /\ asset' = asset /\ totalSupply' = totalSupply
  BY IndInvSettled DEF SettledAt, Tick
<1> QED
  BY <1>1, PendingNextSecond DEF Pending, Emitting

\* The index does not go back as time passes.
LEMMA IndexTick ==
    ASSUME IndInv, Tick
    PROVE  CurrentIndex' \in Nat /\ CurrentIndex <= CurrentIndex'
<1>1. /\ now \in Nat /\ totalSupply \in Nat /\ asset \in AssetData(Accounts)
      /\ asset.lastUpdateTimestamp <= now
      /\ now' = now + 1 /\ asset' = asset /\ totalSupply' = totalSupply
  BY IndInvSettled DEF SettledAt, Tick
<1> QED
  BY <1>1, IndexNextSecond DEF CurrentIndex

\* All that somebody was given: what was paid and stored, and what was accrued.
PaidAndAccrued ==
    \A a \in Accounts :
        /\ Paid(a) \in Nat /\ Earned(a) = Paid(a) + Accrued(a) /\ Earned(a) \in Nat
        /\ CurrentIndex \in Nat /\ asset.users[a] \in Nat
        /\ Accrued(a) = Accruing(a, CurrentIndex) \div Scale

LEMMA EarnedIs == RewardInv => PaidAndAccrued
<1> SUFFICES ASSUME RewardInv, NEW a \in Accounts
             PROVE  /\ Paid(a) \in Nat /\ Earned(a) = Paid(a) + Accrued(a)
                    /\ Earned(a) \in Nat
                    /\ CurrentIndex \in Nat /\ asset.users[a] \in Nat
                    /\ Accrued(a) = Accruing(a, CurrentIndex) \div Scale
  BY DEF PaidAndAccrued
<1>1. /\ CurrentIndex \in Nat /\ asset.users[a] \in Nat /\ Accrued(a) \in Nat
      /\ Accrued(a) = Accruing(a, CurrentIndex) \div Scale
  BY AccruedExactly DEF RewardInv
<1>2. claimed[a] \in Nat /\ stakerRewardsToClaim[a] \in Nat
  BY DEF RewardInv, RewardTypes, IndInv, TypeOK
<1> QED
  BY <1>1, <1>2 DEF Paid, Earned, GetTotalRewardsBalance

LEMMA EarnedNext == RewardInv' => PaidAndAccrued'
  BY EarnedIs, PTL

-----------------------------------------------------------------------------
(* The transactions. *)

(***************************************************************************)
(* A transaction that settles the distribution, at the old supply, and the *)
(* accounts of U at their old balances: what they accrued is stored or     *)
(* paid out, and nothing else is; the balances of the others stay.         *)
(***************************************************************************)
SettlesFor(U) ==
    /\ now' = now
    /\ asset'.index = CurrentIndex /\ asset'.lastUpdateTimestamp = now
    /\ \A a \in Accounts \cap U :
            asset'.users[a] = CurrentIndex /\ Paid(a)' = Paid(a) + Accrued(a)
    /\ \A a \in Accounts \ U :
            /\ asset'.users[a] = asset.users[a] /\ Paid(a)' = Paid(a)
            /\ balances'[a] = balances[a]

\* What it leaves: nothing is pending, and everybody has what it had.
LEMMA SettlementKeeps ==
    ASSUME RewardInv, RewardInv', NEW U, SettlesFor(U)
    PROVE  /\ Pending' = 0
           /\ \A a \in Accounts : /\ Earned(a)' = Earned(a)
                                  /\ Recorded(a)' <= AsOfNow(a)
<1>1. /\ now \in Nat /\ DISTRIBUTION_END \in Nat /\ Scale \in Nat /\ Scale # 0
      /\ asset'.emissionPerSecond \in Nat /\ CurrentIndex \in Nat
      /\ asset'.lastUpdateTimestamp = now /\ now' = now
      /\ asset'.index = CurrentIndex
  BY DistributionAssumption, IndInvSettled, IndexGrows
  DEF RewardInv, SettlesFor, IndInv, TypeOK, AssetData, CurrentIndex, SettledAt
<1>2. CurrentIndex' = CurrentIndex
  BY <1>1 DEF CurrentIndex, GetAssetIndex
<1>3. Pending' = 0
  <2>1. asset' \in AssetData(Accounts) /\ totalSupply' \in Nat /\ now' \in Nat
    BY DEF RewardInv, IndInv, TypeOK
  <2>2. asset'.lastUpdateTimestamp = now'
    BY <1>1
  <2> QED
    BY <2>1, <2>2, SettledNow DEF Pending
<1>4. ASSUME NEW a \in Accounts
      PROVE  Earned(a)' = Earned(a) /\ Recorded(a)' <= AsOfNow(a)
  <2> DEFINE x == Accruing(a, CurrentIndex)
             r == Accrued(a)
             p == Paid(a)
  <2>1. /\ asset.users[a] \in Nat /\ x \in Nat /\ r \in Nat /\ r * Scale <= x
        /\ r = x \div Scale /\ p \in Nat /\ Earned(a) = p + r
    BY AccruedExactly, EarnedIs DEF RewardInv, PaidAndAccrued
  <2>2. /\ balances'[a] \in Nat /\ asset'.users[a] \in Nat
        /\ Accrued(a)' = Accruing(a, CurrentIndex)' \div Scale
        /\ Earned(a)' = Paid(a)' + Accrued(a)'
    BY EarnedNext DEF RewardInv, IndInv, TypeOK, PaidAndAccrued
  <2>6. CASE a \in U
    <3>1. asset'.users[a] = CurrentIndex /\ Paid(a)' = p + r
      BY <2>6 DEF SettlesFor
    <3> HIDE DEF x, r, p
    <3>2. Accruing(a, CurrentIndex)' = 0 /\ Accruing(a, asset.index)' = 0
      <4>1. Accruing(a, CurrentIndex)' = balances'[a] * (CurrentIndex' - asset'.users[a])
            /\ Accruing(a, asset.index)' = balances'[a] * (asset'.index - asset'.users[a])
        BY DEF Accruing
      <4>2. CurrentIndex' - asset'.users[a] = 0 /\ asset'.index - asset'.users[a] = 0
        BY <1>1, <1>2, <3>1
      <4> QED
        BY <2>2, <4>1, <4>2
    <3>3. Accrued(a)' = 0
      BY <1>1, <2>2, <3>2
    <3>4. Earned(a)' = p + r
      BY <2>1, <2>2, <3>1, <3>3
    <3>5. Recorded(a)' = (p + r) * Scale
      <4>1. Recorded(a)' = Paid(a)' * Scale + Accruing(a, asset.index)'
        BY DEF Recorded
      <4>2. (p + r) * Scale \in Nat
        BY <1>1, <2>1, ProductNat
      <4> QED
        BY <3>1, <3>2, <4>1, <4>2
    <3>6. (p + r) * Scale = p * Scale + r * Scale /\ p * Scale \in Nat /\ r * Scale \in Nat
      BY <1>1, <2>1, ProductNat
    <3>7. AsOfNow(a) = p * Scale + x
      BY DEF AsOfNow, p, x
    <3> QED
      BY <2>1, <3>4, <3>5, <3>6, <3>7 DEF r, p
  <2>7. CASE a \notin U
    <3>1. asset'.users[a] = asset.users[a] /\ Paid(a)' = p /\ balances'[a] = balances[a]
      BY <2>7 DEF SettlesFor
    <3>2. Accruing(a, CurrentIndex)' = x /\ Accruing(a, asset.index)' = x
      BY <1>1, <1>2, <3>1 DEF Accruing
    <3> HIDE DEF x, r, p
    <3>3. Accrued(a)' = r
      BY <2>1, <2>2, <3>2
    <3>4. Earned(a)' = p + r
      BY <2>1, <2>2, <3>1, <3>3
    <3>5. Recorded(a)' = p * Scale + x /\ AsOfNow(a) = p * Scale + x
      BY <3>1, <3>2 DEF Recorded, AsOfNow, p, x
    <3>6. p * Scale + x \in Nat
      BY <1>1, <2>1, ProductNat
    <3> QED
      BY <2>1, <3>4, <3>5, <3>6 DEF r, p
  <2> QED
    BY <2>6, <2>7
<1> QED
  BY <1>3, <1>4

\* The record after one account was settled, and after a second one.
LEMMA SettledRecord ==
    ASSUME IndInv, NEW u \in Accounts
    PROVE  /\ Settled(u).index = CurrentIndex /\ Settled(u).lastUpdateTimestamp = now
           /\ Settled(u) \in AssetData(Accounts)
           /\ \A a \in Accounts :
                Settled(u).users[a] = IF a = u THEN CurrentIndex ELSE asset.users[a]
<1>1. now \in Nat /\ totalSupply \in Nat /\ SettledAt(asset, Accounts, now)
  BY IndInvSettled
<1> QED
  BY <1>1, UserAssetRecord DEF Settled, CurrentIndex

LEMMA SettledRecords ==
    ASSUME IndInv, NEW u \in Accounts, NEW v \in Accounts
    PROVE  LET r == UpdateUserAsset(Settled(u), v, totalSupply, now) IN
           /\ r.index = CurrentIndex /\ r.lastUpdateTimestamp = now
           /\ \A a \in Accounts :
                r.users[a] = IF a \in {u, v} THEN CurrentIndex ELSE asset.users[a]
<1> DEFINE s == Settled(u)
           t == [s EXCEPT !.index = s.index, !.lastUpdateTimestamp = now]
<1>1. /\ s.index = CurrentIndex /\ s.lastUpdateTimestamp = now
      /\ s \in AssetData(Accounts)
      /\ \A a \in Accounts :
            s.users[a] = IF a = u THEN CurrentIndex ELSE asset.users[a]
  BY SettledRecord
<1>2. GetAssetIndex(s, totalSupply, now) = s.index
  BY <1>1 DEF GetAssetIndex
<1>3. UpdateAssetState(s, totalSupply, now) = t
  BY <1>2 DEF UpdateAssetState
<1> HIDE DEF s
<1>4. t = s
  BY <1>1 DEF AssetData
<1>5. UpdateUserAsset(s, v, totalSupply, now) = [s EXCEPT !.users[v] = s.index]
  BY <1>3, <1>4 DEF UpdateUserAsset
<1> HIDE DEF t
<1>6. LET r == [s EXCEPT !.users[v] = s.index] IN
      /\ r.index = s.index /\ r.lastUpdateTimestamp = s.lastUpdateTimestamp
      /\ \A a \in Accounts : r.users[a] = IF a = v THEN s.index ELSE s.users[a]
  BY <1>1 DEF AssetData
<1> QED
  BY <1>1, <1>5, <1>6 DEF s

\* stake, redeem and a transfer to oneself settle and store.
LEMMA UpdateSettles ==
    ASSUME RewardInv, NEW u \in Accounts, UpdateCurrentUnclaimedRewards(u),
           now' = now, claimed' = claimed,
           \A a \in Accounts \ {u} : balances'[a] = balances[a]
    PROVE  SettlesFor({u})
<1>1. asset' = Settled(u)
      /\ stakerRewardsToClaim' = [stakerRewardsToClaim EXCEPT ![u] = @ + Accrued(u)]
  BY DEF UpdateCurrentUnclaimedRewards
<1>2. /\ asset'.index = CurrentIndex /\ asset'.lastUpdateTimestamp = now
      /\ \A a \in Accounts :
            asset'.users[a] = IF a = u THEN CurrentIndex ELSE asset.users[a]
  BY <1>1, SettledRecord DEF RewardInv
<1>3. /\ claimed[u] \in Nat /\ stakerRewardsToClaim[u] \in Nat /\ Accrued(u) \in Nat
      /\ stakerRewardsToClaim \in [Accounts -> Nat]
  BY AccruedExactly DEF RewardInv, RewardTypes, IndInv, TypeOK
<1>4. Paid(u)' = Paid(u) + Accrued(u)
  BY <1>1, <1>3 DEF Paid
<1>5. \A a \in Accounts \ {u} : Paid(a)' = Paid(a)
  BY <1>1, <1>3 DEF Paid
<1> QED
  BY <1>2, <1>4, <1>5 DEF SettlesFor

LEMMA StakeSettles ==
    ASSUME RewardInv, NEW u \in Users, NEW a \in Accounts, NEW n \in Amounts,
           Stake(u, a, n), claimed' = claimed
    PROVE  SettlesFor({a})
<1>1. \A b \in Accounts \ {a} : balances'[b] = balances[b]
  BY DEF Stake, RewardInv, IndInv, TypeOK
<1> QED
  BY <1>1, UpdateSettles DEF Stake

LEMMA RedeemSettles ==
    ASSUME RewardInv, NEW u \in Users, NEW a \in Accounts, NEW n \in Limits,
           Redeem(u, a, n), claimed' = claimed
    PROVE  SettlesFor({u})
<1>1. \A b \in Accounts \ {u} : balances'[b] = balances[b]
  BY DEF Redeem, RewardInv, IndInv, TypeOK
<1>2. u \in Accounts
  BY DEF Accounts
<1> QED
  BY <1>1, <1>2, UpdateSettles DEF Redeem

LEMMA SelfSettles ==
    ASSUME RewardInv, NEW u \in Users, NEW n \in Amounts \cup {0},
           TransferToSelf(u, n), claimed' = claimed
    PROVE  SettlesFor({u})
<1>1. u \in Accounts /\ balances' = balances
  BY DEF Accounts, TransferToSelf
<1> QED
  BY <1>1, UpdateSettles DEF TransferToSelf

LEMMA TransferSettles ==
    ASSUME RewardInv, NEW u \in Users, NEW a \in Accounts, NEW n \in Amounts \cup {0},
           TransferToOther(u, a, n), claimed' = claimed
    PROVE  SettlesFor({u, a})
<1>1. u \in Accounts /\ u # a
  BY DEF Accounts, TransferToOther
<1>2. /\ asset'.index = CurrentIndex /\ asset'.lastUpdateTimestamp = now
      /\ \A b \in Accounts :
            asset'.users[b] = IF b \in {u, a} THEN CurrentIndex ELSE asset.users[b]
  BY <1>1, SettledRecords DEF RewardInv, TransferToOther
<1>3. /\ Accrued(u) \in Nat /\ Accrued(a) \in Nat
      /\ claimed \in [Accounts -> Nat]
      /\ stakerRewardsToClaim \in [Accounts -> Nat]
      /\ balances \in [Accounts -> Nat]
  BY <1>1, AccruedExactly DEF RewardInv, RewardTypes, IndInv, TypeOK
<1>4. stakerRewardsToClaim' = [stakerRewardsToClaim EXCEPT
            ![u] = @ + Accrued(u), ![a] = @ + Accrued(a)]
  BY DEF TransferToOther
<1>5. Paid(u)' = Paid(u) + Accrued(u) /\ Paid(a)' = Paid(a) + Accrued(a)
  BY <1>1, <1>3, <1>4 DEF Paid
<1>6. \A b \in Accounts \ {u, a} : Paid(b)' = Paid(b) /\ balances'[b] = balances[b]
  BY <1>1, <1>3, <1>4 DEF Paid, TransferToOther, Moved
<1>7. now' = now
  BY DEF TransferToOther
<1> QED
  BY <1>2, <1>5, <1>6, <1>7 DEF SettlesFor

\* What a claim takes is something that is owed.
LEMMA ClaimSettles ==
    ASSUME RewardInv, NEW u \in Users, NEW a \in Accounts, NEW n \in Limits,
           ClaimRewards(u, a, n),
           claimed' = [claimed EXCEPT ![u] = @ + AmountToClaim(u, n)]
    PROVE  SettlesFor({u}) /\ claimed' \in [Accounts -> Nat]
<1> DEFINE m == AmountToClaim(u, n)
           owed == stakerRewardsToClaim[u] + Accrued(u)
<1>1. u \in Accounts /\ n \in Nat
  BY StakedTokenAssumption DEF Accounts, Limits
<1>2. /\ Accrued(u) \in Nat /\ claimed \in [Accounts -> Nat]
      /\ stakerRewardsToClaim \in [Accounts -> Nat]
  BY <1>1, AccruedExactly DEF RewardInv, RewardTypes, IndInv, TypeOK
<1>3. m \in Nat
  BY <1>1, <1>2 DEF AmountToClaim
<1>4. /\ asset' = Settled(u) /\ m <= owed /\ now' = now /\ balances' = balances
      /\ stakerRewardsToClaim' = [stakerRewardsToClaim EXCEPT ![u] = owed - m]
  BY DEF ClaimRewards
<1>5. claimed' = [claimed EXCEPT ![u] = claimed[u] + m]
  OBVIOUS
<1> HIDE DEF m
<1>6. /\ asset'.index = CurrentIndex /\ asset'.lastUpdateTimestamp = now
      /\ \A b \in Accounts :
            asset'.users[b] = IF b = u THEN CurrentIndex ELSE asset.users[b]
  BY <1>1, <1>4, SettledRecord DEF RewardInv
<1>7. Paid(u)' = Paid(u) + Accrued(u)
  <2>1. claimed'[u] = claimed[u] + m /\ stakerRewardsToClaim'[u] = owed - m
    BY <1>1, <1>2, <1>4, <1>5
  <2>2. claimed[u] \in Nat /\ stakerRewardsToClaim[u] \in Nat
    BY <1>1, <1>2
  <2> QED
    BY <1>2, <1>3, <2>1, <2>2 DEF Paid
<1>8. \A b \in Accounts \ {u} : Paid(b)' = Paid(b)
  BY <1>2, <1>4, <1>5 DEF Paid
<1>9. claimed' \in [Accounts -> Nat]
  BY <1>1, <1>2, <1>3, <1>5
<1> QED
  BY <1>4, <1>6, <1>7, <1>8, <1>9 DEF SettlesFor

\* Nothing that counts for the rewards changes.
Untouched ==
    UNCHANGED <<now, asset, balances, totalSupply, stakerRewardsToClaim, claimed>>

(***************************************************************************)
(* Every transaction but a configuration settles for some accounts, or     *)
(* leaves the rewards alone; none touches what the observer counts of the  *)
(* emission.                                                               *)
(***************************************************************************)
LEMMA TransactionSettles ==
    ASSUME RewardInv, [RewardNext]_rewardVars, ~ Tick, ~ ConfigureStep
    PROVE  /\ UNCHANGED <<emitted, fairShare>>
           /\ Untouched \/ \E U \in SUBSET Accounts : SettlesFor(U)
<1>1. CASE SecondPasses
  BY <1>1 DEF SecondPasses
<1>2. CASE RewardsPaid
  <2>1. PICK u \in Users, a \in Accounts, n \in Limits :
            /\ ClaimRewards(u, a, n)
            /\ claimed' = [claimed EXCEPT ![u] = @ + AmountToClaim(u, n)]
    BY <1>2 DEF RewardsPaid
  <2>2. SettlesFor({u}) /\ {u} \in SUBSET Accounts
    BY <2>1, ClaimSettles DEF Accounts
  <2> QED
    BY <1>2, <2>2 DEF RewardsPaid
<1>3. CASE StakeStep /\ UNCHANGED <<emitted, fairShare, claimed>>
  <2>1. PICK u \in Users, a \in Accounts, n \in Amounts : Stake(u, a, n)
    BY <1>3 DEF StakeStep
  <2>2. SettlesFor({a})
    BY <1>3, <2>1, StakeSettles
  <2> QED
    BY <1>3, <2>2
<1>4. CASE RedeemStep /\ UNCHANGED <<emitted, fairShare, claimed>>
  <2>1. PICK u \in Users, a \in Accounts, n \in Limits : Redeem(u, a, n)
    BY <1>4 DEF RedeemStep
  <2>2. SettlesFor({u}) /\ {u} \in SUBSET Accounts
    BY <1>4, <2>1, RedeemSettles DEF Accounts
  <2> QED
    BY <1>4, <2>2
<1>5. CASE CooldownStep /\ UNCHANGED <<emitted, fairShare, claimed>>
  BY <1>5 DEF CooldownStep, Cooldown, Untouched
<1>6. CASE TransferStep /\ UNCHANGED <<emitted, fairShare, claimed>>
  <2>1. PICK u \in Users, n \in Amounts \cup {0} :
            TransferToSelf(u, n) \/ \E a \in Accounts : TransferToOther(u, a, n)
    BY <1>6 DEF TransferStep
  <2>2. u \in Accounts
    BY DEF Accounts
  <2>3. CASE TransferToSelf(u, n)
    <3>1. SettlesFor({u})
      BY <1>6, <2>3, SelfSettles
    <3> QED
      BY <1>6, <2>2, <3>1
  <2>4. CASE \E a \in Accounts : TransferToOther(u, a, n)
    <3>1. PICK a \in Accounts : TransferToOther(u, a, n)
      BY <2>4
    <3>2. SettlesFor({u, a})
      BY <1>6, <3>1, TransferSettles
    <3> QED
      BY <1>6, <2>2, <3>2
  <2> QED
    BY <2>1, <2>3, <2>4
<1>7. CASE UNCHANGED rewardVars
  BY <1>7 DEF rewardVars, Untouched
<1> QED
  BY <1>1, <1>2, <1>3, <1>4, <1>5, <1>6, <1>7 DEF RewardNext

-----------------------------------------------------------------------------
(* The inductive invariant, as far as it says what the values are. *)

LEMMA RewardIsStaked == RewardSpec => Spec
<1>1. RewardInit => Init
  BY DEF RewardInit
<1>2. [RewardNext]_rewardVars => [Next]_vars
  BY DEF RewardNext, SecondPasses, RewardsPaid, Next, ClaimStep, rewardVars, vars
<1> QED
  BY <1>1, <1>2, PTL DEF RewardSpec, Spec

\* A part of the emission is a natural.
LEMMA ShareNat ==
    ASSUME IndInv, totalSupply # 0, NEW a \in Accounts
    PROVE  balances[a] * asset.emissionPerSecond * (FairScale \div totalSupply) \in Nat
<1> DEFINE q == FairScale \div totalSupply
           e == asset.emissionPerSecond
<1>1. /\ balances[a] \in Nat /\ e \in Nat /\ totalSupply \in Nat /\ FairScale \in Nat
  BY FairScaleAssumption DEF IndInv, TypeOK, AssetData
<1>2. q \in Nat
  BY <1>1, QuotientBounds
<1> HIDE DEF q, e
<1>3. balances[a] * e \in Nat
  BY <1>1, ProductNat
<1> QED
  BY <1>2, <1>3, ProductNat DEF q, e

LEMMA RewardTypesKept ==
    ASSUME RewardInv, [RewardNext]_rewardVars
    PROVE  RewardTypes'
<1>1. CASE SecondPasses
  <2>1. CASE Emitting
    <3>1. /\ emitted' = emitted + asset.emissionPerSecond /\ claimed' = claimed
          /\ fairShare' = [a \in Accounts |-> fairShare[a] +
                balances[a] * asset.emissionPerSecond * (FairScale \div totalSupply)]
      BY <1>1, <2>1 DEF SecondPasses
    <3>2. \A a \in Accounts :
            balances[a] * asset.emissionPerSecond * (FairScale \div totalSupply) \in Nat
      BY <2>1, ShareNat DEF RewardInv, Emitting
    <3>3. \A a \in Accounts : fairShare[a] \in Nat
      BY DEF RewardInv, RewardTypes
    <3>4. fairShare' \in [Accounts -> Nat]
      BY <3>1, <3>2, <3>3
    <3>5. emitted' \in Nat
      BY <3>1 DEF RewardInv, RewardTypes, IndInv, TypeOK, AssetData
    <3> QED
      BY <3>1, <3>4, <3>5 DEF RewardInv, RewardTypes
  <2>2. CASE ~ Emitting
    BY <1>1, <2>2 DEF SecondPasses, RewardInv, RewardTypes
  <2> QED
    BY <2>1, <2>2
<1>2. CASE RewardsPaid
  <2>1. PICK u \in Users, a \in Accounts, n \in Limits :
            /\ ClaimRewards(u, a, n)
            /\ claimed' = [claimed EXCEPT ![u] = @ + AmountToClaim(u, n)]
    BY <1>2 DEF RewardsPaid
  <2>2. claimed' \in [Accounts -> Nat]
    BY <2>1, ClaimSettles
  <2> QED
    BY <1>2, <2>2 DEF RewardsPaid, RewardInv, RewardTypes
<1>3. CASE UNCHANGED <<emitted, fairShare, claimed>>
  BY <1>3 DEF RewardInv, RewardTypes
<1> QED
  BY <1>1, <1>2, <1>3 DEF RewardNext, rewardVars

LEMMA RewardInvAlways == RewardSpec => []RewardInv
<1>1. RewardInit => RewardTypes
  BY DEF RewardInit, RewardTypes
<1>2. RewardInv /\ [RewardNext]_rewardVars => RewardTypes'
  BY RewardTypesKept
<1>3. RewardSpec => []IndInv /\ []SupplyBacked
  BY RewardIsStaked, IndInvHolds, SupplyStaysBacked, PTL
<1>4. RewardInv <=> IndInv /\ SupplyBacked /\ RewardTypes
  BY DEF RewardInv
<1> QED
  BY <1>1, <1>2, <1>3, <1>4, PTL DEF RewardSpec

-----------------------------------------------------------------------------
(* No transaction changes what anybody has earned. *)

\* Only the step of the clock moves it.
LEMMA TimePasses ==
    ASSUME RewardInv, [RewardNext]_rewardVars, Tick
    PROVE  SecondPasses
<1>1. now' # now
  BY DEF Tick, RewardInv, IndInv, TypeOK
<1>2. StakeStep \/ RedeemStep \/ CooldownStep \/ TransferStep \/ ConfigureStep
        \/ RewardsPaid \/ UNCHANGED rewardVars => now' = now
  BY DEF StakeStep, Stake, RedeemStep, Redeem, CooldownStep, Cooldown, TransferStep,
         TransferToSelf, TransferToOther, ConfigureStep, ConfigureAssets, RewardsPaid,
         ClaimRewards, rewardVars
<1> QED
  BY <1>1, <1>2 DEF RewardNext

\* Time only adds to it.
LEMMA EarnedTick ==
    ASSUME RewardInv, RewardInv', SecondPasses, NEW a \in Accounts
    PROVE  Earned(a)' >= Earned(a)
<1> DEFINE b == balances[a]
           u == asset.users[a]
           i == CurrentIndex
           j == CurrentIndex'
<1>1. Tick /\ claimed' = claimed
  BY DEF SecondPasses
<1>2. /\ balances' = balances /\ asset' = asset
      /\ stakerRewardsToClaim' = stakerRewardsToClaim
  BY <1>1 DEF Tick
<1>3. /\ Paid(a) \in Nat /\ Earned(a) = Paid(a) + Accrued(a)
      /\ Accrued(a) = (b * (i - u)) \div Scale
  BY EarnedIs DEF PaidAndAccrued, Accruing
<1>4. Earned(a)' = Paid(a)' + Accrued(a)' /\ Accrued(a)' = (b * (j - u)) \div Scale
  BY <1>2, EarnedNext DEF PaidAndAccrued, Accruing
<1>5. Paid(a)' = Paid(a)
  BY <1>1, <1>2 DEF Paid
<1>6. /\ b \in Nat /\ u \in Nat /\ i \in Nat /\ u <= i /\ j \in Nat /\ i <= j
  <2>1. u \in Nat /\ u <= asset.index /\ asset.index \in Nat /\ asset.index <= i /\ i \in Nat
    BY AccruedExactly DEF RewardInv
  <2>2. j \in Nat /\ i <= j
    BY <1>1, IndexTick DEF RewardInv
  <2>3. b \in Nat
    BY DEF RewardInv, IndInv, TypeOK
  <2> HIDE DEF i, j, u, b
  <2> QED
    BY <2>1, <2>2, <2>3
<1> HIDE DEF b, u, i, j
<1>7. i - u \in Nat /\ j - u \in Nat /\ i - u <= j - u
  BY <1>6
<1>8. b * (i - u) \in Nat /\ b * (j - u) \in Nat /\ b * (i - u) <= b * (j - u)
  BY <1>6, <1>7, ProductNat, ProductMonotone
<1>9. /\ (b * (i - u)) \div Scale <= (b * (j - u)) \div Scale
      /\ (b * (i - u)) \div Scale \in Nat /\ (b * (j - u)) \div Scale \in Nat
  BY <1>8, DistributionAssumption, QuotientMonotone, QuotientBounds
<1> QED
  BY <1>3, <1>4, <1>5, <1>9

(***************************************************************************)
(* Whatever the transaction and its order in the block, every account has  *)
(* earned afterwards what it had earned before, to the last unit, and time *)
(* takes nothing away.                                                     *)
(***************************************************************************)
THEOREM EarningsAlwaysSettledExactly == RewardSpec => EarningsSettledExactly
<1>1. RewardInv /\ RewardInv' /\ [RewardNext]_rewardVars =>
        [~ ConfigureStep =>
            \A a \in Accounts : IF now' = now THEN Earned(a)' = Earned(a)
                                ELSE Earned(a)' >= Earned(a)]_rewardVars
  <2> SUFFICES ASSUME RewardInv, RewardInv', [RewardNext]_rewardVars, ~ ConfigureStep,
                      NEW a \in Accounts
               PROVE  IF now' = now THEN Earned(a)' = Earned(a)
                                    ELSE Earned(a)' >= Earned(a)
    OBVIOUS
  <2>1. CASE Tick
    <3>1. now' # now
      BY <2>1 DEF Tick, RewardInv, IndInv, TypeOK
    <3>2. SecondPasses
      BY <2>1, TimePasses
    <3> QED
      BY <3>1, <3>2, EarnedTick
  <2>2. CASE ~ Tick
    <3>1. CASE Untouched
      <4>1. now' = now /\ Earned(a)' = Earned(a)
        BY <3>1 DEF Untouched, Earned, GetTotalRewardsBalance, Accrued
      <4> QED
        BY <4>1
    <3>2. ASSUME NEW U, SettlesFor(U)
          PROVE  now' = now /\ Earned(a)' = Earned(a)
      BY <3>2, SettlementKeeps DEF SettlesFor
    <3> QED
      BY <2>2, <3>1, <3>2, TransactionSettles
  <2> QED
    BY <2>1, <2>2
<1> QED
  BY <1>1, RewardInvAlways, PTL DEF RewardSpec, EarningsSettledExactly

-----------------------------------------------------------------------------
(* Nobody earns more than its part, and all together not more than was     *)
(* emitted.                                                                *)

(***************************************************************************)
(* What a step leaves recorded is at most what was owed before it, and     *)
(* nothing is pending then.  This holds of a configuration too, as long as *)
(* the manager reports the stake as it is, or none.                        *)
(***************************************************************************)
Books ==
    /\ Pending' = 0
    /\ \A a \in Accounts : Recorded(a)' <= AsOfNow(a)

LEMMA ConfigurationBooks ==
    ASSUME RewardInv, RewardInv', Misreports = {},
           ConfigureStep, UNCHANGED claimed
    PROVE  Books
<1>1. PICK e \in Emissions, s \in {0, totalSupply} : ConfigureAssets(e, s)
  BY DEF ConfigureStep
<1> DEFINE j == GetAssetIndex(asset, s, now)
           r == [asset EXCEPT !.index = j, !.lastUpdateTimestamp = now]
<1>2. /\ asset' = [r EXCEPT !.emissionPerSecond = e]
      /\ UNCHANGED <<now, balances, totalSupply, stakerRewardsToClaim>>
  BY <1>1 DEF ConfigureAssets, ConfigureAsset, UpdateAssetState
<1>3. /\ asset \in AssetData(Accounts) /\ now \in Nat /\ s \in Nat /\ e \in Nat
      /\ asset.lastUpdateTimestamp <= now
      /\ DISTRIBUTION_END \in Nat /\ Scale \in Nat
  BY StakedTokenAssumption, DistributionAssumption DEF RewardInv, IndInv, TypeOK, IndexesOrdered
<1>4. j \in Nat /\ asset.index <= j /\ j <= CurrentIndex /\ CurrentIndex \in Nat
  <2>1. j \in Nat /\ asset.index <= j
    BY <1>3, IndexGrows
  <2>2. asset.index <= CurrentIndex /\ CurrentIndex \in Nat
    BY <1>3, IndexGrows DEF CurrentIndex, RewardInv, IndInv, TypeOK
  <2>3. CASE s = totalSupply
    <3>1. j = CurrentIndex
      BY <2>3 DEF CurrentIndex
    <3> HIDE DEF j
    <3> QED
      BY <2>1, <2>2, <3>1
  <2>4. CASE s = 0
    <3>1. j = asset.index
      BY <2>4 DEF GetAssetIndex
    <3> HIDE DEF j
    <3> QED
      BY <2>1, <2>2, <3>1
  <2> QED
    BY <2>3, <2>4
<1> HIDE DEF j
<1>5. /\ r \in AssetData(Accounts) /\ r.index = j /\ r.lastUpdateTimestamp = now
      /\ r.users = asset.users
  BY <1>3, <1>4 DEF AssetData
<1> HIDE DEF r
<1>6. /\ asset'.index = j /\ asset'.lastUpdateTimestamp = now /\ asset'.users = asset.users
      /\ asset'.emissionPerSecond = e
  BY <1>2, <1>3, <1>5 DEF AssetData
<1>7. Pending' = 0
  <2>1. asset' \in AssetData(Accounts) /\ totalSupply' \in Nat /\ now' \in Nat
    BY DEF RewardInv, IndInv, TypeOK
  <2>2. asset'.lastUpdateTimestamp = now'
    BY <1>2, <1>6
  <2> QED
    BY <2>1, <2>2, SettledNow DEF Pending
<1>8. ASSUME NEW a \in Accounts PROVE Recorded(a)' <= AsOfNow(a)
  <2> DEFINE b == balances[a]
             u == asset.users[a]
  <2>1. /\ b \in Nat /\ u \in Nat /\ u <= asset.index /\ asset.index \in Nat
        /\ Paid(a) \in Nat /\ Accruing(a, CurrentIndex) \in Nat
    BY AccruedExactly, EarnedIs DEF RewardInv, IndInv, TypeOK, PaidAndAccrued
  <2>2. Recorded(a)' = Paid(a) * Scale + b * (j - u)
    BY <1>2, <1>6 DEF Recorded, Paid, Accruing
  <2>3. AsOfNow(a) = Paid(a) * Scale + b * (CurrentIndex - u)
    BY DEF AsOfNow, Accruing
  <2> HIDE DEF b, u
  <2>4. j - u \in Nat /\ CurrentIndex - u \in Nat /\ j - u <= CurrentIndex - u
    BY <1>4, <2>1
  <2>5. b * (j - u) <= b * (CurrentIndex - u)
        /\ b * (j - u) \in Nat /\ b * (CurrentIndex - u) \in Nat
    BY <2>1, <2>4, ProductMonotone, ProductNat
  <2>6. Paid(a) * Scale \in Nat
    BY <1>3, <2>1, ProductNat
  <2> QED
    BY <2>2, <2>3, <2>5, <2>6
<1> QED
  BY <1>7, <1>8 DEF Books

\* Every step settles the books, lets a second pass, or leaves all alone.
LEMMA StepBooks ==
    ASSUME RewardInv, RewardInv', Misreports = {}, [RewardNext]_rewardVars, ~ SecondPasses
    PROVE  /\ UNCHANGED <<emitted, fairShare>>
           /\ Untouched \/ Books
<1>1. ~ Tick
  BY TimePasses
<1>2. CASE ConfigureStep
  <2>1. now' = now /\ UNCHANGED <<balances, totalSupply, stakerRewardsToClaim, psys>>
    BY <1>2 DEF ConfigureStep, ConfigureAssets
  <2>2. CASE UNCHANGED <<emitted, fairShare, claimed>>
    BY <1>2, <2>2, ConfigurationBooks
  <2>3. CASE RewardsPaid
    <3>1. PICK u \in Users, a \in Accounts, n \in Limits :
            /\ ClaimRewards(u, a, n)
            /\ claimed' = [claimed EXCEPT ![u] = @ + AmountToClaim(u, n)]
      BY <2>3 DEF RewardsPaid
    <3>2. SettlesFor({u})
      BY <3>1, ClaimSettles
    <3> QED
      BY <2>3, <3>2, SettlementKeeps DEF RewardsPaid, Books
  <2> QED
    BY <2>2, <2>3 DEF RewardNext, rewardVars
<1>3. CASE ~ ConfigureStep
  <2>1. ASSUME NEW U, SettlesFor(U) PROVE Books
    BY <2>1, SettlementKeeps DEF Books
  <2> QED
    BY <1>1, <1>3, <2>1, TransactionSettles
<1> QED
  BY <1>2, <1>3

\* What is recorded and what is owed are naturals.
BooksTyped == \A a \in Accounts : Recorded(a) \in Nat /\ AsOfNow(a) \in Nat

LEMMA BooksAreTyped == RewardInv => BooksTyped
<1> SUFFICES ASSUME RewardInv, NEW a \in Accounts
             PROVE  Recorded(a) \in Nat /\ AsOfNow(a) \in Nat
  BY DEF BooksTyped
<1>1. /\ Paid(a) \in Nat /\ Accruing(a, asset.index) \in Nat
      /\ Accruing(a, CurrentIndex) \in Nat /\ Scale \in Nat
  BY AccruedExactly, EarnedIs, DistributionAssumption DEF RewardInv, PaidAndAccrued
<1>2. Paid(a) * Scale \in Nat
  BY <1>1, ProductNat
<1> QED
  BY <1>1, <1>2 DEF Recorded, AsOfNow

LEMMA BooksTypedNext == RewardInv' => BooksTyped'
  BY BooksAreTyped, PTL

\* What is owed and not recorded is what the index gained, for every share.
LEMMA OwedIs ==
    ASSUME RewardInv, NEW a \in Accounts
    PROVE  /\ CurrentIndex - asset.index \in Nat
           /\ AsOfNow(a) = Recorded(a) + balances[a] * (CurrentIndex - asset.index)
           /\ Earned(a) * Scale <= AsOfNow(a)
<1> DEFINE b == balances[a]
           u == asset.users[a]
           i == asset.index
           j == CurrentIndex
<1>1. /\ b \in Nat /\ u \in Nat /\ u <= i /\ i \in Nat /\ i <= j /\ j \in Nat
      /\ Paid(a) \in Nat /\ Accrued(a) \in Nat /\ Earned(a) = Paid(a) + Accrued(a)
      /\ Accrued(a) * Scale <= Accruing(a, CurrentIndex)
      /\ Scale \in Nat /\ Accruing(a, CurrentIndex) \in Nat
  BY AccruedExactly, EarnedIs, DistributionAssumption
  DEF RewardInv, IndInv, TypeOK, PaidAndAccrued
<1>2. Recorded(a) = Paid(a) * Scale + b * (i - u) /\ AsOfNow(a) = Paid(a) * Scale + b * (j - u)
  BY DEF Recorded, AsOfNow, Accruing
<1>3. AsOfNow(a) = Paid(a) * Scale + Accruing(a, CurrentIndex)
  BY DEF AsOfNow
<1> HIDE DEF b, u, i, j
<1>4. j - i \in Nat /\ i - u \in Nat
  BY <1>1
<1>5. b * (j - u) = b * (i - u) + b * (j - i)
  BY <1>1
<1>6. /\ Paid(a) * Scale \in Nat /\ Accrued(a) * Scale \in Nat
      /\ Earned(a) * Scale = Paid(a) * Scale + Accrued(a) * Scale
  BY <1>1, ProductNat
<1>7. b * (i - u) \in Nat /\ b * (j - i) \in Nat
  BY <1>1, <1>4, ProductNat
<1>8. AsOfNow(a) = Recorded(a) + b * (j - i)
  BY <1>2, <1>5, <1>6, <1>7
<1>9. Earned(a) * Scale <= AsOfNow(a)
  BY <1>1, <1>3, <1>6
<1> QED
  BY <1>4, <1>8, <1>9 DEF b, i, j

EmissionInv ==
    Total([a \in Accounts |-> Recorded(a)]) + Pending * Scale <= emitted * Scale

LEMMA OwedWithinEmission ==
    ASSUME RewardInv, EmissionInv
    PROVE  Total([a \in Accounts |-> AsOfNow(a)]) <= emitted * Scale
<1> DEFINE rec  == [a \in Accounts |-> Recorded(a)]
           d    == CurrentIndex - asset.index
           gain == [a \in Accounts |-> balances[a] * d]
           owed == [a \in Accounts |-> AsOfNow(a)]
<1>1. /\ balances \in [Accounts -> Nat] /\ totalSupply \in Nat
      /\ Total(balances) = totalSupply /\ emitted \in Nat /\ Scale \in Nat
      /\ asset.index \in Nat
  BY DistributionAssumption
  DEF RewardInv, IndInv, TypeOK, AssetData, SupplyBacked, RewardTypes
<1>2. d \in Nat /\ d * totalSupply <= Pending * Scale /\ Pending \in Nat
  <2>1. asset.index <= CurrentIndex /\ CurrentIndex \in Nat
    BY IndexGrows DEF CurrentIndex, RewardInv, IndInv, TypeOK, IndexesOrdered
  <2> QED
    BY <1>1, <2>1, IndexPending DEF RewardInv
<1>3. \A a \in Accounts : AsOfNow(a) = Recorded(a) + balances[a] * d
  BY OwedIs
<1>4. rec \in [Accounts -> Nat]
  BY BooksAreTyped DEF BooksTyped
<1> HIDE DEF d
<1>5. gain \in [Accounts -> Nat]
  BY <1>1, <1>2, ProductNat
<1>6. owed = [a \in Accounts |-> rec[a] + gain[a]]
  BY <1>3
<1>7. Total(gain) = totalSupply * d
  BY <1>1, <1>2, AccountsFinite, TotalTimes
<1> HIDE DEF rec, gain, owed
<1>8. Total(owed) = Total(rec) + Total(gain)
  BY <1>4, <1>5, <1>6, AccountsFinite, TotalSum
<1>9. Total(rec) \in Nat /\ Total(gain) \in Nat
  BY <1>4, <1>5, AccountsFinite, TotalBounds
<1>10. Pending * Scale \in Nat /\ emitted * Scale \in Nat /\ totalSupply * d = d * totalSupply
  BY <1>1, <1>2, ProductNat
<1>11. Total(rec) + Pending * Scale <= emitted * Scale
  BY DEF EmissionInv, rec
<1> QED
  BY <1>2, <1>7, <1>8, <1>9, <1>10, <1>11 DEF owed

LEMMA EmissionKept ==
    ASSUME RewardInv, RewardInv', Misreports = {}, EmissionInv, [RewardNext]_rewardVars
    PROVE  EmissionInv'
<1> DEFINE rec  == [a \in Accounts |-> Recorded(a)]
           owed == [a \in Accounts |-> AsOfNow(a)]
<1>1. rec \in [Accounts -> Nat] /\ owed \in [Accounts -> Nat] /\ rec' \in [Accounts -> Nat]
  BY BooksAreTyped, BooksTypedNext DEF BooksTyped
<1>2. /\ emitted \in Nat /\ Scale \in Nat /\ asset.emissionPerSecond \in Nat /\ Pending \in Nat
      /\ Total(rec) \in Nat
  BY <1>1, DistributionAssumption, IndexPending, AccountsFinite, TotalBounds
  DEF RewardInv, RewardTypes, IndInv, TypeOK, AssetData
<1>3. CASE SecondPasses
  <2> DEFINE e == IF Emitting THEN asset.emissionPerSecond ELSE 0
  <2>1. Tick /\ claimed' = claimed /\ emitted' = emitted + e
    BY <1>2, <1>3 DEF SecondPasses
  <2>2. rec' = rec
    BY <2>1 DEF Tick, Recorded, Paid, Accruing
  <2>3. Pending' = Pending + e
    BY <2>1, PendingTick DEF RewardInv
  <2>4. e \in Nat
    BY <1>2
  <2> HIDE DEF e, rec
  <2>5. /\ (Pending + e) * Scale = Pending * Scale + e * Scale
        /\ (emitted + e) * Scale = emitted * Scale + e * Scale
        /\ Pending * Scale \in Nat /\ e * Scale \in Nat /\ emitted * Scale \in Nat
    BY <1>2, <2>4, ProductNat
  <2>6. Total(rec) + Pending * Scale <= emitted * Scale
    BY DEF EmissionInv, rec
  <2>7. Total(rec) + Pending' * Scale <= emitted' * Scale
    BY <1>2, <2>1, <2>3, <2>5, <2>6
  <2>8. Total(rec') + Pending' * Scale <= emitted' * Scale
    BY <2>2, <2>7
  <2> QED
    BY <2>8 DEF EmissionInv, rec
<1>4. CASE ~ SecondPasses
  <2>1. UNCHANGED <<emitted, fairShare>> /\ (Untouched \/ Books)
    BY <1>4, StepBooks
  <2>2. CASE Untouched
    BY <2>1, <2>2
    DEF Untouched, EmissionInv, Recorded, Paid, Accruing, Pending
  <2>3. CASE Books
    <3>1. \A a \in Accounts : rec'[a] <= owed[a]
      BY <2>3 DEF Books
    <3>2. Total(owed) <= emitted * Scale
      BY OwedWithinEmission
    <3>3. Pending' = 0 /\ emitted' = emitted
      BY <2>1, <2>3 DEF Books
    <3> HIDE DEF rec, owed
    <3>4. Total(rec') <= Total(owed) /\ Total(rec') \in Nat /\ Total(owed) \in Nat
      BY <1>1, <3>1, AccountsFinite, TotalMonotone, TotalBounds
    <3>5. emitted * Scale \in Nat
      BY <1>2, ProductNat
    <3>6. Total(rec') + Pending' * Scale <= emitted' * Scale
      BY <1>2, <3>2, <3>3, <3>4, <3>5
    <3> QED
      BY <3>6 DEF EmissionInv, rec
  <2> QED
    BY <2>1, <2>2, <2>3
<1> QED
  BY <1>3, <1>4

LEMMA EmissionStarts ==
    ASSUME RewardInit
    PROVE  EmissionInv
<1> DEFINE rec == [a \in Accounts |-> Recorded(a)]
<1>1. \A a \in Accounts : Recorded(a) = 0
  BY DistributionAssumption
  DEF RewardInit, Init, EmptyAsset, Recorded, Paid, Accruing
<1>2. rec = [a \in Accounts |-> 0]
  BY <1>1
<1>3. Total(rec) = 0
  BY <1>2, TotalZero
<1>4. Pending = 0 /\ emitted = 0
  BY DEF RewardInit, Init, Pending, PendingOf
<1> HIDE DEF rec
<1>5. Total(rec) + Pending * Scale <= emitted * Scale
  BY <1>3, <1>4, DistributionAssumption
<1> QED
  BY <1>5 DEF EmissionInv, rec

(***************************************************************************)
(* All that was paid, stored and accrued never exceeds what was emitted,   *)
(* provided that the manager reports the stake as it is, or as 0, when it  *)
(* configures the distribution.  It is needed: the contract believes what  *)
(* is reported, and too small a stake gives away more than the emission.   *)
(***************************************************************************)
THEOREM RewardsAlwaysWithinEmission ==
    ASSUME Misreports = {}
    PROVE  RewardSpec => []RewardsWithinEmission
<1>1. RewardInit => EmissionInv
  BY EmissionStarts
<1>2. RewardInv /\ RewardInv' /\ EmissionInv /\ [RewardNext]_rewardVars => EmissionInv'
  BY EmissionKept
<1>3. RewardInv /\ EmissionInv => RewardsWithinEmission
  <2> SUFFICES ASSUME RewardInv, EmissionInv PROVE RewardsWithinEmission
    OBVIOUS
  <2> DEFINE earned == [a \in Accounts |-> Earned(a)]
             scaled == [a \in Accounts |-> earned[a] * Scale]
             owed   == [a \in Accounts |-> AsOfNow(a)]
  <2>1. /\ earned \in [Accounts -> Nat] /\ owed \in [Accounts -> Nat]
        /\ Scale \in Nat /\ Scale # 0 /\ emitted \in Nat
    BY EarnedIs, BooksAreTyped, DistributionAssumption
    DEF PaidAndAccrued, BooksTyped, RewardInv, RewardTypes
  <2>2. \A a \in Accounts : earned[a] * Scale <= owed[a]
    BY OwedIs
  <2>3. Total(owed) <= emitted * Scale
    BY OwedWithinEmission
  <2> HIDE DEF earned, owed
  <2>4. scaled \in [Accounts -> Nat] /\ \A a \in Accounts : scaled[a] <= owed[a]
    BY <2>1, <2>2, ProductNat
  <2>5. Total(scaled) = Total(earned) * Scale
    BY <2>1, AccountsFinite, TotalTimes
  <2> HIDE DEF scaled
  <2>6. Total(scaled) <= Total(owed) /\ Total(owed) \in Nat /\ Total(earned) \in Nat
    BY <2>1, <2>4, AccountsFinite, TotalMonotone, TotalBounds
  <2>7. Total(earned) * Scale \in Nat /\ emitted * Scale \in Nat
    BY <2>1, <2>6, ProductNat
  <2>8. Total(earned) * Scale <= emitted * Scale
    BY <2>3, <2>5, <2>6, <2>7
  <2>9. Total(earned) <= emitted
    BY <2>1, <2>6, <2>8, ProductCancel
  <2> QED
    BY <2>9 DEF RewardsWithinEmission, earned
<1> QED
  BY <1>1, <1>2, <1>3, RewardInvAlways, PTL DEF RewardSpec
-----------------------------------------------------------------------------
(* The PSYS there is, which bounds the supply of the staked token. *)

PsysConserved == Total(psys) = InitialPSYS * Cardinality(Users) + VaultPSYS

LEMMA PsysHoldersFinite == IsFiniteSet(PsysHolders)
  BY AccountsFinite, FS_AddElement DEF PsysHolders

LEMMA PsysStarts == Init => PsysConserved
<1> SUFFICES ASSUME Init PROVE PsysConserved
  OBVIOUS
<1> DEFINE own == [h \in PsysHolders |-> IF h \in Users THEN InitialPSYS ELSE 0]
<1>1. /\ Users \subseteq PsysHolders /\ RewardsVault \in PsysHolders
      /\ RewardsVault \notin Users /\ IsFiniteSet(Users)
      /\ InitialPSYS \in Nat /\ VaultPSYS \in Nat
  BY StakedTokenAssumption DEF PsysHolders, Accounts
<1>2. own \in [PsysHolders -> Nat] /\ own[RewardsVault] = 0
  BY <1>1
<1>3. Units(own) = Users \X (1 .. InitialPSYS)
  <2>1. \A h \in PsysHolders :
            1 .. own[h] = IF h \in Users THEN 1 .. InitialPSYS ELSE {}
    BY <1>1
  <2>2. Units(own) = UNION {{h} \X (1 .. own[h]) : h \in PsysHolders}
    BY DEF Units
  <2> HIDE DEF own
  <2>3. ASSUME NEW x
        PROVE  x \in Units(own) <=> x \in Users \X (1 .. InitialPSYS)
    <3>1. x \in Units(own) <=> \E h \in PsysHolders : x \in {h} \X (1 .. own[h])
      BY <2>2
    <3>2. x \in Users \X (1 .. InitialPSYS)
            <=> \E h \in Users : x \in {h} \X (1 .. InitialPSYS)
      OBVIOUS
    <3> QED
      BY <1>1, <2>1, <3>1, <3>2
  <2> QED
    BY <2>3
<1> HIDE DEF own
<1>4. Cardinality(Users) \in Nat /\ Total(own) = Cardinality(Users) * InitialPSYS
  <2>1. IsFiniteSet(1 .. InitialPSYS) /\ Cardinality(1 .. InitialPSYS) = InitialPSYS
    BY <1>1, FS_Interval
  <2> QED
    BY <1>1, <1>3, <2>1, FS_Product, FS_CardinalityType DEF Total
<1>5. psys = [own EXCEPT ![RewardsVault] = VaultPSYS]
  BY <1>1 DEF Init, own
<1>6. Total(psys) = Total(own) - 0 + VaultPSYS
  BY <1>1, <1>2, <1>5, PsysHoldersFinite, TotalUpdate
<1>7. Cardinality(Users) * InitialPSYS \in Nat
      /\ Cardinality(Users) * InitialPSYS = InitialPSYS * Cardinality(Users)
  BY <1>1, <1>4, ProductNat
<1> QED
  BY <1>1, <1>4, <1>6, <1>7 DEF PsysConserved

\* A transfer of PSYS, to oneself or to another.
LEMMA PsysMoves ==
    ASSUME IndInv, PsysConserved, NEW from \in PsysHolders, NEW to \in PsysHolders,
           NEW n \in Nat, n <= psys[from], psys' = Moved(psys, from, to, n)
    PROVE  PsysConserved'
<1>1. psys \in [PsysHolders -> Nat]
  BY DEF IndInv, TypeOK
<1>2. CASE from = to
  <2>1. psys[from] - n + n = psys[from] /\ psys[from] \in Nat
    BY <1>1
  <2>2. psys' = psys
    BY <1>1, <1>2, <2>1 DEF Moved
  <2> QED
    BY <2>2 DEF PsysConserved
<1>3. CASE from # to
  <2>1. Total(psys') = Total(psys)
    BY <1>1, <1>3, PsysHoldersFinite, MovedTotal
  <2> QED
    BY <2>1 DEF PsysConserved
<1> QED
  BY <1>2, <1>3

LEMMA PsysKept == IndInv /\ PsysConserved /\ [Next]_vars => PsysConserved'
<1> SUFFICES ASSUME IndInv, PsysConserved, [Next]_vars PROVE PsysConserved'
  OBVIOUS
<1>1. /\ Users \subseteq PsysHolders /\ Accounts \subseteq PsysHolders
      /\ StakeContract \in PsysHolders /\ RewardsVault \in PsysHolders
      /\ Amounts \subseteq Nat /\ Limits \subseteq Nat
      /\ Users \subseteq Accounts
  BY StakedTokenAssumption DEF PsysHolders, Accounts, Limits
<1>2. CASE StakeStep
  <2>1. PICK u \in Users, a \in Accounts, n \in Amounts : Stake(u, a, n)
    BY <1>2 DEF StakeStep
  <2>2. n <= psys[u] /\ psys' = Moved(psys, u, StakeContract, n)
    BY <2>1 DEF Stake
  <2> QED
    BY <1>1, <2>2, PsysMoves
<1>3. CASE RedeemStep
  <2>1. PICK u \in Users, a \in Accounts, n \in Limits : Redeem(u, a, n)
    BY <1>3 DEF RedeemStep
  <2> DEFINE k == AmountToRedeem(u, n)
  <2>2. k <= psys[StakeContract] /\ psys' = Moved(psys, StakeContract, a, k)
    BY <2>1 DEF Redeem
  <2>3. k \in Nat
    BY <1>1 DEF AmountToRedeem, IndInv, TypeOK
  <2> HIDE DEF k
  <2> QED
    BY <1>1, <2>2, <2>3, PsysMoves
<1>4. CASE ClaimStep
  <2>1. PICK u \in Users, a \in Accounts, n \in Limits : ClaimRewards(u, a, n)
    BY <1>4 DEF ClaimStep
  <2> DEFINE k == AmountToClaim(u, n)
  <2>2. /\ k <= psys[RewardsVault] /\ psys' = Moved(psys, RewardsVault, a, k)
        /\ CanAccrue(u)
    BY <2>1 DEF ClaimRewards
  <2>3. Accrued(u) \in Nat
    BY <1>1, <2>2, SettleKeeps
  <2>4. k \in Nat
    BY <1>1, <2>3 DEF AmountToClaim, IndInv, TypeOK
  <2> HIDE DEF k
  <2> QED
    BY <1>1, <2>2, <2>4, PsysMoves
<1>5. CASE UNCHANGED psys
  BY <1>5 DEF PsysConserved
<1>6. CooldownStep \/ TransferStep \/ ConfigureStep \/ Tick \/ UNCHANGED vars
        => UNCHANGED psys
  BY DEF CooldownStep, Cooldown, TransferStep, TransferToSelf, TransferToOther,
         ConfigureStep, ConfigureAssets, Tick, vars
<1> QED
  BY <1>2, <1>3, <1>4, <1>5, <1>6 DEF Next

\* Nobody creates PSYS: what there was at first is what there is.
LEMMA PsysAlwaysConserved == Spec => []PsysConserved
  BY PsysStarts, PsysKept, IndInvHolds, PTL DEF Spec
-----------------------------------------------------------------------------
(* Nobody gets more than its part. *)

\* The part of one unit of stake in one second, in units of 1/FairScale.
Portion == IF totalSupply = 0 THEN 0 ELSE FairScale \div totalSupply

FairInv ==
    \A a \in Accounts :
        Recorded(a) * FairScale + balances[a] * (Pending * Scale * Portion)
            <= fairShare[a] * Scale

\* FairScale is a multiple of every supply the PSYS there is allows.
LEMMA PortionExact ==
    ASSUME RewardInv, PsysConserved
    PROVE  /\ Portion \in Nat
           /\ totalSupply # 0 => Portion * totalSupply = FairScale
<1>1. /\ totalSupply \in Nat /\ FairScale \in Nat
      /\ psys \in [PsysHolders -> Nat] /\ totalSupply <= psys[StakeContract]
      /\ StakeContract \in PsysHolders
  BY FairScaleAssumption DEF RewardInv, IndInv, TypeOK, SupplyBacked, PsysHolders, Accounts
<1>2. psys[StakeContract] <= Total(psys) /\ Total(psys) \in Nat
  BY <1>1, PsysHoldersFinite, TotalBounds
<1>3. CASE totalSupply = 0
  BY <1>3 DEF Portion
<1>4. CASE totalSupply # 0
  <2> DEFINE limit == InitialPSYS * Cardinality(Users) + VaultPSYS
             q == FairScale \div totalSupply
  <2>1. limit = Total(psys)
    BY DEF PsysConserved
  <2>2. \A s \in 1 .. limit : FairScale % s = 0
    BY FairScaleAssumption
  <2> HIDE DEF limit
  <2>3. totalSupply \in 1 .. limit
    BY <1>1, <1>2, <1>4, <2>1
  <2>4. FairScale % totalSupply = 0
    BY <2>2, <2>3
  <2>5. FairScale = totalSupply * q + (FairScale % totalSupply)
    BY <1>1, <1>4
  <2>6. q \in Nat
    BY <1>1, <1>4, QuotientBounds
  <2>7. Portion = q
    BY <1>4 DEF Portion
  <2> HIDE DEF q
  <2> QED
    BY <1>1, <2>4, <2>5, <2>6, <2>7
<1> QED
  BY <1>3, <1>4

\* What is owed is at most the part, for what is pending is divided by shares.
LEMMA OwedIsFair ==
    ASSUME RewardInv, PsysConserved, FairInv, NEW a \in Accounts
    PROVE  AsOfNow(a) * FairScale <= fairShare[a] * Scale
<1> DEFINE b == balances[a]
           d == CurrentIndex - asset.index
           rec == Recorded(a)
           part == Pending * Scale
           q == Portion
           supply == totalSupply
<1>1. /\ b \in Nat /\ d \in Nat /\ rec \in Nat /\ part \in Nat /\ q \in Nat
      /\ supply \in Nat /\ FairScale \in Nat /\ Scale \in Nat /\ fairShare[a] \in Nat
  <2>1. Pending \in Nat /\ Scale \in Nat
    BY IndexPending, DistributionAssumption DEF RewardInv
  <2> QED
    BY <2>1, OwedIs, BooksAreTyped, PortionExact, FairScaleAssumption, ProductNat
    DEF BooksTyped, RewardInv, IndInv, TypeOK, RewardTypes
<1>2. AsOfNow(a) = rec + b * d
  BY OwedIs
<1>3. rec * FairScale + b * (part * q) <= fairShare[a] * Scale
  BY DEF FairInv
<1>4. /\ d * supply <= part
      /\ supply = 0 => d = 0
      /\ supply # 0 => q * supply = FairScale
  BY <1>1, IndexPending, PortionExact DEF RewardInv, IndInv, TypeOK, AssetData
<1> HIDE DEF b, d, rec, part, q, supply
<1>5. b * d \in Nat /\ part * q \in Nat /\ b * (part * q) \in Nat /\ b * q \in Nat
      /\ d * supply \in Nat /\ rec * FairScale \in Nat /\ (b * d) * FairScale \in Nat
      /\ fairShare[a] * Scale \in Nat
  <2>1. b * d \in Nat /\ part * q \in Nat /\ b * q \in Nat /\ d * supply \in Nat
    BY <1>1, ProductNat
  <2> QED
    BY <1>1, <2>1, ProductNat
<1>6. (b * d) * FairScale <= b * (part * q)
  <2>1. CASE supply = 0
    BY <1>1, <1>4, <1>5, <2>1
  <2>2. CASE supply # 0
    <3>1. (b * q) * (d * supply) <= (b * q) * part
      BY <1>1, <1>4, <1>5, ProductMonotone
    <3>2. (b * q) * (d * supply) = (b * d) * (q * supply)
      BY <1>1
    <3>3. (b * q) * part = b * (part * q)
      BY <1>1
    <3> QED
      BY <1>4, <2>2, <3>1, <3>2, <3>3
  <2> QED
    BY <2>1, <2>2
<1>7. (rec + b * d) * FairScale = rec * FairScale + (b * d) * FairScale
  BY <1>1, <1>5
<1> QED
  BY <1>2, <1>3, <1>5, <1>6, <1>7

LEMMA FairKept ==
    ASSUME RewardInv, RewardInv', Misreports = {}, PsysConserved, FairInv,
           [RewardNext]_rewardVars
    PROVE  FairInv'
<1> SUFFICES ASSUME NEW a \in Accounts
             PROVE  Recorded(a)' * FairScale + balances'[a] * (Pending' * Scale * Portion')
                        <= fairShare'[a] * Scale
  BY DEF FairInv
<1> DEFINE rec == Recorded(a)
           b == balances[a]
           q == Portion
           f == fairShare[a]
<1>1. /\ rec \in Nat /\ rec' \in Nat /\ AsOfNow(a) \in Nat /\ b \in Nat /\ b' \in Nat
      /\ q \in Nat /\ Pending \in Nat /\ Scale \in Nat /\ FairScale \in Nat
      /\ f \in Nat /\ f' \in Nat /\ asset.emissionPerSecond \in Nat
  BY BooksAreTyped, BooksTypedNext, PortionExact, IndexPending, DistributionAssumption,
     FairScaleAssumption
  DEF BooksTyped, RewardInv, IndInv, TypeOK, AssetData, RewardTypes
<1>2. rec * FairScale + b * (Pending * Scale * q) <= f * Scale
  BY DEF FairInv
<1>3. CASE SecondPasses
  <2> DEFINE e == IF Emitting THEN asset.emissionPerSecond ELSE 0
  <2>1. Tick /\ claimed' = claimed
    BY <1>3 DEF SecondPasses
  <2>2. rec' = rec /\ b' = b /\ q' = q
    BY <2>1 DEF Tick, Recorded, Paid, Accruing, Portion
  <2>3. Pending' = Pending + e /\ e \in Nat
    BY <1>1, <2>1, PendingTick DEF RewardInv
  <2>4. f' = f + b * e * q
    <3>1. CASE Emitting
      BY <1>3, <3>1 DEF SecondPasses, Emitting, Portion
    <3>2. CASE ~ Emitting
      <4>1. f' = f /\ e = 0
        BY <1>3, <3>2 DEF SecondPasses
      <4> HIDE DEF e, b, q, f
      <4>2. b * e * q = 0
        BY <1>1, <4>1
      <4> QED
        BY <1>1, <4>1, <4>2
    <3> QED
      BY <3>1, <3>2
  <2> HIDE DEF e, rec, b, q, f
  <2>5. /\ b * ((Pending + e) * Scale * q)
             = b * (Pending * Scale * q) + (b * e * q) * Scale
        /\ (f + b * e * q) * Scale = f * Scale + (b * e * q) * Scale
    BY <1>1, <2>3
  <2>6. /\ rec * FairScale \in Nat /\ f * Scale \in Nat
        /\ b * (Pending * Scale * q) \in Nat /\ (b * e * q) * Scale \in Nat
    <3>1. Pending * Scale \in Nat /\ b * e \in Nat
      BY <1>1, <2>3, ProductNat
    <3>2. Pending * Scale * q \in Nat /\ b * e * q \in Nat
      BY <1>1, <3>1, ProductNat
    <3> QED
      BY <1>1, <3>2, ProductNat
  <2>7. rec * FairScale + b * ((Pending + e) * Scale * q) <= (f + b * e * q) * Scale
    BY <1>2, <2>5, <2>6
  <2>8. rec' * FairScale + b' * (Pending' * Scale * q') <= f' * Scale
    BY <2>2, <2>3, <2>4, <2>7
  <2> QED
    BY <2>8 DEF rec, b, q, f
<1>4. CASE ~ SecondPasses
  <2>1. UNCHANGED <<emitted, fairShare>> /\ (Untouched \/ Books)
    BY <1>4, StepBooks
  <2>2. CASE Untouched
    BY <1>2, <2>1, <2>2
    DEF Untouched, Recorded, Paid, Accruing, Pending, Portion
  <2>3. CASE Books
    <3>1. rec' <= AsOfNow(a) /\ Pending' = 0 /\ f' = f
      BY <2>1, <2>3 DEF Books
    <3>2. AsOfNow(a) * FairScale <= f * Scale
      BY OwedIsFair
    <3>3. q' \in Int
      BY <1>1, QuotientBounds, FairScaleAssumption
      DEF Portion, RewardInv, IndInv, TypeOK
    <3> HIDE DEF rec, b, q, f
    <3>4. FairScale * rec' <= FairScale * AsOfNow(a)
      BY <1>1, <3>1, ProductMonotone
    <3>5. /\ FairScale * rec' = rec' * FairScale
          /\ FairScale * AsOfNow(a) = AsOfNow(a) * FairScale
      <4> DEFINE m == rec'
                 n == AsOfNow(a)
      <4>1. m \in Nat /\ n \in Nat /\ FairScale \in Nat
        BY <1>1
      <4> HIDE DEF m, n
      <4>2. FairScale * m = m * FairScale /\ FairScale * n = n * FairScale
        BY <4>1
      <4> QED
        BY <4>2 DEF m, n
    <3>6. b' * (Pending' * Scale * q') = 0
      <4>1. Pending' * Scale * q' = 0
        <5>1. \A x \in Int : 0 * Scale * x = 0
          BY <1>1
        <5> QED
          BY <3>1, <3>3, <5>1
      <4> QED
        BY <1>1, <4>1
    <3>7. rec' * FairScale \in Nat /\ AsOfNow(a) * FairScale \in Nat /\ f * Scale \in Nat
      BY <1>1, ProductNat
    <3>8. rec' * FairScale + b' * (Pending' * Scale * q') <= f' * Scale
      BY <3>1, <3>2, <3>4, <3>5, <3>6, <3>7
    <3> QED
      BY <3>8 DEF rec, b, q, f
  <2> QED
    BY <2>1, <2>2, <2>3
<1> QED
  BY <1>3, <1>4

LEMMA FairStarts ==
    ASSUME RewardInit
    PROVE  FairInv
<1>1. \A a \in Accounts : Recorded(a) = 0 /\ balances[a] = 0 /\ fairShare[a] = 0
  BY DistributionAssumption
  DEF RewardInit, Init, EmptyAsset, Recorded, Paid, Accruing
<1>2. Pending = 0 /\ Portion = 0
  BY DEF RewardInit, Init, Pending, PendingOf, Portion
<1> QED
  BY <1>1, <1>2, DistributionAssumption, FairScaleAssumption DEF FairInv

(***************************************************************************)
(* Nobody is ever given more than the emission of the seconds it was       *)
(* staking in, each in proportion to its stake then: no order of stakes,   *)
(* transfers, redeems and claims lets stake that arrives late share in     *)
(* what was emitted before.  The same is asked of the manager as above.    *)
(***************************************************************************)
THEOREM EarningsAlwaysFair ==
    ASSUME Misreports = {}
    PROVE  RewardSpec => []FairShareBound
<1>1. RewardInit => FairInv
  BY FairStarts
<1>2. RewardInv /\ RewardInv' /\ PsysConserved /\ FairInv /\ [RewardNext]_rewardVars
        => FairInv'
  BY FairKept
<1>3. RewardInv /\ PsysConserved /\ FairInv => FairShareBound
  <2> SUFFICES ASSUME RewardInv, PsysConserved, FairInv, NEW a \in Accounts
               PROVE  Earned(a) * FairScale <= fairShare[a]
    BY DEF FairShareBound
  <2>1. /\ Earned(a) \in Nat /\ AsOfNow(a) \in Nat /\ fairShare[a] \in Nat
        /\ Scale \in Nat /\ Scale # 0 /\ FairScale \in Nat
    BY EarnedIs, BooksAreTyped, DistributionAssumption, FairScaleAssumption
    DEF PaidAndAccrued, BooksTyped, RewardInv, RewardTypes
  <2>2. Earned(a) * Scale <= AsOfNow(a)
    BY OwedIs
  <2>3. AsOfNow(a) * FairScale <= fairShare[a] * Scale
    BY OwedIsFair
  <2> DEFINE x == Earned(a)
             y == AsOfNow(a)
             z == fairShare[a]
  <2> HIDE DEF x, y, z
  <2>4. x * Scale \in Nat /\ x * FairScale \in Nat /\ y * FairScale \in Nat /\ z * Scale \in Nat
    BY <2>1, ProductNat DEF x, y, z
  <2>5. FairScale * (x * Scale) <= FairScale * y
    BY <2>1, <2>2, <2>4, ProductMonotone DEF x, y
  <2>6. FairScale * (x * Scale) = (x * FairScale) * Scale /\ FairScale * y = y * FairScale
    BY <2>1 DEF x, y
  <2>7. (x * FairScale) * Scale <= z * Scale
    <3>1. (x * FairScale) * Scale <= y * FairScale
      BY <2>5, <2>6
    <3>2. y * FairScale <= z * Scale
      BY <2>3 DEF y, z
    <3>3. (x * FairScale) * Scale \in Nat
      BY <2>1, <2>4, ProductNat
    <3> QED
      BY <2>4, <3>1, <3>2, <3>3
  <2>8. x * FairScale <= z
    BY <2>1, <2>4, <2>7, ProductCancel DEF z
  <2> QED
    BY <2>8 DEF x, z
<1>4. RewardSpec => []PsysConserved
  BY RewardIsStaked, PsysAlwaysConserved, PTL
<1> QED
  BY <1>1, <1>2, <1>3, <1>4, RewardInvAlways, PTL DEF RewardSpec

=============================================================================
