-------------------------- MODULE IncentivesTheorems --------------------------
(***************************************************************************)
(* Proofs about the incentives controller, for every set of users, of      *)
(* listed assets and of impostors, every list of assets a claim names and  *)
(* every list of emissions the manager configures.                         *)
(*                                                                         *)
(* The handlers are loops over the assets of a list.  What a loop leaves   *)
(* behind is related to the state it began in by an invariant of the loop; *)
(* the rest is bookkeeping: Debt is what a distribution may still cost,    *)
(* Part what it may still give to one user, and no settlement makes more   *)
(* of either.                                                              *)
(***************************************************************************)
EXTENDS IncentivesHistory, ArithmeticLemmas

\* Every asset is settled in the past, and no impostor was ever configured.
Books ==
    {A \in [Assets -> AssetData(Users)] :
        \A a \in Assets :
            /\ SettledAt(A[a], Users, now)
            /\ a \in Impostors => A[a].emissionPerSecond = 0 /\ A[a].index = 0}

\* The inductive invariant, as far as it says what the values are.
ControllerInv ==
    /\ ControllerTypeOK
    /\ assets \in Books
    /\ lent \in [ListedAssets -> [Users -> Nat]]
    /\ \A a \in ListedAssets : lent[a] \in [Users -> Balances]
    /\ claimed \in [Users -> Nat]
    /\ emitted \in Nat
    /\ fairShare \in [Users -> Nat]

Stake == [stakedByUser : Nat, totalStaked : Nat]

LEMMA UsersFinite == IsFiniteSet(Users) /\ IsFiniteSet(ListedAssets)
  BY ControllerAssumption, FS_Subset DEF Assets

-----------------------------------------------------------------------------
(* One settlement. *)

LEMMA SettleKeepsBooks ==
    ASSUME now \in Nat, NEW A \in Books, NEW a \in Assets, NEW u \in Users, NEW total \in Nat
    PROVE  [A EXCEPT ![a] = UpdateUserAsset(@, u, total, now)] \in Books
<1> DEFINE r == A[a]
           c == UpdateUserAsset(r, u, total, now)
           B == [A EXCEPT ![a] = c]
<1>1. SettledAt(r, Users, now) /\ A \in [Assets -> AssetData(Users)]
  BY DEF Books
<1>2. SettledAt(c, Users, now)
  BY <1>1, UserAssetSettled
<1>3. /\ c.index = GetAssetIndex(r, total, now)
      /\ c.emissionPerSecond = r.emissionPerSecond /\ c \in AssetData(Users)
  BY <1>1, UserAssetRecord
<1>4. a \in Impostors => c.emissionPerSecond = 0 /\ c.index = 0
  BY <1>3 DEF Books, GetAssetIndex
<1> HIDE DEF c
<1>5. B \in [Assets -> AssetData(Users)] /\ B[a] = c /\ \A b \in Assets \ {a} : B[b] = A[b]
  BY <1>1, <1>3
<1> HIDE DEF B
<1>6. B \in Books
  BY <1>2, <1>4, <1>5 DEF Books
<1> QED
  BY <1>6 DEF B, c

LEMMA ConfigureKeepsBooks ==
    ASSUME now \in Nat, NEW A \in Books, NEW a \in ListedAssets, NEW e \in Nat,
           NEW total \in Nat
    PROVE  [A EXCEPT ![a] = ConfigureAsset(@, e, total, now)] \in Books
<1> DEFINE r == A[a]
           c == ConfigureAsset(r, e, total, now)
           B == [A EXCEPT ![a] = c]
<1>1. /\ SettledAt(r, Users, now) /\ A \in [Assets -> AssetData(Users)]
      /\ a \in Assets /\ a \notin Impostors
  BY ControllerAssumption DEF Books, Assets
<1>2. SettledAt(c, Users, now)
  BY <1>1, ConfiguredSettled
<1>3. c \in AssetData(Users)
  BY <1>2 DEF SettledAt
<1> HIDE DEF c
<1>4. B \in [Assets -> AssetData(Users)] /\ B[a] = c /\ \A b \in Assets \ {a} : B[b] = A[b]
  BY <1>1, <1>3
<1> HIDE DEF B
<1>5. B \in Books
  BY <1>1, <1>2, <1>4 DEF Books
<1> QED
  BY <1>5 DEF B, c

\* What is accrued is a natural, and nothing is with an impostor.
LEMMA AccruedInBooks ==
    ASSUME now \in Nat, NEW A \in Books, NEW a \in Assets, NEW u \in Users,
           NEW b \in Nat, NEW total \in Nat
    PROVE  /\ AccruedRewards(A[a], u, b, total, now) \in Nat
           /\ a \in Impostors => AccruedRewards(A[a], u, b, total, now) = 0
<1> DEFINE r == A[a]
           i == GetAssetIndex(r, total, now)
           x == b * (i - r.users[u])
<1>1. SettledAt(r, Users, now)
  BY DEF Books
<1>2. /\ i \in Nat /\ r.users[u] \in Nat /\ r.users[u] <= r.index
      /\ AccruedRewards(r, u, b, total, now) = x \div Scale
      /\ AccruedRewards(r, u, b, total, now) \in Nat
  BY <1>1, AccruedIsShare
<1>3. CASE a \in Impostors
  <2>1. i = 0 /\ r.index = 0
    BY <1>3 DEF Books, GetAssetIndex
  <2>2. r.users[u] = 0
    BY <1>2, <2>1
  <2>3. x = 0
    <3> HIDE DEF i
    <3> QED
      BY <2>1, <2>2
  <2> HIDE DEF x
  <2>4. x \div Scale = 0
    BY <2>3, DistributionAssumption
  <2> QED
    BY <1>2, <2>4
<1> QED
  BY <1>2, <1>3

-----------------------------------------------------------------------------
(* The loops. *)

\* What the rounds of _claimRewards hand on.
Round == [accruedRewards : Nat, assets : Books]

Claiming(done, u, list, stakeOf) ==
    /\ done \in [0 .. Len(list) -> Round]
    /\ done[0] = [accruedRewards |-> 0, assets |-> assets]
    /\ \A i \in 1 .. Len(list) :
            done[i] = ClaimedNext(done[i - 1], u, list[i], stakeOf[list[i]])

LEMMA ClaimedNextRound ==
    ASSUME now \in Nat, NEW d \in Round, NEW u \in Users, NEW a \in Assets, NEW stake \in Stake
    PROVE  /\ ClaimedNext(d, u, a, stake) \in Round
           /\ ClaimedNext(d, u, a, stake).accruedRewards
                = d.accruedRewards + AccruedRewards(d.assets[a], u, stake.stakedByUser,
                                                    stake.totalStaked, now)
           /\ ClaimedNext(d, u, a, stake).assets
                = [d.assets EXCEPT ![a] = UpdateUserAsset(@, u, stake.totalStaked, now)]
<1>1. /\ d.accruedRewards \in Nat /\ d.assets \in Books
      /\ stake.stakedByUser \in Nat /\ stake.totalStaked \in Nat
  BY DEF Round, Stake
<1>2. [d.assets EXCEPT ![a] = UpdateUserAsset(@, u, stake.totalStaked, now)] \in Books
  BY <1>1, SettleKeepsBooks
<1>3. AccruedRewards(d.assets[a], u, stake.stakedByUser, stake.totalStaked, now) \in Nat
  BY <1>1, AccruedInBooks
<1> QED
  BY <1>1, <1>2, <1>3 DEF ClaimedNext, Round

LEMMA ClaimingExists ==
    ASSUME now \in Nat, assets \in Books, NEW u \in Users, NEW list \in Seq(Assets),
           NEW stakeOf \in [Assets -> Stake]
    PROVE  \E done : Claiming(done, u, list, stakeOf)
                        /\ ClaimedAssets(u, list, stakeOf) = done[Len(list)]
<1> DEFINE n == Len(list)
           base == [accruedRewards |-> 0, assets |-> assets]
           next(d, i) == ClaimedNext(d, u, list[i], stakeOf[list[i]])
           round == [di \in Round \X (1 .. n) |-> next(di[1], di[2])]
           Solves(f) == f = [i \in 0 .. n |-> IF i = 0 THEN base ELSE next(f[i - 1], i)]
<1>1. n \in Nat /\ \A i \in 1 .. n : list[i] \in Assets /\ stakeOf[list[i]] \in Stake
  OBVIOUS
<1>2. base \in Round
  BY DEF Round
<1>3. \A d \in Round, i \in 1 .. n : next(d, i) \in Round
  BY <1>1, ClaimedNextRound
<1> HIDE DEF base, next, n
<1>4. round \in [Round \X (1 .. n) -> Round]
  BY <1>3
<1>5. \A d \in Round, i \in 1 .. n : round[<<d, i>>] = next(d, i)
  OBVIOUS
<1> HIDE DEF round
<1>6. PICK f \in [0 .. n -> Round] :
        f[0] = base /\ \A i \in 1 .. n : f[i] = round[<<f[i - 1], i>>]
  <2>1. LoopValues(Round, base, n, round) # {}
    BY <1>1, <1>2, <1>4, LoopExists
  <2> QED
    BY <2>1 DEF LoopValues
<1>7. Solves(f)
  <2>1. ASSUME NEW i \in 0 .. n
        PROVE  f[i] = IF i = 0 THEN base ELSE next(f[i - 1], i)
    <3>1. CASE i # 0
      <4>1. i \in 1 .. n /\ i - 1 \in 0 .. n
        BY <1>1, <3>1
      <4>2. f[i - 1] \in Round
        BY <4>1
      <4> QED
        BY <1>5, <1>6, <3>1, <4>1, <4>2
    <3> QED
      BY <1>6, <3>1
  <2> QED
    BY <2>1
<1> DEFINE g == CHOOSE done : Solves(done)
<1>8. Solves(g)
  BY <1>7
<1>9. ClaimedAssets(u, list, stakeOf) = g[n]
  BY DEF ClaimedAssets, base, next, n
<1> HIDE DEF g
<1>10. g[0] = base /\ \A i \in 1 .. n : g[i] = next(g[i - 1], i)
  BY <1>1, <1>8
<1>11. \A i \in 0 .. n : g[i] \in Round
  <2> DEFINE T == {i \in 0 .. n : g[i] \in Round}
  <2>1. 0 \in T
    BY <1>1, <1>2, <1>10
  <2>2. \A i \in 1 .. n : i - 1 \in T => i \in T
    BY <1>1, <1>3, <1>10
  <2> HIDE DEF T
  <2>3. \A i \in 0 .. n : i \in T
    BY <1>1, <2>1, <2>2, LoopInduction
  <2> QED
    BY <2>3 DEF T
<1>12. g \in [0 .. n -> Round]
  BY <1>8, <1>11
<1> QED
  BY <1>9, <1>10, <1>12 DEF Claiming, base, next, n
Configuring(done, list) ==
    /\ done \in [0 .. Len(list) -> Books]
    /\ done[0] = assets
    /\ \A i \in 1 .. Len(list) :
            done[i] = [done[i - 1] EXCEPT ![list[i][1]] =
                ConfigureAsset(@, list[i][2], Total(lent[list[i][1]]), now)]

LEMMA ConfiguringExists ==
    ASSUME now \in Nat, assets \in Books, lent \in [ListedAssets -> [Users -> Nat]],
           NEW list \in Seq(ListedAssets \X Nat)
    PROVE  \E done : Configuring(done, list) /\ Configured(list) = done[Len(list)]
<1> DEFINE n == Len(list)
           next(A, i) == [A EXCEPT ![list[i][1]] =
                ConfigureAsset(@, list[i][2], Total(lent[list[i][1]]), now)]
           round == [di \in Books \X (1 .. n) |-> next(di[1], di[2])]
           Solves(f) == f = [i \in 0 .. n |-> IF i = 0 THEN assets ELSE next(f[i - 1], i)]
<1>1. n \in Nat /\ \A i \in 1 .. n : list[i][1] \in ListedAssets /\ list[i][2] \in Nat
  OBVIOUS
<1>2. \A A \in Books, i \in 1 .. n : next(A, i) \in Books
  <2> SUFFICES ASSUME NEW A \in Books, NEW i \in 1 .. n PROVE next(A, i) \in Books
    OBVIOUS
  <2>1. Total(lent[list[i][1]]) \in Nat
    BY <1>1, UsersFinite, TotalBounds
  <2> QED
    BY <1>1, <2>1, ConfigureKeepsBooks
<1> HIDE DEF next, n
<1>3. round \in [Books \X (1 .. n) -> Books]
  BY <1>2
<1>4. \A A \in Books, i \in 1 .. n : round[<<A, i>>] = next(A, i)
  OBVIOUS
<1> HIDE DEF round
<1>5. PICK f \in [0 .. n -> Books] :
        f[0] = assets /\ \A i \in 1 .. n : f[i] = round[<<f[i - 1], i>>]
  <2>1. LoopValues(Books, assets, n, round) # {}
    BY <1>1, <1>3, LoopExists
  <2> QED
    BY <2>1 DEF LoopValues
<1>6. Solves(f)
  <2>1. ASSUME NEW i \in 0 .. n
        PROVE  f[i] = IF i = 0 THEN assets ELSE next(f[i - 1], i)
    <3>1. CASE i # 0
      <4>1. i \in 1 .. n /\ i - 1 \in 0 .. n
        BY <1>1, <3>1
      <4>2. f[i - 1] \in Books
        BY <4>1
      <4> QED
        BY <1>4, <1>5, <3>1, <4>1, <4>2
    <3> QED
      BY <1>5, <3>1
  <2> QED
    BY <2>1
<1> DEFINE g == CHOOSE done : Solves(done)
<1>7. Solves(g)
  BY <1>6
<1>8. Configured(list) = g[n]
  BY DEF Configured, next, n
<1> HIDE DEF g
<1>9. g[0] = assets /\ \A i \in 1 .. n : g[i] = next(g[i - 1], i)
  BY <1>1, <1>7
<1>10. \A i \in 0 .. n : g[i] \in Books
  <2> DEFINE T == {i \in 0 .. n : g[i] \in Books}
  <2>1. 0 \in T
    BY <1>1, <1>9
  <2>2. \A i \in 1 .. n : i - 1 \in T => i \in T
    BY <1>1, <1>2, <1>9
  <2> HIDE DEF T
  <2>3. \A i \in 0 .. n : i \in T
    BY <1>1, <2>1, <2>2, LoopInduction
  <2> QED
    BY <2>3 DEF T
<1>11. g \in [0 .. n -> Books]
  BY <1>7, <1>10
<1> QED
  BY <1>8, <1>9, <1>11 DEF Configuring, next, n

-----------------------------------------------------------------------------
(* The values of the state. *)

\* A listed asset answers with its balances, an impostor with any naturals.
LEMMA StakeOfTypes ==
    ASSUME lent \in [ListedAssets -> [Users -> Nat]],
           NEW u \in Users, NEW report \in StakeReport
    PROVE  /\ StakeOf(u, report) \in [Assets -> Stake]
           /\ \A a \in ListedAssets :
                /\ StakeOf(u, report)[a].stakedByUser = lent[a][u]
                /\ StakeOf(u, report)[a].totalStaked = Total(lent[a])
<1>1. report \in Stake
  BY ControllerAssumption DEF StakeReport, Stake
<1>2. \A a \in ListedAssets : /\ a \in Assets /\ a \notin Impostors
                               /\ lent[a][u] \in Nat /\ Total(lent[a]) \in Nat
  BY ControllerAssumption, UsersFinite, TotalBounds DEF Assets
<1>3. \A a \in Assets : a \notin Impostors => a \in ListedAssets
  BY DEF Assets
<1> DEFINE s == StakeOf(u, report)
<1>4. s = [a \in Assets |-> IF a \in Impostors THEN report
                            ELSE [stakedByUser |-> lent[a][u],
                                  totalStaked  |-> Total(lent[a])]]
  BY DEF StakeOf
<1> HIDE DEF s
<1>5. \A a \in ListedAssets :
        s[a] = [stakedByUser |-> lent[a][u], totalStaked |-> Total(lent[a])]
  BY <1>2, <1>4
<1>6. ASSUME NEW a \in ListedAssets
      PROVE  s[a].stakedByUser = lent[a][u] /\ s[a].totalStaked = Total(lent[a])
  <2> DEFINE b == lent[a][u]
             total == Total(lent[a])
  <2>1. s[a] = [stakedByUser |-> b, totalStaked |-> total]
    BY <1>5
  <2> HIDE DEF b, total
  <2> QED
    BY <2>1 DEF b, total
<1>7. \A a \in Assets : s[a] \in Stake
  <2> SUFFICES ASSUME NEW a \in Assets PROVE s[a] \in Stake
    OBVIOUS
  <2>1. CASE a \in Impostors
    BY <1>1, <1>4, <2>1
  <2>2. CASE a \notin Impostors
    <3> DEFINE b == lent[a][u]
               total == Total(lent[a])
    <3>1. b \in Nat /\ total \in Nat /\ s[a] = [stakedByUser |-> b, totalStaked |-> total]
      BY <1>2, <1>3, <1>5, <2>2
    <3> HIDE DEF b, total
    <3> QED
      BY <3>1 DEF Stake
  <2> QED
    BY <2>1, <2>2
<1>8. s \in [Assets -> Stake]
  BY <1>4, <1>7
<1> QED
  BY <1>6, <1>8 DEF s

LEMMA PayoutWithinBonus ==
    ASSUME NEW n \in Nat, NEW stake \in BOOLEAN
    PROVE  /\ Payout(n, stake) \in Nat
           /\ 100 * Payout(n, stake) <= (100 + EXTRA_PSM_REWARD) * n
<1> DEFINE e == EXTRA_PSM_REWARD
           x == n * e
<1>1. e \in Nat /\ x \in Nat
  BY ControllerAssumption, ProductNat
<1>2. (100 + e) * n = 100 * n + x
  BY <1>1
<1> HIDE DEF x, e
<1>3. x \div 100 \in Nat /\ 100 * (x \div 100) <= x
  BY <1>1, QuotientBounds
<1>4. Payout(n, stake) = IF stake THEN n + x \div 100 ELSE n
  BY DEF Payout, x, e
<1> QED
  BY <1>1, <1>2, <1>3, <1>4 DEF e

\* One transfer of PSYS.
LEMMA PaidLedger ==
    ASSUME NEW D, NEW p \in [D -> Nat], NEW from \in D, NEW to \in D, NEW n \in Nat,
           n <= p[from]
    PROVE  /\ Paid(p, from, to, n) \in [D -> Nat]
           /\ Paid(p, from, to, n)[from] >= p[from] - n
           /\ from # to => Paid(p, from, to, n)[to] = p[to] + n
           /\ \A h \in D \ {from, to} : Paid(p, from, to, n)[h] = p[h]
<1> DEFINE m == [p EXCEPT ![from] = p[from] - n]
           q == [m EXCEPT ![to] = m[to] + n]
<1>1. Paid(p, from, to, n) = q
  BY DEF Paid
<1>2. m \in [D -> Nat] /\ m[from] = p[from] - n /\ \A h \in D \ {from} : m[h] = p[h]
  BY p[from] - n \in Nat
<1> HIDE DEF m
<1>3. q \in [D -> Nat] /\ q[to] = m[to] + n /\ \A h \in D \ {to} : q[h] = m[h]
  BY <1>2
<1> HIDE DEF q
<1>4. q[from] >= p[from] - n
  <2>1. m[from] \in Nat
    BY <1>2
  <2> QED
    BY <1>2, <1>3, <2>1
<1> QED
  BY <1>1, <1>2, <1>3, <1>4

\* The balances of the PSYS token.
Purse == [{Controller, PSM, RewardsVault} \cup Recipients -> Nat]

\* What a payment does to the balances of the PSYS token.
LEMMA PaymentTypes ==
    ASSUME NEW D, Controller \in D, PSM \in D, RewardsVault \in D, Recipients \subseteq D,
           psys \in [D -> Nat], staked \in [Recipients -> Nat],
           NEW to \in Recipients, NEW n \in Nat, NEW stake \in BOOLEAN,
           PayRewards(to, n, stake)
    PROVE  /\ psys' \in [D -> Nat] /\ staked' \in [Recipients -> Nat]
           /\ psys'[RewardsVault] >= psys[RewardsVault] - n
<1>1. /\ Controller # PSM /\ RewardsVault # Controller /\ RewardsVault # PSM
      /\ Controller \in D /\ PSM \in D /\ RewardsVault \in D /\ to \in D
  BY ControllerAssumption
<1>2. n <= psys[RewardsVault]
  BY DEF PayRewards
<1>3. CASE stake
  <2> DEFINE p == Paid(psys, RewardsVault, Controller, n)
             q == Paid(p, Controller, PSM, n)
  <2>1. psys' = q /\ staked' = [staked EXCEPT ![to] = @ + n]
    BY <1>3 DEF PayRewards
  <2>2. /\ p \in [D -> Nat] /\ p[RewardsVault] >= psys[RewardsVault] - n
        /\ RewardsVault # Controller => p[Controller] = psys[Controller] + n
    BY <1>1, <1>2, PaidLedger
  <2> HIDE DEF p
  <2>3. n <= p[Controller]
    <3>1. psys[Controller] \in Nat
      BY <1>1
    <3> QED
      BY <1>1, <2>2, <3>1
  <2>4. q \in [D -> Nat] /\ \A h \in D \ {Controller, PSM} : q[h] = p[h]
    BY <1>1, <2>2, <2>3, PaidLedger
  <2> HIDE DEF q
  <2>5. staked' \in [Recipients -> Nat]
    BY <2>1
  <2> QED
    BY <1>1, <2>1, <2>2, <2>4, <2>5
<1>4. CASE ~ stake
  <2>1. psys' = Paid(psys, RewardsVault, to, n) /\ staked' = staked
    BY <1>4 DEF PayRewards
  <2> QED
    BY <1>1, <1>2, <2>1, PaidLedger
<1> QED
  BY <1>3, <1>4
-----------------------------------------------------------------------------
(* What a distribution may still cost. *)

\* What the balances would earn if the index were i.
Earned(r, b, i) == [h \in DOMAIN b |-> b[h] * (i - r.users[h])]

(***************************************************************************)
(* In units of 1/Scale: what the users' indexes lag behind the stored      *)
(* index, and what the stored index lags behind the time.                  *)
(***************************************************************************)
Debt(r, b, t) ==
    Total(Earned(r, b, r.index)) + PendingOf(r, Total(b), t) * Scale

LEMMA EarnedNat ==
    ASSUME NEW t, NEW r, SettledAt(r, Users, t), NEW b \in [Users -> Nat],
           NEW i \in Nat, r.index <= i
    PROVE  /\ Earned(r, b, i) \in [Users -> Nat]
           /\ \A h \in Users : Earned(r, b, i)[h] = b[h] * (i - r.users[h])
<1>1. DOMAIN b = Users
  OBVIOUS
<1>2. ASSUME NEW h \in Users PROVE b[h] * (i - r.users[h]) \in Nat
  <2>1. r.users[h] \in Nat /\ r.users[h] <= r.index /\ r.index \in Nat
    BY DEF SettledAt, AssetData
  <2>2. i - r.users[h] \in Nat /\ b[h] \in Nat
    BY <2>1
  <2> QED
    BY <2>2, ProductNat
<1> QED
  BY <1>1, <1>2 DEF Earned

LEMMA DebtNat ==
    ASSUME NEW t \in Nat, NEW r, SettledAt(r, Users, t), NEW b \in [Users -> Nat]
    PROVE  /\ Debt(r, b, t) \in Nat /\ Total(b) \in Nat
           /\ Total(Earned(r, b, r.index)) \in Nat /\ PendingOf(r, Total(b), t) \in Nat
<1>1. Total(b) \in Nat
  BY UsersFinite, TotalBounds
<1>2. r \in AssetData(Users) /\ r.index \in Nat /\ r.lastUpdateTimestamp <= t
  BY DEF SettledAt, AssetData
<1>3. Total(Earned(r, b, r.index)) \in Nat
  BY <1>2, UsersFinite, EarnedNat, TotalBounds
<1>4. PendingOf(r, Total(b), t) \in Nat
  BY <1>1, <1>2, IndexWithinPending
<1>5. PendingOf(r, Total(b), t) * Scale \in Nat
  BY <1>4, ProductNat, DistributionAssumption
<1> QED
  BY <1>1, <1>3, <1>4, <1>5 DEF Debt

\* What the users earned up to now is within the debt.
LEMMA EarnedWithinDebt ==
    ASSUME NEW t \in Nat, NEW r, SettledAt(r, Users, t), NEW b \in [Users -> Nat],
           NEW i, i = GetAssetIndex(r, Total(b), t)
    PROVE  /\ i \in Nat /\ r.index <= i
           /\ Earned(r, b, i) \in [Users -> Nat]
           /\ Total(Earned(r, b, i)) <= Debt(r, b, t)
<1> DEFINE gain == i - r.index
           old == Earned(r, b, r.index)
           new == [h \in Users |-> b[h] * gain]
           pending == PendingOf(r, Total(b), t)
<1>1. r \in AssetData(Users) /\ r.index \in Nat /\ r.lastUpdateTimestamp <= t
  BY DEF SettledAt, AssetData
<1>2. /\ Total(b) \in Nat /\ pending \in Nat /\ Total(old) \in Nat
      /\ Debt(r, b, t) = Total(old) + pending * Scale
  BY DebtNat DEF Debt
<1>3. i \in Nat /\ r.index <= i /\ gain * Total(b) <= pending * Scale
  BY <1>1, <1>2, IndexGrows, IndexWithinPending
<1>4. gain \in Nat /\ i = r.index + gain
  BY <1>1, <1>3
<1>5. /\ old \in [Users -> Nat] /\ Earned(r, b, i) \in [Users -> Nat]
      /\ \A h \in Users : /\ old[h] = b[h] * (r.index - r.users[h])
                           /\ Earned(r, b, i)[h] = b[h] * (i - r.users[h])
  BY <1>1, <1>3, EarnedNat
<1> HIDE DEF gain, old, pending
<1>6. new \in [Users -> Nat] /\ Total(new) = Total(b) * gain
  BY <1>4, UsersFinite, TotalTimes, ProductNat
<1>7. Earned(r, b, i) = [h \in Users |-> old[h] + new[h]]
  <2>1. ASSUME NEW h \in Users PROVE Earned(r, b, i)[h] = old[h] + new[h]
    <3>1. r.users[h] \in Nat /\ b[h] \in Nat
      BY <1>1 DEF AssetData
    <3>2. b[h] * (i - r.users[h]) = b[h] * (r.index - r.users[h]) + b[h] * gain
      BY <1>1, <1>4, <3>1
    <3> QED
      BY <1>5, <3>2
  <2> QED
    BY <1>5, <2>1
<1> HIDE DEF new
<1>8. Total(Earned(r, b, i)) = Total(old) + Total(new)
  BY <1>5, <1>6, <1>7, UsersFinite, TotalSum
<1>9. Total(b) * gain = gain * Total(b)
  BY <1>2, <1>4
<1>10. pending * Scale \in Nat /\ gain * Total(b) \in Nat
  BY <1>2, <1>4, ProductNat, DistributionAssumption DEF pending
<1> QED
  BY <1>2, <1>3, <1>5, <1>6, <1>8, <1>9, <1>10 DEF gain, pending

(***************************************************************************)
(* A settlement pays no more than it takes off the debt, and what the      *)
(* settled user's balance becomes then does not matter.                    *)
(***************************************************************************)
LEMMA SettledDebt ==
    ASSUME NEW t \in Nat, NEW r, SettledAt(r, Users, t), NEW b \in [Users -> Nat],
           NEW u \in Users, NEW c, c = UpdateUserAsset(r, u, Total(b), t),
           NEW d \in [Users -> Nat], \A h \in Users \ {u} : d[h] = b[h]
    PROVE  /\ Debt(c, d, t) \in Nat /\ Debt(r, b, t) \in Nat
           /\ AccruedRewards(r, u, b[u], Total(b), t) * Scale + Debt(c, d, t)
                <= Debt(r, b, t)
<1> DEFINE i == GetAssetIndex(r, Total(b), t)
           all == Earned(r, b, i)
           rest == Earned(c, d, c.index)
           earned == AccruedRewards(r, u, b[u], Total(b), t)
<1>1. Total(b) \in Nat /\ Total(d) \in Nat /\ Debt(r, b, t) \in Nat
  BY UsersFinite, TotalBounds, DebtNat
<1>2. i \in Nat /\ r.index <= i /\ all \in [Users -> Nat] /\ Total(all) <= Debt(r, b, t)
  BY EarnedWithinDebt
<1>3. SettledAt(c, Users, t)
  BY <1>1, UserAssetSettled
<1>4. /\ c \in AssetData(Users) /\ c.index = i /\ c.lastUpdateTimestamp = t
      /\ \A h \in Users : c.users[h] = IF h = u THEN c.index ELSE r.users[h]
  <2> DEFINE total == Total(b)
  <2>1. total \in Nat /\ c = UpdateUserAsset(r, u, total, t)
    BY <1>1
  <2> HIDE DEF total
  <2>2. /\ c \in AssetData(Users) /\ c.index = GetAssetIndex(r, total, t)
        /\ c.lastUpdateTimestamp = t
        /\ \A h \in Users : c.users[h] = IF h = u THEN c.index ELSE r.users[h]
    BY <2>1, UserAssetRecord
  <2> QED
    BY <2>2 DEF total
<1>5. PendingOf(c, Total(d), t) = 0
  BY <1>1, <1>4, SettledNow
<1>6. Debt(c, d, t) = Total(rest) /\ Debt(c, d, t) \in Nat
  BY <1>3, <1>5, DebtNat, DistributionAssumption DEF Debt
<1>7. /\ rest \in [Users -> Nat]
      /\ \A h \in Users : rest[h] = d[h] * (c.index - c.users[h])
  BY <1>2, <1>3, <1>4, EarnedNat
<1>8. \A h \in Users : all[h] = b[h] * (i - r.users[h])
  BY <1>2, EarnedNat
<1>9. rest[u] = 0
  <2>1. c.index - c.users[u] = 0
    BY <1>2, <1>4
  <2>2. d[u] * 0 = 0
    OBVIOUS
  <2> HIDE DEF rest, i
  <2> QED
    BY <1>7, <2>1, <2>2
<1>10. \A h \in Users \ {u} : rest[h] = all[h]
  BY <1>4, <1>7, <1>8
<1>11. earned \in Nat /\ earned * Scale <= all[u]
  BY <1>1, <1>8, AccruedIsShare
<1> HIDE DEF all, rest, earned
<1>12. Total(rest) = Total(all) - all[u] + rest[u]
  BY <1>2, <1>7, <1>10, UsersFinite, TotalChange
<1>13. Total(all) \in Nat /\ earned * Scale \in Nat /\ all[u] \in Nat
  BY <1>2, <1>11, UsersFinite, TotalBounds, ProductNat, DistributionAssumption
<1> QED
  BY <1>1, <1>2, <1>6, <1>9, <1>11, <1>12, <1>13 DEF earned

\* A new emission adds nothing to the debt.
LEMMA ConfiguredDebt ==
    ASSUME NEW t \in Nat, NEW r, SettledAt(r, Users, t), NEW b \in [Users -> Nat],
           NEW e \in Nat, NEW c, c = ConfigureAsset(r, e, Total(b), t)
    PROVE  Debt(c, b, t) \in Nat /\ Debt(c, b, t) <= Debt(r, b, t)
<1> DEFINE i == GetAssetIndex(r, Total(b), t)
<1>1. Total(b) \in Nat
  BY UsersFinite, TotalBounds
<1>2. Total(Earned(r, b, i)) <= Debt(r, b, t)
  BY EarnedWithinDebt
<1>3. SettledAt(c, Users, t)
  BY <1>1, ConfiguredSettled
<1>4. /\ c \in AssetData(Users) /\ c.index = i /\ c.lastUpdateTimestamp = t
      /\ c.users = r.users
  BY <1>1, ConfiguredRecord
<1>5. PendingOf(c, Total(b), t) = 0
  BY <1>1, <1>4, SettledNow
<1>6. Debt(c, b, t) = Total(Earned(c, b, c.index)) /\ Debt(c, b, t) \in Nat
  BY <1>3, <1>5, DebtNat, DistributionAssumption DEF Debt
<1>7. Earned(c, b, c.index) = Earned(r, b, i)
  BY <1>4 DEF Earned
<1> QED
  BY <1>2, <1>6, <1>7

\* A second adds its emission, if it is one that counts.
LEMMA DebtNextSecond ==
    ASSUME NEW t \in Nat, NEW r, SettledAt(r, Users, t), NEW b \in [Users -> Nat]
    PROVE  Debt(r, b, t + 1)
             = Debt(r, b, t)
               + (IF t < DISTRIBUTION_END /\ Total(b) # 0 THEN r.emissionPerSecond ELSE 0)
                    * Scale
<1> DEFINE e == IF t < DISTRIBUTION_END /\ Total(b) # 0 THEN r.emissionPerSecond ELSE 0
           p == PendingOf(r, Total(b), t)
           q == PendingOf(r, Total(b), t + 1)
           x == Total(Earned(r, b, r.index))
<1>1. r \in AssetData(Users) /\ r.lastUpdateTimestamp <= t /\ r.emissionPerSecond \in Nat
  BY DEF SettledAt, AssetData
<1>2. Total(b) \in Nat /\ p \in Nat /\ x \in Nat
  BY DebtNat
<1>3. q = p + e
  BY <1>1, <1>2, PendingNextSecond
<1>4. Debt(r, b, t) = x + p * Scale /\ Debt(r, b, t + 1) = x + q * Scale /\ e \in Nat
  BY <1>1 DEF Debt
<1> HIDE DEF e, p, q, x
<1>5. (p + e) * Scale = p * Scale + e * Scale
  BY <1>2, <1>4, DistributionAssumption
<1>6. p * Scale \in Nat /\ e * Scale \in Nat
  BY <1>2, <1>4, ProductNat, DistributionAssumption
<1> QED
  BY <1>2, <1>3, <1>4, <1>5, <1>6 DEF e
-----------------------------------------------------------------------------
(* What a user accrued. *)

LEMMA SharesOfSettled ==
    ASSUME NEW t \in Nat, NEW c, SettledAt(c, Users, t), c.lastUpdateTimestamp = t,
           NEW total \in Nat, NEW v \in Users, NEW b \in Nat
    PROVE  /\ AccruedRewards(c, v, b, total, t) = (b * (c.index - c.users[v])) \div Scale
           /\ c.index \in Nat /\ c.users[v] \in Nat
<1>1. c \in AssetData(Users)
  BY DEF SettledAt
<1>2. GetAssetIndex(c, total, t) = c.index
  BY <1>1, SettledNow
<1>3. AccruedRewards(c, v, b, total, t)
        = (b * (GetAssetIndex(c, total, t) - c.users[v])) \div Scale
  BY AccruedIsShare
<1>4. c.index \in Nat
  BY AccruedIsShare
<1>5. c.users[v] \in Nat
  BY AccruedIsShare
<1> QED
  BY <1>2, <1>3, <1>4, <1>5

LEMMA SettledShares ==
    ASSUME NEW t \in Nat, NEW r, SettledAt(r, Users, t), NEW total \in Nat,
           NEW u \in Users, NEW c, c = UpdateUserAsset(r, u, total, t),
           NEW other \in Nat, NEW v \in Users, NEW b \in Nat
    PROVE  AccruedRewards(c, v, b, other, t)
             = IF v = u THEN 0 ELSE AccruedRewards(r, v, b, total, t)
<1>1. SettledAt(c, Users, t)
  BY UserAssetSettled
<1>2. /\ c \in AssetData(Users) /\ c.index = GetAssetIndex(r, total, t)
      /\ c.lastUpdateTimestamp = t
      /\ \A h \in Users : c.users[h] = IF h = u THEN c.index ELSE r.users[h]
  BY UserAssetRecord
<1>4. /\ AccruedRewards(c, v, b, other, t) = (b * (c.index - c.users[v])) \div Scale
      /\ c.index \in Nat /\ c.users[v] \in Nat
  BY <1>1, <1>2, SharesOfSettled
<1>5. CASE v = u
  <2> DEFINE x == b * (c.index - c.users[v])
  <2>1. c.index - c.users[v] = 0
    BY <1>2, <1>4, <1>5
  <2>2. x = 0
    BY <2>1
  <2> HIDE DEF x
  <2>3. x \div Scale = 0
    BY <2>2, DistributionAssumption
  <2> QED
    BY <1>4, <1>5, <2>3 DEF x
<1>6. CASE v # u
  <2>1. AccruedRewards(r, v, b, total, t)
          = (b * (GetAssetIndex(r, total, t) - r.users[v])) \div Scale
    BY AccruedIsShare
  <2> QED
    BY <1>2, <1>4, <1>6, <2>1
<1> QED
  BY <1>5, <1>6

LEMMA ConfiguredShares ==
    ASSUME NEW t \in Nat, NEW r, SettledAt(r, Users, t), NEW total \in Nat,
           NEW e \in Nat, NEW c, c = ConfigureAsset(r, e, total, t),
           NEW v \in Users, NEW b \in Nat
    PROVE  AccruedRewards(c, v, b, total, t) = AccruedRewards(r, v, b, total, t)
<1>1. SettledAt(c, Users, t)
  BY ConfiguredSettled
<1>2. /\ c \in AssetData(Users) /\ c.index = GetAssetIndex(r, total, t)
      /\ c.lastUpdateTimestamp = t /\ c.emissionPerSecond = e /\ c.users = r.users
  BY ConfiguredRecord
<1>4. AccruedRewards(c, v, b, total, t) = (b * (c.index - c.users[v])) \div Scale
  BY <1>1, <1>2, SharesOfSettled
<1>5. AccruedRewards(r, v, b, total, t)
        = (b * (GetAssetIndex(r, total, t) - r.users[v])) \div Scale
  BY AccruedIsShare
<1> QED
  BY <1>2, <1>4, <1>5

LEMMA SharesNextSecond ==
    ASSUME NEW t \in Nat, NEW r, SettledAt(r, Users, t), NEW total \in Nat,
           NEW v \in Users, NEW b \in Nat
    PROVE  AccruedRewards(r, v, b, total, t) <= AccruedRewards(r, v, b, total, t + 1)
<1> DEFINE i == GetAssetIndex(r, total, t)
           j == GetAssetIndex(r, total, t + 1)
           x == b * (i - r.users[v])
           y == b * (j - r.users[v])
<1>1. SettledAt(r, Users, t + 1) /\ t + 1 \in Nat
  BY DEF SettledAt, AssetData
<1>2. /\ i \in Nat /\ r.index \in Nat /\ r.users[v] \in Nat
      /\ r.users[v] <= r.index /\ r.index <= i
      /\ b * (i - r.users[v]) \in Nat
      /\ AccruedRewards(r, v, b, total, t) = (b * (i - r.users[v])) \div Scale
  BY AccruedIsShare
<1>3. /\ b * (j - r.users[v]) \in Nat
      /\ AccruedRewards(r, v, b, total, t + 1) = (b * (j - r.users[v])) \div Scale
  <2> DEFINE s == t + 1
  <2>1. SettledAt(r, Users, s) /\ s \in Nat
    BY <1>1
  <2> HIDE DEF s
  <2>2. /\ b * (GetAssetIndex(r, total, s) - r.users[v]) \in Nat
        /\ AccruedRewards(r, v, b, total, s)
             = (b * (GetAssetIndex(r, total, s) - r.users[v])) \div Scale
    BY <2>1, AccruedIsShare
  <2> QED
    BY <2>2 DEF s
<1>4. j \in Nat /\ i <= j
  BY IndexNextSecond DEF SettledAt
<1> HIDE DEF i, j
<1>5. i - r.users[v] \in Nat /\ j - r.users[v] \in Nat /\ i - r.users[v] <= j - r.users[v]
  BY <1>2, <1>4
<1>6. x <= y
  BY <1>5, ProductMonotone
<1>7. x \in Nat /\ y \in Nat
  BY <1>2, <1>3 DEF i, j
<1> HIDE DEF x, y
<1>8. x \div Scale <= y \div Scale
  BY <1>6, <1>7, QuotientMonotone, DistributionAssumption
<1> QED
  BY <1>2, <1>3, <1>8 DEF x, y, i, j
-----------------------------------------------------------------------------
(* What a user may still get: its part. *)

\* One token earned by one index point, in units of 1/FairScale.
Unit == Scale * FairScale

\* FairScale can be shared out over this supply exactly.
Exact(total) == total # 0 => FairScale = Portion(total) * total

(***************************************************************************)
(* In these units: what the index of h lags behind the stored index, for   *)
(* its balance n, and its part of what was emitted since the record was    *)
(* settled.                                                                *)
(***************************************************************************)
Part(r, h, n, total, t) ==
    (n * (r.index - r.users[h])) * FairScale
        + (n * PendingOf(r, total, t) * Portion(total)) * Scale

LEMMA PortionNat ==
    ASSUME NEW total \in Nat
    PROVE  Portion(total) \in Nat /\ FairScale \in Nat /\ FairScale # 0 /\ Scale \in Nat
             /\ Scale # 0 /\ Unit \in Nat
<1>1. FairScale \in Nat /\ FairScale # 0 /\ Scale \in Nat /\ Scale # 0
  BY FairScaleAssumption, DistributionAssumption
<1>2. Portion(total) \in Nat
  BY <1>1, QuotientBounds DEF Portion
<1> QED
  BY <1>1, <1>2, ProductNat DEF Unit

LEMMA BalancesExact ==
    ASSUME NEW b \in [Users -> Balances]
    PROVE  b \in [Users -> Nat] /\ Total(b) \in Nat /\ Exact(Total(b))
<1>1. Balances \subseteq Nat
  BY ControllerAssumption DEF Balances
<1>2. b \in [Users -> Nat]
  BY <1>1
<1> DEFINE total == Total(b)
           q == FairScale \div total
<1>3. total \in Nat
  BY <1>2, UsersFinite, TotalBounds
<1>4. ASSUME total # 0 PROVE FairScale = Portion(total) * total
  <2>1. FairScale % total = 0 /\ FairScale \in Nat
    BY <1>4, FairScaleAssumption
  <2> HIDE DEF total
  <2>2. FairScale = total * q + (FairScale % total) /\ q \in Nat
    BY <1>3, <1>4, <2>1, QuotientBounds
  <2>3. Portion(total) = q
    BY <1>4 DEF Portion
  <2> HIDE DEF q
  <2> QED
    BY <1>3, <2>1, <2>2, <2>3
<1> QED
  BY <1>2, <1>3, <1>4 DEF Exact

LEMMA PartNat ==
    ASSUME NEW t \in Nat, NEW r, SettledAt(r, Users, t), NEW total \in Nat,
           NEW h \in Users, NEW n \in Nat
    PROVE  /\ Part(r, h, n, total, t) \in Nat
           /\ (n * (r.index - r.users[h])) * FairScale \in Nat
           /\ PendingOf(r, total, t) \in Nat
           /\ n * PendingOf(r, total, t) * Portion(total) \in Nat
           /\ (n * PendingOf(r, total, t) * Portion(total)) * Scale \in Nat
<1> DEFINE p == PendingOf(r, total, t)
           q == Portion(total)
           x == n * (r.index - r.users[h])
<1>1. p \in Nat
  BY IndexWithinPending DEF SettledAt
<1>2. q \in Nat /\ FairScale \in Nat /\ Scale \in Nat
  BY PortionNat
<1>3. x \in Nat
  BY AccruedIsShare
<1> HIDE DEF p, q, x
<1>4. n * p * q \in Nat
  BY <1>1, <1>2, ProductNat
<1>5. (n * p * q) * Scale \in Nat /\ x * FairScale \in Nat
  BY <1>2, <1>3, <1>4, ProductNat
<1>6. x * FairScale + (n * p * q) * Scale \in Nat
  BY <1>5
<1> QED
  BY <1>1, <1>4, <1>5, <1>6 DEF Part, p, q, x

\* What the index of the moment gives for the balance n is within the part.
LEMMA GainWithinPart ==
    ASSUME NEW t \in Nat, NEW r, SettledAt(r, Users, t), NEW total \in Nat, Exact(total),
           NEW h \in Users, NEW n \in Nat, NEW i, i = GetAssetIndex(r, total, t)
    PROVE  /\ n * (i - r.users[h]) \in Nat
           /\ (n * (i - r.users[h])) * FairScale <= Part(r, h, n, total, t)
<1> DEFINE p == PendingOf(r, total, t)
           q == Portion(total)
           gain == i - r.index
           u == r.users[h]
           x == r.index
<1>1. r \in AssetData(Users) /\ r.lastUpdateTimestamp <= t
  BY DEF SettledAt
<1>2. /\ i \in Nat /\ x \in Nat /\ u \in Nat /\ u <= x /\ x <= i
      /\ n * (i - u) \in Nat /\ n * (x - u) \in Nat
  BY AccruedIsShare
<1>3. p \in Nat /\ gain * total <= p * Scale /\ (total = 0 => i = x)
  BY <1>1, IndexWithinPending
<1>4. q \in Nat /\ FairScale \in Nat /\ Scale \in Nat
  BY PortionNat
<1>5. total # 0 => FairScale = q * total
  BY DEF Exact
<1>6. Part(r, h, n, total, t) = (n * (x - u)) * FairScale + (n * p * q) * Scale
  BY DEF Part
<1>7. gain \in Nat /\ i = x + gain
  BY <1>2
<1> HIDE DEF p, q, gain, u, x
<1>8. n * (i - u) = n * (x - u) + n * gain
  BY <1>2, <1>7
<1>9. n * gain \in Nat /\ n * q \in Nat /\ gain * total \in Nat /\ p * Scale \in Nat
  BY <1>3, <1>4, <1>7, ProductNat
<1>10. (n * gain) * FairScale <= (n * p * q) * Scale
  <2>1. CASE total = 0
    <3>1. gain = 0
      BY <1>2, <1>3, <1>7, <2>1
    <3>2. (n * gain) * FairScale = 0
      BY <1>4, <3>1
    <3>3. (n * p * q) * Scale \in Nat
      BY <1>3, <1>4, ProductNat
    <3> QED
      BY <3>2, <3>3
  <2>2. CASE total # 0
    <3>1. (n * q) * (gain * total) <= (n * q) * (p * Scale)
      BY <1>3, <1>9, ProductMonotone
    <3>2. (n * q) * (gain * total) = (n * gain) * (q * total)
      BY <1>4, <1>7
    <3>3. (n * q) * (p * Scale) = (n * p * q) * Scale
      BY <1>3, <1>4
    <3> QED
      BY <1>5, <2>2, <3>1, <3>2, <3>3
  <2> QED
    BY <2>1, <2>2
<1>11. (n * (x - u) + n * gain) * FairScale
         = (n * (x - u)) * FairScale + (n * gain) * FairScale
  <2> DEFINE y == n * (x - u)
             z == n * gain
  <2>1. y \in Nat /\ z \in Nat
    BY <1>2, <1>9
  <2> HIDE DEF y, z
  <2>2. (y + z) * FairScale = y * FairScale + z * FairScale
    BY <1>4, <2>1
  <2> QED
    BY <2>2 DEF y, z
<1>12. /\ (n * (x - u)) * FairScale \in Nat /\ (n * gain) * FairScale \in Nat
       /\ (n * p * q) * Scale \in Nat
  BY <1>2, <1>3, <1>4, <1>9, ProductNat
<1> QED
  BY <1>2, <1>6, <1>8, <1>10, <1>11, <1>12 DEF u

\* So is what is accrued, which the rounding only makes less.
LEMMA AccruedWithinPart ==
    ASSUME NEW t \in Nat, NEW r, SettledAt(r, Users, t), NEW total \in Nat, Exact(total),
           NEW h \in Users, NEW n \in Nat, NEW earned,
           earned = AccruedRewards(r, h, n, total, t)
    PROVE  earned \in Nat /\ earned * Unit <= Part(r, h, n, total, t)
<1> DEFINE x == n * (GetAssetIndex(r, total, t) - r.users[h])
<1>1. earned \in Nat /\ earned * Scale <= x
  BY AccruedIsShare
<1>2. x \in Nat /\ x * FairScale <= Part(r, h, n, total, t)
  BY GainWithinPart
<1>3. FairScale \in Nat /\ Scale \in Nat
  BY PortionNat
<1>4. Part(r, h, n, total, t) \in Nat
  BY PartNat
<1> DEFINE y == earned * Scale
<1> HIDE DEF x
<1>5. y \in Nat
  BY <1>1, <1>3, ProductNat
<1>6. y * FairScale = earned * Unit
  BY <1>1, <1>3 DEF Unit
<1> HIDE DEF y
<1>7. FairScale * y <= FairScale * x
  BY <1>1, <1>2, <1>3, <1>5, ProductMonotone DEF y
<1>8. y * FairScale = FairScale * y /\ x * FairScale = FairScale * x
  BY <1>2, <1>3, <1>5
<1>9. y * FairScale \in Nat /\ x * FairScale \in Nat
  BY <1>2, <1>3, <1>5, ProductNat
<1> QED
  BY <1>1, <1>2, <1>4, <1>6, <1>7, <1>8, <1>9

\* A record settled just now owes only what the index has gained.
LEMMA PartOfSettled ==
    ASSUME NEW t \in Nat, NEW c, SettledAt(c, Users, t), c.lastUpdateTimestamp = t,
           NEW total \in Nat, NEW h \in Users, NEW n \in Nat
    PROVE  Part(c, h, n, total, t) = (n * (c.index - c.users[h])) * FairScale
<1> DEFINE p == PendingOf(c, total, t)
           q == Portion(total)
           x == (n * (c.index - c.users[h])) * FairScale
<1>1. p = 0
  BY SettledNow DEF SettledAt
<1>2. q \in Nat /\ Scale \in Nat /\ x \in Nat
  BY PortionNat, PartNat
<1>3. Part(c, h, n, total, t) = x + (n * p * q) * Scale
  BY DEF Part
<1> HIDE DEF p, q, x
<1>4. (n * p * q) * Scale = 0
  BY <1>1, <1>2
<1>5. Part(c, h, n, total, t) = x
  BY <1>2, <1>3, <1>4
<1> QED
  BY <1>5 DEF x

(***************************************************************************)
(* A settlement takes what it pays off the part of the settled user, for   *)
(* whatever balance it has then and whatever the supply becomes, and       *)
(* leaves nobody a greater part.                                           *)
(***************************************************************************)
LEMMA SettledPart ==
    ASSUME NEW t \in Nat, NEW r, SettledAt(r, Users, t), NEW total \in Nat, Exact(total),
           NEW u \in Users, NEW c, c = UpdateUserAsset(r, u, total, t),
           NEW other \in Nat, NEW v \in Users, NEW n \in Nat, NEW m \in Nat,
           v # u => m = n,
           NEW earned, earned = AccruedRewards(r, v, n, total, t)
    PROVE  (IF v = u THEN earned ELSE 0) * Unit + Part(c, v, m, other, t)
             <= Part(r, v, n, total, t)
<1> DEFINE i == GetAssetIndex(r, total, t)
<1>1. SettledAt(c, Users, t)
  BY UserAssetSettled
<1>2. /\ c.index = i /\ c.lastUpdateTimestamp = t
      /\ c.users[v] = IF v = u THEN c.index ELSE r.users[v]
  <2>1. /\ c \in AssetData(Users) /\ c.index = GetAssetIndex(r, total, t)
        /\ c.lastUpdateTimestamp = t
        /\ \A h \in Users : c.users[h] = IF h = u THEN c.index ELSE r.users[h]
    BY UserAssetRecord
  <2> QED
    BY <2>1
<1>3. Part(c, v, m, other, t) = (m * (c.index - c.users[v])) * FairScale
  BY <1>1, <1>2, PartOfSettled
<1>4. Part(r, v, n, total, t) \in Nat
  BY PartNat
<1>5. Unit \in Nat /\ FairScale \in Nat
  BY PortionNat
<1>6. CASE v = u
  <2>1. c.index \in Nat /\ c.index - c.users[v] = 0
    <3>1. i \in Nat
      BY AccruedIsShare
    <3> QED
      BY <1>2, <1>6, <3>1
  <2>2. (m * 0) * FairScale = 0
    BY <1>5
  <2>3. Part(c, v, m, other, t) = 0
    BY <1>3, <2>1, <2>2
  <2>4. earned \in Nat /\ earned * Unit <= Part(r, v, n, total, t)
    BY AccruedWithinPart
  <2>5. earned * Unit \in Nat
    BY <1>5, <2>4, ProductNat
  <2> QED
    BY <1>6, <2>3, <2>4, <2>5
<1>7. CASE v # u
  <2>1. Part(c, v, m, other, t) = (n * (i - r.users[v])) * FairScale
    BY <1>2, <1>3, <1>7
  <2>2. /\ n * (i - r.users[v]) \in Nat
        /\ (n * (i - r.users[v])) * FairScale <= Part(r, v, n, total, t)
    BY GainWithinPart
  <2>3. 0 * Unit = 0
    BY <1>5
  <2>4. (n * (i - r.users[v])) * FairScale \in Nat
    BY <1>5, <2>2, ProductNat
  <2> QED
    BY <1>7, <2>1, <2>2, <2>3, <2>4
<1> QED
  BY <1>6, <1>7

\* A new emission leaves nobody a greater part.
LEMMA ConfiguredPart ==
    ASSUME NEW t \in Nat, NEW r, SettledAt(r, Users, t), NEW total \in Nat, Exact(total),
           NEW e \in Nat, NEW c, c = ConfigureAsset(r, e, total, t),
           NEW v \in Users, NEW n \in Nat
    PROVE  Part(c, v, n, total, t) <= Part(r, v, n, total, t)
<1>1. SettledAt(c, Users, t)
  BY ConfiguredSettled
<1>2. /\ c \in AssetData(Users) /\ c.index = GetAssetIndex(r, total, t)
      /\ c.lastUpdateTimestamp = t /\ c.emissionPerSecond = e /\ c.users = r.users
  BY ConfiguredRecord
<1>3. Part(c, v, n, total, t) = (n * (c.index - c.users[v])) * FairScale
  BY <1>1, <1>2, PartOfSettled
<1>4. (n * (c.index - r.users[v])) * FairScale <= Part(r, v, n, total, t)
  BY <1>2, GainWithinPart
<1> QED
  BY <1>2, <1>3, <1>4

\* A second adds the part of its emission, if it is one that counts.
LEMMA PartNextSecond ==
    ASSUME NEW t \in Nat, NEW r, SettledAt(r, Users, t), NEW total \in Nat,
           NEW v \in Users, NEW n \in Nat, NEW e,
           e = IF t < DISTRIBUTION_END /\ total # 0 THEN r.emissionPerSecond ELSE 0
    PROVE  /\ Part(r, v, n, total, t + 1)
                = Part(r, v, n, total, t) + (n * e * Portion(total)) * Scale
           /\ n * e * Portion(total) \in Nat
<1> DEFINE p == PendingOf(r, total, t)
           p1 == PendingOf(r, total, t + 1)
           q == Portion(total)
           x == (n * (r.index - r.users[v])) * FairScale
<1>1. r \in AssetData(Users) /\ r.lastUpdateTimestamp <= t /\ e \in Nat
  BY DEF SettledAt, AssetData
<1>2. p1 = p + e
  BY <1>1, PendingNextSecond
<1>3. p \in Nat /\ x \in Nat
  BY PartNat
<1>4. q \in Nat /\ Scale \in Nat
  BY PortionNat
<1>5. /\ Part(r, v, n, total, t) = x + (n * p * q) * Scale
      /\ Part(r, v, n, total, t + 1) = x + (n * p1 * q) * Scale
  BY DEF Part
<1> HIDE DEF p, p1, q, x
<1>6. (n * (p + e) * q) * Scale = (n * p * q) * Scale + (n * e * q) * Scale
  BY <1>1, <1>3, <1>4
<1>7. n * e * q \in Nat /\ (n * p * q) * Scale \in Nat /\ (n * e * q) * Scale \in Nat
  BY <1>1, <1>3, <1>4, ProductNat
<1> QED
  BY <1>2, <1>3, <1>5, <1>6, <1>7 DEF q
-----------------------------------------------------------------------------
(* All listed assets together.  A are their records, L the balances. *)

DebtsOf(A, L) == [a \in ListedAssets |-> Debt(A[a], L[a], now)]

AccountsOf(A, L, u) ==
    [a \in ListedAssets |-> AccruedRewards(A[a], u, L[a][u], Total(L[a]), now)]

PartsOf(A, L, u) ==
    [a \in ListedAssets |-> Part(A[a], u, L[a][u], Total(L[a]), now)]

LEMMA ListedValues ==
    ASSUME now \in Nat, NEW A \in Books, NEW L \in [ListedAssets -> [Users -> Nat]]
    PROVE  /\ DebtsOf(A, L) \in [ListedAssets -> Nat] /\ Total(DebtsOf(A, L)) \in Nat
           /\ \A u \in Users : /\ AccountsOf(A, L, u) \in [ListedAssets -> Nat]
                               /\ Total(AccountsOf(A, L, u)) \in Nat
                               /\ PartsOf(A, L, u) \in [ListedAssets -> Nat]
                               /\ Total(PartsOf(A, L, u)) \in Nat
<1>1. ASSUME NEW a \in ListedAssets
      PROVE  SettledAt(A[a], Users, now) /\ L[a] \in [Users -> Nat] /\ Total(L[a]) \in Nat
                /\ a \in Assets
  BY UsersFinite, TotalBounds DEF Books, Assets
<1>2. \A a \in ListedAssets : Debt(A[a], L[a], now) \in Nat
  BY <1>1, DebtNat
<1>3. DebtsOf(A, L) \in [ListedAssets -> Nat]
  BY <1>2 DEF DebtsOf
<1>4. ASSUME NEW u \in Users PROVE AccountsOf(A, L, u) \in [ListedAssets -> Nat]
  <2>1. ASSUME NEW a \in ListedAssets
        PROVE  AccruedRewards(A[a], u, L[a][u], Total(L[a]), now) \in Nat
    <3>1. L[a][u] \in Nat /\ a \in Assets /\ Total(L[a]) \in Nat
      BY <1>1
    <3> QED
      BY <3>1, AccruedInBooks
  <2> QED
    BY <2>1 DEF AccountsOf
<1>5. ASSUME NEW u \in Users PROVE PartsOf(A, L, u) \in [ListedAssets -> Nat]
  <2>1. ASSUME NEW a \in ListedAssets
        PROVE  Part(A[a], u, L[a][u], Total(L[a]), now) \in Nat
    <3> DEFINE r == A[a]
               n == L[a][u]
               total == Total(L[a])
    <3>1. SettledAt(r, Users, now) /\ n \in Nat /\ total \in Nat
      BY <1>1
    <3> HIDE DEF r, n, total
    <3>2. Part(r, u, n, total, now) \in Nat
      BY <3>1, PartNat
    <3> QED
      BY <3>2 DEF r, n, total
  <2> QED
    BY <2>1 DEF PartsOf
<1> QED
  BY <1>3, <1>4, <1>5, UsersFinite, TotalBounds

LEMMA ListedChange ==
    ASSUME NEW f \in [ListedAssets -> Nat], NEW g \in [ListedAssets -> Nat],
           NEW a \in ListedAssets, \A x \in ListedAssets \ {a} : g[x] = f[x]
    PROVE  Total(g) = Total(f) - f[a] + g[a]
  BY UsersFinite, TotalChange

(***************************************************************************)
(* From the records A and the balances L to B and M: what u is given comes *)
(* off the debt, off its own account and off its own part, nobody else's   *)
(* account changes and nobody's part grows.                                *)
(***************************************************************************)
Paying(A, L, B, M, u, earned) ==
    /\ earned \in Nat
    /\ earned * Scale + Total(DebtsOf(B, M)) <= Total(DebtsOf(A, L))
    /\ earned + Total(AccountsOf(B, M, u)) = Total(AccountsOf(A, L, u))
    /\ \A v \in Users \ {u} : Total(AccountsOf(B, M, v)) = Total(AccountsOf(A, L, v))
    /\ \A v \in Users : (IF v = u THEN earned ELSE 0) * Unit + Total(PartsOf(B, M, v))
                            <= Total(PartsOf(A, L, v))

LEMMA ListedSettledParts ==
    ASSUME now \in Nat, NEW A \in Books, NEW B \in Books,
           NEW L \in [ListedAssets -> [Users -> Nat]],
           NEW M \in [ListedAssets -> [Users -> Nat]],
           NEW a \in ListedAssets, Exact(Total(L[a])), NEW u \in Users,
           B[a] = UpdateUserAsset(A[a], u, Total(L[a]), now),
           \A x \in ListedAssets \ {a} : B[x] = A[x] /\ M[x] = L[x],
           \A v \in Users \ {u} : M[a][v] = L[a][v],
           NEW earned, earned = AccruedRewards(A[a], u, L[a][u], Total(L[a]), now),
           NEW v \in Users
    PROVE  (IF v = u THEN earned ELSE 0) * Unit + Total(PartsOf(B, M, v))
             <= Total(PartsOf(A, L, v))
<1> DEFINE f == PartsOf(A, L, v)
           g == PartsOf(B, M, v)
           given == (IF v = u THEN earned ELSE 0) * Unit
<1>1. /\ SettledAt(A[a], Users, now) /\ a \in Assets
      /\ L[a] \in [Users -> Nat] /\ M[a] \in [Users -> Nat]
      /\ Total(L[a]) \in Nat /\ Total(M[a]) \in Nat
  BY UsersFinite, TotalBounds DEF Books, Assets
<1>2. f \in [ListedAssets -> Nat] /\ g \in [ListedAssets -> Nat] /\ Total(f) \in Nat
  BY ListedValues
<1>3. \A x \in ListedAssets \ {a} : g[x] = f[x]
  BY DEF PartsOf
<1>4. given \in Nat
  <2>1. earned \in Nat
    BY <1>1, AccruedInBooks
  <2>2. (IF v = u THEN earned ELSE 0) \in Nat /\ Unit \in Nat
    BY <1>1, <2>1, PortionNat
  <2> QED
    BY <2>2, ProductNat
<1>5. given + g[a] <= f[a]
  <2> DEFINE r == A[a]
             total == Total(L[a])
             other == Total(M[a])
             c == B[a]
             n == L[a][v]
             m == M[a][v]
             due == AccruedRewards(r, v, n, total, now)
  <2>1. /\ SettledAt(r, Users, now) /\ total \in Nat /\ other \in Nat /\ Exact(total)
        /\ c = UpdateUserAsset(r, u, total, now) /\ n \in Nat /\ m \in Nat
        /\ v # u => m = n
    BY <1>1
  <2>2. v = u => due = earned
    OBVIOUS
  <2>3. f[a] = Part(r, v, n, total, now) /\ g[a] = Part(c, v, m, other, now)
    BY DEF PartsOf
  <2> HIDE DEF r, total, other, c, n, m, f, g
  <2>4. (IF v = u THEN due ELSE 0) * Unit + Part(c, v, m, other, now)
          <= Part(r, v, n, total, now)
    BY <2>1, SettledPart
  <2> HIDE DEF due
  <2>5. (IF v = u THEN due ELSE 0) = (IF v = u THEN earned ELSE 0)
    BY <2>2
  <2> QED
    BY <2>3, <2>4, <2>5
<1> HIDE DEF f, g, given
<1>6. Total(g) = Total(f) - f[a] + g[a]
  BY <1>2, <1>3, ListedChange
<1>7. f[a] \in Nat /\ g[a] \in Nat
  BY <1>2
<1>8. given + Total(g) <= Total(f)
  BY <1>2, <1>4, <1>5, <1>6, <1>7
<1> QED
  BY <1>8 DEF f, g, given

\* So it is when u is settled in the listed asset a, whatever its balance
\* becomes then.
LEMMA ListedSettled ==
    ASSUME now \in Nat, NEW A \in Books, NEW B \in Books,
           NEW L \in [ListedAssets -> [Users -> Nat]],
           NEW M \in [ListedAssets -> [Users -> Nat]],
           NEW a \in ListedAssets, Exact(Total(L[a])), NEW u \in Users,
           B[a] = UpdateUserAsset(A[a], u, Total(L[a]), now),
           \A x \in ListedAssets \ {a} : B[x] = A[x] /\ M[x] = L[x],
           \A v \in Users \ {u} : M[a][v] = L[a][v],
           NEW earned, earned = AccruedRewards(A[a], u, L[a][u], Total(L[a]), now)
    PROVE  Paying(A, L, B, M, u, earned)
<1>1. /\ SettledAt(A[a], Users, now) /\ a \in Assets
      /\ L[a] \in [Users -> Nat] /\ M[a] \in [Users -> Nat]
      /\ Total(L[a]) \in Nat /\ Total(M[a]) \in Nat
  BY UsersFinite, TotalBounds DEF Books, Assets
<1>2. earned \in Nat
  BY <1>1, AccruedInBooks
<1>3. earned * Scale + Total(DebtsOf(B, M)) <= Total(DebtsOf(A, L))
  <2> DEFINE f == DebtsOf(A, L)
             g == DebtsOf(B, M)
  <2>1. f \in [ListedAssets -> Nat] /\ g \in [ListedAssets -> Nat] /\ Total(f) \in Nat
    BY ListedValues
  <2>2. \A x \in ListedAssets \ {a} : g[x] = f[x]
    BY DEF DebtsOf
  <2>3. f[a] = Debt(A[a], L[a], now) /\ g[a] = Debt(B[a], M[a], now)
    BY DEF DebtsOf
  <2>4. earned * Scale + Debt(B[a], M[a], now) <= Debt(A[a], L[a], now)
    <3> DEFINE r == A[a]
               b == L[a]
               c == B[a]
               d == M[a]
    <3>1. /\ SettledAt(r, Users, now) /\ b \in [Users -> Nat] /\ d \in [Users -> Nat]
          /\ c = UpdateUserAsset(r, u, Total(b), now)
          /\ \A h \in Users \ {u} : d[h] = b[h]
          /\ earned = AccruedRewards(r, u, b[u], Total(b), now)
      BY <1>1
    <3> HIDE DEF r, b, c, d
    <3>2. AccruedRewards(r, u, b[u], Total(b), now) * Scale + Debt(c, d, now) <= Debt(r, b, now)
      BY <3>1, SettledDebt
    <3> QED
      BY <3>1, <3>2 DEF r, b, c, d
  <2> HIDE DEF f, g
  <2>5. Total(g) = Total(f) - f[a] + g[a]
    BY <2>1, <2>2, ListedChange
  <2>6. f[a] \in Nat /\ g[a] \in Nat /\ earned * Scale \in Nat
    BY <1>2, <2>1, ProductNat, DistributionAssumption
  <2> QED
    BY <2>1, <2>3, <2>4, <2>5, <2>6 DEF f, g
<1>4. ASSUME NEW v \in Users
      PROVE  /\ AccountsOf(B, M, v)[a] = IF v = u THEN 0 ELSE AccountsOf(A, L, v)[a]
             /\ \A x \in ListedAssets \ {a} : AccountsOf(B, M, v)[x] = AccountsOf(A, L, v)[x]
  <2>1. \A x \in ListedAssets \ {a} : AccountsOf(B, M, v)[x] = AccountsOf(A, L, v)[x]
    BY DEF AccountsOf
  <2>2. /\ AccountsOf(A, L, v)[a] = AccruedRewards(A[a], v, L[a][v], Total(L[a]), now)
        /\ AccountsOf(B, M, v)[a] = AccruedRewards(B[a], v, M[a][v], Total(M[a]), now)
    BY DEF AccountsOf
  <2> DEFINE r == A[a]
             c == B[a]
             total == Total(L[a])
             other == Total(M[a])
             b == M[a][v]
  <2>3. /\ SettledAt(r, Users, now) /\ total \in Nat /\ other \in Nat /\ b \in Nat
        /\ c = UpdateUserAsset(r, u, total, now)
    BY <1>1
  <2> HIDE DEF r, c, total, other, b
  <2>4. AccruedRewards(c, v, b, other, now)
          = IF v = u THEN 0 ELSE AccruedRewards(r, v, b, total, now)
    BY <2>3, SettledShares
  <2> QED
    BY <2>1, <2>2, <2>4 DEF r, c, total, other, b
<1>5. ASSUME NEW v \in Users
      PROVE  Total(AccountsOf(B, M, v))
               = Total(AccountsOf(A, L, v)) - (IF v = u THEN earned ELSE 0)
             /\ Total(AccountsOf(A, L, v)) \in Nat
  <2> DEFINE f == AccountsOf(A, L, v)
             g == AccountsOf(B, M, v)
  <2>1. f \in [ListedAssets -> Nat] /\ g \in [ListedAssets -> Nat] /\ Total(f) \in Nat
    BY ListedValues
  <2>2. g[a] = (IF v = u THEN 0 ELSE f[a]) /\ \A x \in ListedAssets \ {a} : g[x] = f[x]
    BY <1>4
  <2>3. v = u => f[a] = earned
    BY DEF AccountsOf
  <2> HIDE DEF f, g
  <2>4. Total(g) = Total(f) - f[a] + g[a] /\ f[a] \in Nat
    BY <2>1, <2>2, ListedChange
  <2> QED
    BY <2>1, <2>2, <2>3, <2>4 DEF f, g
<1>6. earned + Total(AccountsOf(B, M, u)) = Total(AccountsOf(A, L, u))
  BY <1>2, <1>5
<1>7. \A v \in Users \ {u} : Total(AccountsOf(B, M, v)) = Total(AccountsOf(A, L, v))
  BY <1>5
<1>8. \A v \in Users : (IF v = u THEN earned ELSE 0) * Unit + Total(PartsOf(B, M, v))
                           <= Total(PartsOf(A, L, v))
  BY ListedSettledParts
<1> QED
  BY <1>2, <1>3, <1>6, <1>7, <1>8 DEF Paying

\* The records of the impostors do not matter.
LEMMA ImpostorSettled ==
    ASSUME NEW A, NEW B, \A x \in ListedAssets : B[x] = A[x], NEW L
    PROVE  /\ DebtsOf(B, L) = DebtsOf(A, L)
           /\ \A u \in Users : /\ AccountsOf(B, L, u) = AccountsOf(A, L, u)
                               /\ PartsOf(B, L, u) = PartsOf(A, L, u)
  BY DEF DebtsOf, AccountsOf, PartsOf

NoDearer(A, B, L) ==
    /\ Total(DebtsOf(B, L)) <= Total(DebtsOf(A, L))
    /\ \A v \in Users : /\ AccountsOf(B, L, v) = AccountsOf(A, L, v)
                        /\ Total(PartsOf(B, L, v)) <= Total(PartsOf(A, L, v))

\* A new emission of the listed asset a changes no account and adds to no part.
LEMMA ListedConfigured ==
    ASSUME now \in Nat, NEW A \in Books, NEW B \in Books,
           NEW L \in [ListedAssets -> [Users -> Nat]],
           NEW a \in ListedAssets, Exact(Total(L[a])), NEW e \in Nat,
           B[a] = ConfigureAsset(A[a], e, Total(L[a]), now),
           \A x \in ListedAssets \ {a} : B[x] = A[x]
    PROVE  NoDearer(A, B, L)
<1> DEFINE r == A[a]
           b == L[a]
           total == Total(b)
           c == B[a]
<1>1. /\ SettledAt(r, Users, now) /\ b \in [Users -> Nat] /\ total \in Nat
      /\ c = ConfigureAsset(r, e, total, now) /\ a \in Assets
  BY UsersFinite, TotalBounds DEF Books, Assets
<1>2. Debt(c, b, now) <= Debt(r, b, now)
  <2> HIDE DEF r, b, c
  <2> QED
    BY <1>1, ConfiguredDebt
<1>3. \A v \in Users : AccruedRewards(c, v, b[v], total, now) = AccruedRewards(r, v, b[v], total, now)
  <2> HIDE DEF r, b, total, c
  <2> SUFFICES ASSUME NEW v \in Users
               PROVE  AccruedRewards(c, v, b[v], total, now)
                        = AccruedRewards(r, v, b[v], total, now)
    OBVIOUS
  <2> DEFINE n == b[v]
  <2>1. n \in Nat
    BY <1>1
  <2> HIDE DEF n
  <2>2. AccruedRewards(c, v, n, total, now) = AccruedRewards(r, v, n, total, now)
    BY <1>1, <2>1, ConfiguredShares
  <2> QED
    BY <2>2 DEF n
<1>4. Total(DebtsOf(B, L)) <= Total(DebtsOf(A, L))
  <2>1. /\ DebtsOf(A, L) \in [ListedAssets -> Nat] /\ DebtsOf(B, L) \in [ListedAssets -> Nat]
    BY ListedValues
  <2>2. ASSUME NEW x \in ListedAssets PROVE DebtsOf(B, L)[x] <= DebtsOf(A, L)[x]
    <3>1. DebtsOf(A, L)[x] \in Nat
      BY <2>1
    <3>2. /\ DebtsOf(A, L)[x] = Debt(A[x], L[x], now)
          /\ DebtsOf(B, L)[x] = Debt(B[x], L[x], now)
      BY DEF DebtsOf
    <3>3. CASE x = a
      BY <1>2, <3>2, <3>3
    <3>4. CASE x # a
      <4>1. B[x] = A[x]
        BY <3>4
      <4> QED
        BY <3>1, <3>2, <4>1
    <3> QED
      BY <3>3, <3>4
  <2> QED
    BY <2>1, <2>2, UsersFinite, TotalMonotone
<1>5. ASSUME NEW v \in Users PROVE AccountsOf(B, L, v) = AccountsOf(A, L, v)
  <2>1. ASSUME NEW x \in ListedAssets
        PROVE  AccruedRewards(B[x], v, L[x][v], Total(L[x]), now)
                 = AccruedRewards(A[x], v, L[x][v], Total(L[x]), now)
    <3>1. CASE x = a
      BY <1>3, <3>1
    <3>2. CASE x # a
      BY <3>2
    <3> QED
      BY <3>1, <3>2
  <2> QED
    BY <2>1 DEF AccountsOf
<1>6. ASSUME NEW v \in Users PROVE Total(PartsOf(B, L, v)) <= Total(PartsOf(A, L, v))
  <2> DEFINE f == PartsOf(A, L, v)
             g == PartsOf(B, L, v)
  <2>1. f \in [ListedAssets -> Nat] /\ g \in [ListedAssets -> Nat]
    BY ListedValues
  <2>2. ASSUME NEW x \in ListedAssets PROVE g[x] <= f[x]
    <3>1. f[x] \in Nat
      BY <2>1
    <3>2. /\ f[x] = Part(A[x], v, L[x][v], Total(L[x]), now)
          /\ g[x] = Part(B[x], v, L[x][v], Total(L[x]), now)
      BY DEF PartsOf
    <3>3. CASE x = a
      <4> DEFINE n == b[v]
      <4>1. n \in Nat /\ Exact(total)
        BY <1>1
      <4>2. f[x] = Part(r, v, n, total, now) /\ g[x] = Part(c, v, n, total, now)
        BY <3>2, <3>3
      <4> HIDE DEF r, total, c, n, f, g
      <4>3. Part(c, v, n, total, now) <= Part(r, v, n, total, now)
        BY <1>1, <4>1, ConfiguredPart
      <4> QED
        BY <4>2, <4>3
    <3>4. CASE x # a
      <4>1. B[x] = A[x]
        BY <3>4
      <4> QED
        BY <3>1, <3>2, <4>1
    <3> QED
      BY <3>3, <3>4
  <2> HIDE DEF f, g
  <2>3. Total(g) <= Total(f)
    BY <2>1, <2>2, UsersFinite, TotalMonotone
  <2> QED
    BY <2>3 DEF f, g
<1> QED
  BY <1>4, <1>5, <1>6 DEF NoDearer

-----------------------------------------------------------------------------
(* What the loops carry. *)

\* Between two rounds of _claimRewards: what is accrued so far is off the debt
\* and off the account and the part of u.
Carried(d, u) ==
    /\ d \in Round
    /\ d.accruedRewards * Scale + Total(DebtsOf(d.assets, lent)) <= Total(DebtsOf(assets, lent))
    /\ d.accruedRewards + Total(AccountsOf(d.assets, lent, u)) = Total(AccountsOf(assets, lent, u))
    /\ \A v \in Users \ {u} : Total(AccountsOf(d.assets, lent, v))
                                = Total(AccountsOf(assets, lent, v))
    /\ \A v \in Users : (IF v = u THEN d.accruedRewards ELSE 0) * Unit
                                + Total(PartsOf(d.assets, lent, v))
                            <= Total(PartsOf(assets, lent, v))

LEMMA SuppliesExact ==
    ASSUME ControllerInv, NEW a \in ListedAssets
    PROVE  Exact(Total(lent[a]))
  BY BalancesExact DEF ControllerInv

LEMMA ClaimedNextCarried ==
    ASSUME ControllerInv, NEW u \in Users, NEW d, Carried(d, u), NEW a \in Assets,
           NEW stake \in Stake,
           a \in ListedAssets =>
                stake.stakedByUser = lent[a][u] /\ stake.totalStaked = Total(lent[a])
    PROVE  Carried(ClaimedNext(d, u, a, stake), u)
<1> DEFINE A == d.assets
           e == ClaimedNext(d, u, a, stake)
           B == e.assets
           earned == AccruedRewards(A[a], u, stake.stakedByUser, stake.totalStaked, now)
<1>1. /\ d \in Round /\ d.accruedRewards \in Nat /\ A \in Books
      /\ A \in [Assets -> AssetData(Users)]
      /\ now \in Nat /\ lent \in [ListedAssets -> [Users -> Nat]]
      /\ stake.stakedByUser \in Nat /\ stake.totalStaked \in Nat
  BY DEF Carried, Round, ControllerInv, ControllerTypeOK, Stake, Books
<1>2. /\ e \in Round /\ e.accruedRewards = d.accruedRewards + earned
      /\ B = [A EXCEPT ![a] = UpdateUserAsset(@, u, stake.totalStaked, now)]
  BY <1>1, ClaimedNextRound
<1>3. earned \in Nat /\ (a \in Impostors => earned = 0)
  BY <1>1, AccruedInBooks
<1>4. /\ B \in Books /\ B[a] = UpdateUserAsset(A[a], u, stake.totalStaked, now)
      /\ \A x \in Assets \ {a} : B[x] = A[x]
  BY <1>1, <1>2 DEF Round
<1>5. /\ d.accruedRewards * Scale + Total(DebtsOf(A, lent)) <= Total(DebtsOf(assets, lent))
      /\ d.accruedRewards + Total(AccountsOf(A, lent, u)) = Total(AccountsOf(assets, lent, u))
      /\ \A v \in Users \ {u} : Total(AccountsOf(A, lent, v)) = Total(AccountsOf(assets, lent, v))
      /\ \A v \in Users : (IF v = u THEN d.accruedRewards ELSE 0) * Unit
                                + Total(PartsOf(A, lent, v))
                            <= Total(PartsOf(assets, lent, v))
  BY DEF Carried
<1>6. /\ Total(DebtsOf(A, lent)) \in Nat /\ Total(DebtsOf(B, lent)) \in Nat
      /\ Total(AccountsOf(A, lent, u)) \in Nat /\ Total(AccountsOf(B, lent, u)) \in Nat
      /\ Total(DebtsOf(assets, lent)) \in Nat
  BY <1>1, <1>4, ListedValues DEF ControllerInv
<1>7. /\ earned * Scale + Total(DebtsOf(B, lent)) <= Total(DebtsOf(A, lent))
      /\ earned + Total(AccountsOf(B, lent, u)) = Total(AccountsOf(A, lent, u))
      /\ \A v \in Users \ {u} : Total(AccountsOf(B, lent, v)) = Total(AccountsOf(A, lent, v))
      /\ \A v \in Users : (IF v = u THEN earned ELSE 0) * Unit + Total(PartsOf(B, lent, v))
                            <= Total(PartsOf(A, lent, v))
  <2>1. CASE a \in ListedAssets
    <3>1. /\ B[a] = UpdateUserAsset(A[a], u, Total(lent[a]), now)
          /\ earned = AccruedRewards(A[a], u, lent[a][u], Total(lent[a]), now)
      BY <1>4, <2>1
    <3>2. \A x \in ListedAssets \ {a} : B[x] = A[x] /\ lent[x] = lent[x]
      BY <1>4 DEF Assets
    <3>3. \A v \in Users \ {u} : lent[a][v] = lent[a][v]
      OBVIOUS
    <3> HIDE DEF A, B, earned
    <3>4. /\ now \in Nat /\ A \in Books /\ B \in Books
          /\ lent \in [ListedAssets -> [Users -> Nat]] /\ Exact(Total(lent[a]))
      BY <1>1, <1>4, <2>1, SuppliesExact
    <3>5. Paying(A, lent, B, lent, u, earned)
      BY <2>1, <3>1, <3>2, <3>3, <3>4, ListedSettled
    <3> QED
      BY <3>5 DEF Paying
  <2>2. CASE a \notin ListedAssets
    <3>1. earned = 0 /\ \A x \in ListedAssets : B[x] = A[x]
      BY <1>3, <1>4, <2>2 DEF Assets
    <3> HIDE DEF A, B, earned
    <3>2. /\ DebtsOf(B, lent) = DebtsOf(A, lent)
          /\ \A v \in Users : /\ AccountsOf(B, lent, v) = AccountsOf(A, lent, v)
                              /\ PartsOf(B, lent, v) = PartsOf(A, lent, v)
      BY <3>1, ImpostorSettled
    <3>3. earned * Scale = 0 /\ 0 * Unit = 0
      BY <3>1, DistributionAssumption, PortionNat
    <3>4. ASSUME NEW v \in Users
          PROVE  (IF v = u THEN earned ELSE 0) * Unit + Total(PartsOf(B, lent, v))
                    <= Total(PartsOf(A, lent, v))
      <4>1. (IF v = u THEN earned ELSE 0) * Unit = 0
        BY <3>1, <3>3
      <4>2. PartsOf(B, lent, v) = PartsOf(A, lent, v)
        BY <3>2
      <4>3. Total(PartsOf(A, lent, v)) \in Nat
        BY <1>1, ListedValues DEF A
      <4> QED
        BY <4>1, <4>2, <4>3
    <3> QED
      BY <1>6, <3>1, <3>2, <3>3, <3>4 DEF A, B
  <2> QED
    BY <2>1, <2>2
<1> DEFINE k == d.accruedRewards
<1>8. (k + earned) * Scale = k * Scale + earned * Scale /\ k * Scale \in Nat /\ earned * Scale \in Nat
  <2> HIDE DEF earned, k
  <2> QED
    BY <1>1, <1>3, ProductNat, DistributionAssumption DEF k
<1> HIDE DEF A, B, earned
<1>9. e.accruedRewards * Scale + Total(DebtsOf(B, lent)) <= Total(DebtsOf(assets, lent))
  BY <1>2, <1>5, <1>6, <1>7, <1>8
<1>10. e.accruedRewards + Total(AccountsOf(B, lent, u)) = Total(AccountsOf(assets, lent, u))
  BY <1>1, <1>2, <1>3, <1>5, <1>6, <1>7
<1>11. \A v \in Users \ {u} : Total(AccountsOf(B, lent, v)) = Total(AccountsOf(assets, lent, v))
  BY <1>5, <1>7
<1>12. ASSUME NEW v \in Users
       PROVE  (IF v = u THEN e.accruedRewards ELSE 0) * Unit + Total(PartsOf(B, lent, v))
                <= Total(PartsOf(assets, lent, v))
  <2> DEFINE x == (IF v = u THEN k ELSE 0)
             y == (IF v = u THEN earned ELSE 0)
             z == (IF v = u THEN e.accruedRewards ELSE 0)
             K == Total(PartsOf(assets, lent, v))
             M == Total(PartsOf(A, lent, v))
             N == Total(PartsOf(B, lent, v))
  <2>1. x * Unit + M <= K /\ y * Unit + N <= M
    BY <1>5, <1>7
  <2>2. x \in Nat /\ y \in Nat /\ z = x + y
    BY <1>1, <1>2, <1>3
  <2>3. Unit \in Nat
    BY <1>1, PortionNat
  <2>4. K \in Nat /\ M \in Nat /\ N \in Nat
    <3>1. assets \in Books
      BY DEF ControllerInv
    <3> QED
      BY <1>1, <1>4, <3>1, ListedValues DEF A, B
  <2> HIDE DEF x, y, z, K, M, N
  <2>5. (x + y) * Unit = x * Unit + y * Unit
    BY <2>2, <2>3
  <2>6. x * Unit \in Nat /\ y * Unit \in Nat
    BY <2>2, <2>3, ProductNat
  <2>7. z * Unit + N <= K
    BY <2>1, <2>2, <2>4, <2>5, <2>6
  <2> QED
    BY <2>7 DEF z, K, N
<1> HIDE DEF e
<1> QED
  BY <1>2, <1>9, <1>10, <1>11, <1>12 DEF Carried, B, e

LEMMA ClaimCarried ==
    ASSUME ControllerInv, NEW u \in Users, NEW list \in AssetLists, NEW report \in StakeReport
    PROVE  Carried(ClaimedAssets(u, list, StakeOf(u, report)), u)
<1> DEFINE stakeOf == StakeOf(u, report)
           n == Len(list)
<1>1. /\ now \in Nat /\ assets \in Books /\ lent \in [ListedAssets -> [Users -> Nat]]
      /\ list \in Seq(Assets) /\ n \in Nat
  BY ControllerAssumption DEF ControllerInv, ControllerTypeOK
<1>2. /\ stakeOf \in [Assets -> Stake]
      /\ \A a \in ListedAssets : /\ stakeOf[a].stakedByUser = lent[a][u]
                                 /\ stakeOf[a].totalStaked = Total(lent[a])
  BY <1>1, StakeOfTypes
<1> HIDE DEF stakeOf
<1>3. PICK done : Claiming(done, u, list, stakeOf) /\ ClaimedAssets(u, list, stakeOf) = done[n]
  BY <1>1, <1>2, ClaimingExists
<1> DEFINE T == {i \in 0 .. n : Carried(done[i], u)}
<1>4. 0 \in T
  <2> DEFINE d == done[0]
  <2>1. d \in Round /\ d = [accruedRewards |-> 0, assets |-> assets]
    BY <1>1, <1>3 DEF Claiming
  <2>2. d.accruedRewards = 0 /\ d.assets = assets
    BY <2>1
  <2>3. /\ Total(DebtsOf(assets, lent)) \in Nat
        /\ Total(AccountsOf(assets, lent, u)) \in Nat
        /\ \A v \in Users : Total(PartsOf(assets, lent, v)) \in Nat
    BY <1>1, ListedValues
  <2>4. 0 * Scale = 0 /\ 0 * Unit = 0
    BY <1>1, DistributionAssumption, PortionNat
  <2> HIDE DEF d
  <2>5. Carried(d, u)
    BY <2>1, <2>2, <2>3, <2>4 DEF Carried
  <2> QED
    BY <1>1, <2>5 DEF d
<1>5. ASSUME NEW i \in 1 .. n, i - 1 \in T PROVE i \in T
  <2> DEFINE d == done[i - 1]
             a == list[i]
             stake == stakeOf[a]
  <2>1. Carried(d, u) /\ done[i] = ClaimedNext(d, u, a, stake)
    BY <1>3, <1>5 DEF Claiming
  <2>2. /\ a \in Assets /\ stake \in Stake
        /\ a \in ListedAssets =>
                stake.stakedByUser = lent[a][u] /\ stake.totalStaked = Total(lent[a])
    BY <1>1, <1>2
  <2> HIDE DEF d, a, stake
  <2>3. Carried(ClaimedNext(d, u, a, stake), u)
    BY <2>1, <2>2, ClaimedNextCarried
  <2> QED
    BY <1>1, <2>1, <2>3
<1> HIDE DEF T
<1>6. \A i \in 0 .. n : i \in T
  BY <1>1, <1>4, <1>5, LoopInduction
<1> QED
  BY <1>1, <1>3, <1>6 DEF T, stakeOf

ConfiguredSo(A) ==
    A \in Books /\ NoDearer(assets, A, lent)

LEMMA ConfigureCarried ==
    ASSUME ControllerInv, NEW list \in EmissionLists
    PROVE  ConfiguredSo(Configured(list))
<1> DEFINE n == Len(list)
<1>1. /\ now \in Nat /\ assets \in Books /\ lent \in [ListedAssets -> [Users -> Nat]]
      /\ list \in Seq(ListedAssets \X Nat) /\ n \in Nat
  BY ControllerAssumption DEF ControllerInv, ControllerTypeOK
<1>2. PICK done : Configuring(done, list) /\ Configured(list) = done[n]
  BY <1>1, ConfiguringExists
<1> DEFINE T == {i \in 0 .. n : ConfiguredSo(done[i])}
<1>3. 0 \in T
  <2>1. /\ done[0] = assets /\ Total(DebtsOf(assets, lent)) \in Nat
        /\ \A v \in Users : Total(PartsOf(assets, lent, v)) \in Nat
    BY <1>1, <1>2, ListedValues DEF Configuring
  <2> QED
    BY <1>1, <2>1 DEF ConfiguredSo, NoDearer
<1>4. ASSUME NEW i \in 1 .. n, i - 1 \in T PROVE i \in T
  <2> DEFINE A == done[i - 1]
             B == done[i]
             a == list[i][1]
             e == list[i][2]
  <2>1. /\ a \in ListedAssets /\ e \in Nat /\ a \in Assets /\ Exact(Total(lent[a]))
    BY <1>1, SuppliesExact DEF Assets
  <2>2. ConfiguredSo(A) /\ B \in Books
    BY <1>2, <1>4 DEF Configuring
  <2>3. B = [A EXCEPT ![a] = ConfigureAsset(@, e, Total(lent[a]), now)]
    BY <1>2 DEF Configuring
  <2> HIDE DEF A, B, a, e
  <2>4. A \in Books
    BY <2>2 DEF ConfiguredSo
  <2>5. /\ B[a] = ConfigureAsset(A[a], e, Total(lent[a]), now)
        /\ \A x \in ListedAssets \ {a} : B[x] = A[x]
    BY <2>1, <2>3, <2>4 DEF Books, Assets
  <2>6. NoDearer(A, B, lent)
    BY <1>1, <2>1, <2>2, <2>4, <2>5, ListedConfigured
  <2>7. /\ Total(DebtsOf(A, lent)) \in Nat /\ Total(DebtsOf(B, lent)) \in Nat
        /\ Total(DebtsOf(assets, lent)) \in Nat
        /\ \A v \in Users : /\ Total(PartsOf(A, lent, v)) \in Nat
                            /\ Total(PartsOf(B, lent, v)) \in Nat
                            /\ Total(PartsOf(assets, lent, v)) \in Nat
    BY <1>1, <2>2, <2>4, ListedValues
  <2>8. NoDearer(assets, B, lent)
    <3>1. ASSUME NEW v \in Users
          PROVE  /\ AccountsOf(B, lent, v) = AccountsOf(assets, lent, v)
                 /\ Total(PartsOf(B, lent, v)) <= Total(PartsOf(assets, lent, v))
      BY <2>2, <2>6, <2>7 DEF ConfiguredSo, NoDearer
    <3>2. Total(DebtsOf(B, lent)) <= Total(DebtsOf(assets, lent))
      BY <2>2, <2>6, <2>7 DEF ConfiguredSo, NoDearer
    <3> QED
      BY <3>1, <3>2 DEF NoDearer
  <2> QED
    BY <1>1, <2>2, <2>8 DEF B, ConfiguredSo
<1> HIDE DEF T
<1>5. \A i \in 0 .. n : i \in T
  BY <1>1, <1>3, <1>4, LoopInduction
<1> QED
  BY <1>1, <1>2, <1>5 DEF T

-----------------------------------------------------------------------------
(* The transactions. *)

LEMMA Handled ==
    ASSUME ControllerInv, NEW a \in Assets, NEW u \in Users, NEW b \in Nat, NEW total \in Nat,
           HandleAction(a, u, b, total),
           a \in ListedAssets => b = lent[a][u] /\ total = Total(lent[a]),
           NEW M \in [ListedAssets -> [Users -> Nat]],
           \A x \in ListedAssets \ {a} : M[x] = lent[x],
           a \in ListedAssets => \A v \in Users \ {u} : M[a][v] = lent[a][v]
    PROVE  /\ assets' \in Books
           /\ \E earned \in Nat :
                /\ usersUnclaimedRewards' = [usersUnclaimedRewards EXCEPT ![u] = @ + earned]
                /\ Paying(assets, lent, assets', M, u, earned)
<1> DEFINE earned == AccruedRewards(assets[a], u, b, total, now)
           B == [assets EXCEPT ![a] = UpdateUserAsset(@, u, total, now)]
<1>1. /\ now \in Nat /\ assets \in Books /\ lent \in [ListedAssets -> [Users -> Nat]]
      /\ assets \in [Assets -> AssetData(Users)]
  BY DEF ControllerInv, ControllerTypeOK
<1>2. /\ assets' = B
      /\ usersUnclaimedRewards' = [usersUnclaimedRewards EXCEPT ![u] = @ + earned]
  BY DEF HandleAction
<1>3. B \in Books
  BY <1>1, SettleKeepsBooks
<1>4. earned \in Nat /\ (a \in Impostors => earned = 0)
  BY <1>1, AccruedInBooks
<1>5. /\ B[a] = UpdateUserAsset(assets[a], u, total, now)
      /\ \A x \in Assets \ {a} : B[x] = assets[x]
  BY <1>1
<1>6. Paying(assets, lent, B, M, u, earned)
  <2>1. CASE a \in ListedAssets
    <3>1. /\ B[a] = UpdateUserAsset(assets[a], u, Total(lent[a]), now)
          /\ earned = AccruedRewards(assets[a], u, lent[a][u], Total(lent[a]), now)
      BY <1>5, <2>1
    <3>2. \A x \in ListedAssets \ {a} : B[x] = assets[x] /\ M[x] = lent[x]
      BY <1>5 DEF Assets
    <3>3. \A v \in Users \ {u} : M[a][v] = lent[a][v]
      BY <2>1
    <3>4. Exact(Total(lent[a]))
      BY <2>1, SuppliesExact
    <3> HIDE DEF B, earned
    <3> QED
      BY <1>1, <1>3, <2>1, <3>1, <3>2, <3>3, <3>4, ListedSettled
  <2>2. CASE a \notin ListedAssets
    <3>1. earned = 0 /\ (\A x \in ListedAssets : B[x] = assets[x]) /\ M = lent
      BY <1>1, <1>4, <1>5, <2>2 DEF Assets
    <3> HIDE DEF B, earned
    <3>2. /\ DebtsOf(B, lent) = DebtsOf(assets, lent)
          /\ \A v \in Users : /\ AccountsOf(B, lent, v) = AccountsOf(assets, lent, v)
                              /\ PartsOf(B, lent, v) = PartsOf(assets, lent, v)
      BY <3>1, ImpostorSettled
    <3>3. earned * Scale = 0 /\ 0 * Unit = 0
      BY <1>1, <3>1, DistributionAssumption, PortionNat
    <3>4. /\ Total(DebtsOf(assets, lent)) \in Nat
          /\ Total(AccountsOf(assets, lent, u)) \in Nat
          /\ \A v \in Users : Total(PartsOf(assets, lent, v)) \in Nat
      BY <1>1, ListedValues
    <3>5. ASSUME NEW v \in Users
          PROVE  (IF v = u THEN earned ELSE 0) * Unit + Total(PartsOf(B, lent, v))
                    <= Total(PartsOf(assets, lent, v))
      <4>1. (IF v = u THEN earned ELSE 0) * Unit = 0
        BY <3>1, <3>3
      <4> QED
        BY <3>2, <3>4, <4>1
    <3> QED
      BY <3>1, <3>2, <3>3, <3>4, <3>5 DEF Paying
  <2> QED
    BY <2>1, <2>2
<1> HIDE DEF B, earned
<1> QED
  BY <1>2, <1>3, <1>4, <1>6

(***************************************************************************)
(* What u has claimed and what is stored for it grow together by what the  *)
(* listed assets give, and the vault pays the claim and its bonus at the   *)
(* most.                                                                   *)
(***************************************************************************)
ClaimPaid(u, earned, given) ==
    /\ Paying(assets, lent, assets', lent, u, earned)
    /\ claimed' = [claimed EXCEPT ![u] = @ + given]
    /\ given <= usersUnclaimedRewards[u] + earned
    /\ usersUnclaimedRewards' = [usersUnclaimedRewards EXCEPT ![u] = @ + earned - given]
    /\ 100 * (psys[RewardsVault] - psys'[RewardsVault]) <= (100 + EXTRA_PSM_REWARD) * given

LEMMA ClaimMade ==
    ASSUME ControllerInv, NEW u \in Users, NEW list \in AssetLists, NEW n \in Amounts,
           NEW to \in Recipients, NEW stake \in BOOLEAN, NEW report \in StakeReport,
           ClaimRewards(u, list, n, to, stake, report),
           claimed' = [claimed EXCEPT ![u] = @ +
                AmountToClaim(n, usersUnclaimedRewards[u] +
                    ClaimedAssets(u, list, StakeOf(u, report)).accruedRewards)]
    PROVE  /\ assets' \in Books
           /\ psys' \in Purse
           /\ staked' \in [Recipients -> Nat]
           /\ \E earned \in Nat, given \in Nat : ClaimPaid(u, earned, given)
<1> DEFINE d == ClaimedAssets(u, list, StakeOf(u, report))
           earned == d.accruedRewards
           all == usersUnclaimedRewards[u] + earned
           given == AmountToClaim(n, all)
           D == {Controller, PSM, RewardsVault} \cup Recipients
           rate == 100 + EXTRA_PSM_REWARD
<1>1. Carried(d, u)
  BY ClaimCarried
<1>2. /\ earned \in Nat /\ d.assets \in Books
      /\ usersUnclaimedRewards \in [Users -> Nat] /\ usersUnclaimedRewards[u] \in Nat
      /\ psys \in [D -> Nat] /\ staked \in [Recipients -> Nat] /\ n \in Nat
      /\ rate \in Nat
  BY <1>1, ControllerAssumption DEF Carried, Round, ControllerInv, ControllerTypeOK
<1>3. /\ assets' = d.assets
      /\ usersUnclaimedRewards' = [usersUnclaimedRewards EXCEPT ![u] = all - given]
      /\ IF all = 0 THEN UNCHANGED <<psys, staked>>
                    ELSE PayRewards(to, Payout(given, stake), stake)
      /\ claimed' = [claimed EXCEPT ![u] = @ + given]
  BY DEF ClaimRewards
<1>4. Paying(assets, lent, d.assets, lent, u, earned)
  BY <1>1, <1>2 DEF Carried, Paying
<1> HIDE DEF d, earned
<1>5. given \in Nat /\ given <= all /\ all \in Nat
  <2>1. all \in Nat /\ n \in Nat
    BY <1>2
  <2> HIDE DEF all
  <2> QED
    BY <2>1 DEF AmountToClaim
<1> HIDE DEF given
<1>6. usersUnclaimedRewards' = [usersUnclaimedRewards EXCEPT ![u] = @ + earned - given]
  <2>1. usersUnclaimedRewards' = [usersUnclaimedRewards EXCEPT ![u] = all - given]
    BY <1>3
  <2>2. usersUnclaimedRewards[u] + earned - given = all - given
    <3> DEFINE x == usersUnclaimedRewards[u]
    <3>1. x \in Nat /\ earned \in Nat /\ given \in Nat
      BY <1>2, <1>5
    <3> HIDE DEF x
    <3>2. x + earned - given = (x + earned) - given
      BY <3>1
    <3> QED
      BY <3>2 DEF x
  <2> QED
    BY <2>1, <2>2
<1> HIDE DEF all
<1>7. /\ psys' \in [D -> Nat] /\ staked' \in [Recipients -> Nat]
      /\ 100 * (psys[RewardsVault] - psys'[RewardsVault]) <= rate * given
  <2>1. psys[RewardsVault] \in Nat /\ rate * given \in Nat
    BY <1>2, <1>5, ProductNat
  <2>2. CASE all = 0
    <3>1. psys' = psys /\ staked' = staked
      BY <1>3, <2>2
    <3> HIDE DEF rate
    <3> QED
      BY <1>2, <2>1, <3>1
  <2>3. CASE all # 0
    <3> DEFINE m == Payout(given, stake)
    <3>1. PayRewards(to, m, stake)
      BY <1>3, <2>3
    <3>2. m \in Nat /\ 100 * m <= rate * given
      BY <1>5, PayoutWithinBonus
    <3> HIDE DEF m
    <3>3. Controller \in D /\ PSM \in D /\ RewardsVault \in D /\ Recipients \subseteq D
      OBVIOUS
    <3> HIDE DEF D, rate
    <3>4. /\ psys' \in [D -> Nat] /\ staked' \in [Recipients -> Nat]
          /\ psys'[RewardsVault] >= psys[RewardsVault] - m
      BY <1>2, <3>1, <3>2, <3>3, PaymentTypes
    <3>5. psys'[RewardsVault] \in Nat
      BY <3>3, <3>4
    <3> QED
      BY <2>1, <3>2, <3>4, <3>5
  <2> QED
    BY <2>2, <2>3
<1> HIDE DEF D
<1> QED
  <2>1. ClaimPaid(u, earned, given)
    BY <1>3, <1>4, <1>5, <1>6, <1>7 DEF ClaimPaid, all
  <2> QED
    BY <1>2, <1>3, <1>5, <1>7, <2>1 DEF D, Purse
-----------------------------------------------------------------------------
(* The inductive invariant. *)

Given == [u \in Users |-> claimed[u] + usersUnclaimedRewards[u]]

\* What was given to the users, and what the distributions may still cost.
EmissionInv ==
    Total(Given) * Scale + Total(DebtsOf(assets, lent)) <= emitted * Scale

\* What the vault paid.
VaultInv ==
    100 * (VaultPSYS - psys[RewardsVault]) <= (100 + EXTRA_PSM_REWARD) * Total(claimed)

\* What was given to a user, and what is left of its part.
FairInv ==
    \A u \in Users : Given[u] * Unit + Total(PartsOf(assets, lent, u))
                        <= fairShare[u] * Scale

IncentivesInv == ControllerInv /\ EmissionInv /\ FairInv /\ VaultInv

LEMMA ValuesKept ==
    ASSUME ControllerInv, now' \in Nat, now <= now',
           assets' \in Books, usersUnclaimedRewards' \in [Users -> Nat],
           lent' \in [ListedAssets -> [Users -> Nat]],
           \A a \in ListedAssets : lent'[a] \in [Users -> Balances], psys' \in Purse,
           staked' \in [Recipients -> Nat], claimed' \in [Users -> Nat], emitted' \in Nat,
           fairShare' \in [Users -> Nat]
    PROVE  ControllerInv'
<1>1. now \in Nat
  BY DEF ControllerInv, ControllerTypeOK
<1>2. assets' \in [Assets -> AssetData(Users)]
  BY DEF Books
<1>3. ASSUME NEW a \in Assets
      PROVE  /\ SettledAt(assets'[a], Users, now')
             /\ a \in Impostors => assets'[a].emissionPerSecond = 0 /\ assets'[a].index = 0
             /\ \A u \in Users : assets'[a].users[u] <= assets'[a].index
  <2> DEFINE r == assets'[a]
  <2>1. /\ SettledAt(r, Users, now)
        /\ a \in Impostors => r.emissionPerSecond = 0 /\ r.index = 0
    BY DEF Books
  <2> HIDE DEF r
  <2>2. r.lastUpdateTimestamp \in Nat /\ r.lastUpdateTimestamp <= now
    BY <2>1 DEF SettledAt, AssetData
  <2>3. SettledAt(r, Users, now')
    BY <1>1, <2>1, <2>2 DEF SettledAt
  <2> QED
    BY <2>1, <2>3 DEF r, SettledAt
<1>4. assets' \in Books'
  BY <1>2, <1>3 DEF Books
<1>5. ControllerTypeOK'
  BY <1>2, <1>3 DEF ControllerTypeOK, Purse
<1> QED
  BY <1>4, <1>5 DEF ControllerInv

LEMMA NothingEmitted ==
    ASSUME NEW r, r = EmptyAsset(Users), NEW b, b = [u \in Users |-> 0], NEW t \in Nat
    PROVE  /\ SettledAt(r, Users, t) /\ Debt(r, b, t) = 0
           /\ \A u \in Users : Part(r, u, b[u], Total(b), t) = 0
<1>1. /\ r \in AssetData(Users) /\ r.index = 0 /\ r.lastUpdateTimestamp = 0
      /\ \A u \in Users : r.users[u] = 0
  BY DEF EmptyAsset, AssetData
<1>2. SettledAt(r, Users, t)
  BY <1>1 DEF SettledAt
<1>3. Total(b) = 0
  BY TotalZero
<1>4. Earned(r, b, r.index) = [u \in Users |-> 0]
  BY <1>1 DEF Earned
<1>5. PendingOf(r, Total(b), t) = 0
  BY <1>3 DEF PendingOf
<1>6. Total(Earned(r, b, r.index)) = 0
  BY <1>4, TotalZero
<1>7. ASSUME NEW u \in Users PROVE Part(r, u, b[u], Total(b), t) = 0
  <2> DEFINE p == PendingOf(r, 0, t)
             q == Portion(0)
  <2>1. Part(r, u, b[u], Total(b), t) = (0 * (0 - 0)) * FairScale + (0 * p * q) * Scale
    BY <1>1, <1>3 DEF Part
  <2>2. p = 0 /\ q = 0 /\ FairScale \in Nat /\ Scale \in Nat
    BY PortionNat DEF PendingOf, Portion
  <2> HIDE DEF p, q
  <2>3. (0 * (0 - 0)) * FairScale + (0 * p * q) * Scale = 0
    BY <2>2
  <2> QED
    BY <2>1, <2>3
<1> QED
  BY <1>2, <1>5, <1>6, <1>7, DistributionAssumption DEF Debt

LEMMA UsersChange ==
    ASSUME NEW f \in [Users -> Nat], NEW g \in [Users -> Nat], NEW u \in Users, NEW n \in Nat,
           g[u] = f[u] + n, \A v \in Users \ {u} : g[v] = f[v]
    PROVE  Total(f) \in Nat /\ Total(g) = Total(f) + n
<1>1. Total(g) = Total(f) - f[u] + g[u]
  BY UsersFinite, TotalChange
<1>2. Total(f) \in Nat /\ f[u] \in Nat
  BY UsersFinite, TotalBounds
<1> QED
  BY <1>1, <1>2

LEMMA OneUserMore ==
    ASSUME NEW f \in [Users -> Nat], NEW u \in Users, NEW n \in Nat
    PROVE  /\ [f EXCEPT ![u] = @ + n] \in [Users -> Nat]
           /\ Total([f EXCEPT ![u] = @ + n]) = Total(f) + n
<1> DEFINE g == [f EXCEPT ![u] = @ + n]
<1>1. g \in [Users -> Nat] /\ g[u] = f[u] + n /\ \A v \in Users \ {u} : g[v] = f[v]
  OBVIOUS
<1> HIDE DEF g
<1>2. Total(g) = Total(f) + n
  BY <1>1, UsersChange
<1> QED
  BY <1>1, <1>2 DEF g

LEMMA InitIncentivesInv == IncentivesInit => IncentivesInv
<1> SUFFICES ASSUME IncentivesInit PROVE IncentivesInv
  OBVIOUS
<1> DEFINE zeros == [u \in Users |-> 0]
<1>1. /\ now = StartTime /\ now \in Nat
      /\ assets = [a \in Assets |-> EmptyAsset(Users)]
      /\ usersUnclaimedRewards = zeros /\ claimed = zeros /\ emitted = 0
      /\ fairShare = zeros
      /\ lent = [a \in ListedAssets |-> zeros]
      /\ psys = [h \in {Controller, PSM, RewardsVault} \cup Recipients |->
                    IF h = RewardsVault THEN VaultPSYS ELSE 0]
      /\ staked = [r \in Recipients |-> 0] /\ VaultPSYS \in Nat
  BY ControllerAssumption DEF IncentivesInit, ControllerInit
<1>2. /\ zeros \in [Users -> Nat] /\ lent \in [ListedAssets -> [Users -> Nat]]
      /\ \A a \in ListedAssets : lent[a] \in [Users -> Balances]
  BY <1>1 DEF Balances
<1>3. \A a \in Assets : SettledAt(assets[a], Users, now)
  BY <1>1, NothingEmitted
<1>4. \A a \in Assets : assets[a].emissionPerSecond = 0 /\ assets[a].index = 0
  BY <1>1 DEF EmptyAsset
<1>5. assets \in [Assets -> AssetData(Users)]
  BY <1>1, <1>3 DEF SettledAt
<1>6. assets \in Books
  BY <1>3, <1>4, <1>5 DEF Books
<1>7. psys \in Purse /\ psys[RewardsVault] = VaultPSYS
  BY <1>1 DEF Purse
<1>8. ControllerTypeOK
  BY <1>1, <1>2, <1>3, <1>5, <1>7 DEF ControllerTypeOK, Purse, SettledAt
<1>9. ControllerInv
  BY <1>1, <1>2, <1>6, <1>8 DEF ControllerInv
<1>10. EmissionInv
  <2>1. Total(Given) = 0
    <3>1. Given = [u \in Users |-> 0]
      BY <1>1 DEF Given
    <3> QED
      BY <3>1, TotalZero
  <2>2. \A a \in ListedAssets : Debt(assets[a], lent[a], now) = 0
    BY <1>1, NothingEmitted DEF Assets
  <2>3. Total(DebtsOf(assets, lent)) = 0
    <3>1. DebtsOf(assets, lent) = [a \in ListedAssets |-> 0]
      BY <2>2 DEF DebtsOf
    <3> QED
      BY <3>1, TotalZero
  <2>4. 0 * Scale = 0
    BY DistributionAssumption
  <2> QED
    BY <1>1, <2>1, <2>3, <2>4 DEF EmissionInv
<1>11. VaultInv
  <2>1. Total(claimed) = 0
    BY <1>1, TotalZero
  <2>2. EXTRA_PSM_REWARD \in Nat
    BY ControllerAssumption
  <2> QED
    BY <1>1, <1>7, <2>1, <2>2 DEF VaultInv
<1>12. FairInv
  <2> SUFFICES ASSUME NEW u \in Users
               PROVE  Given[u] * Unit + Total(PartsOf(assets, lent, u)) <= fairShare[u] * Scale
    BY DEF FairInv
  <2>1. Given[u] = 0 /\ fairShare[u] = 0
    BY <1>1 DEF Given
  <2>2. \A a \in ListedAssets : Part(assets[a], u, lent[a][u], Total(lent[a]), now) = 0
    BY <1>1, NothingEmitted DEF Assets
  <2>3. Total(PartsOf(assets, lent, u)) = 0
    <3>1. PartsOf(assets, lent, u) = [a \in ListedAssets |-> 0]
      BY <2>2 DEF PartsOf
    <3> QED
      BY <3>1, TotalZero
  <2>4. 0 * Scale = 0 /\ 0 * Unit = 0
    BY PortionNat
  <2> QED
    BY <2>1, <2>3, <2>4
<1> QED
  BY <1>9, <1>10, <1>11, <1>12 DEF IncentivesInv

(***************************************************************************)
(* Whatever is given to a user by a settlement comes off the debt.         *)
(***************************************************************************)
LEMMA EmissionKept ==
    ASSUME IncentivesInv, ControllerInv', now' = now, emitted' = emitted,
           NEW u \in Users, NEW earned \in Nat,
           Paying(assets, lent, assets', lent', u, earned),
           Given' = [Given EXCEPT ![u] = @ + earned]
    PROVE  EmissionInv'
<1> DEFINE D == Total(DebtsOf(assets, lent))
           E == Total(DebtsOf(assets', lent'))
           G == Total(Given)
<1>1. /\ now \in Nat /\ assets \in Books /\ lent \in [ListedAssets -> [Users -> Nat]]
      /\ claimed \in [Users -> Nat] /\ usersUnclaimedRewards \in [Users -> Nat]
      /\ emitted \in Nat
  BY DEF IncentivesInv, ControllerInv, ControllerTypeOK
<1>2. assets' \in Books /\ lent' \in [ListedAssets -> [Users -> Nat]]
  BY DEF ControllerInv, Books
<1>3. D \in Nat /\ E \in Nat /\ DebtsOf(assets, lent)' = DebtsOf(assets', lent')
  BY <1>1, <1>2, ListedValues DEF DebtsOf
<1>4. Given \in [Users -> Nat] /\ G \in Nat
  <2>1. Given \in [Users -> Nat]
    BY <1>1 DEF Given
  <2> QED
    BY <2>1, UsersFinite, TotalBounds
<1>5. Total(Given') = G + earned
  <2> DEFINE g == Given
             h == Given'
  <2>1. g \in [Users -> Nat] /\ h = [g EXCEPT ![u] = @ + earned]
    BY <1>4
  <2> HIDE DEF g
  <2>2. Total([g EXCEPT ![u] = @ + earned]) = Total(g) + earned
    BY <2>1, OneUserMore
  <2> QED
    BY <2>1, <2>2 DEF g
<1>6. earned * Scale + E <= D
  BY DEF Paying
<1>7. G * Scale + D <= emitted * Scale
  BY DEF IncentivesInv, EmissionInv
<1> HIDE DEF D, E, G
<1>8. (G + earned) * Scale = G * Scale + earned * Scale
  BY <1>4, DistributionAssumption
<1>9. /\ G * Scale \in Nat /\ earned * Scale \in Nat /\ emitted * Scale \in Nat
  BY <1>1, <1>4, ProductNat, DistributionAssumption
<1>10. (G + earned) * Scale + E <= emitted * Scale
  BY <1>3, <1>6, <1>7, <1>8, <1>9
<1>11. Total(Given)' = G + earned /\ Total(DebtsOf(assets, lent))' = E
  BY <1>3, <1>5 DEF E
<1> QED
  BY <1>10, <1>11 DEF EmissionInv

\* And off the user's own part.
LEMMA FairKept ==
    ASSUME IncentivesInv, ControllerInv', now' = now, fairShare' = fairShare,
           NEW u \in Users, NEW earned \in Nat,
           Paying(assets, lent, assets', lent', u, earned),
           Given' = [Given EXCEPT ![u] = @ + earned]
    PROVE  FairInv'
<1> SUFFICES ASSUME NEW v \in Users
             PROVE  Given'[v] * Unit + Total(PartsOf(assets, lent, v)')
                        <= fairShare'[v] * Scale
  BY DEF FairInv
<1> DEFINE D == Total(PartsOf(assets, lent, v))
           E == Total(PartsOf(assets', lent', v))
           g == Given[v]
           n == IF v = u THEN earned ELSE 0
           F == fairShare[v] * Scale
<1>1. /\ now \in Nat /\ assets \in Books /\ lent \in [ListedAssets -> [Users -> Nat]]
      /\ Given \in [Users -> Nat] /\ fairShare \in [Users -> Nat]
  BY DEF IncentivesInv, ControllerInv, ControllerTypeOK, Given
<1>2. assets' \in Books /\ lent' \in [ListedAssets -> [Users -> Nat]]
  BY DEF ControllerInv, Books
<1>3. D \in Nat /\ E \in Nat /\ PartsOf(assets, lent, v)' = PartsOf(assets', lent', v)
  BY <1>1, <1>2, ListedValues DEF PartsOf
<1>4. g \in Nat /\ n \in Nat /\ Given'[v] = g + n /\ fairShare'[v] = fairShare[v]
  BY <1>1
<1>5. n * Unit + E <= D
  BY DEF Paying
<1>6. g * Unit + D <= F
  BY DEF IncentivesInv, FairInv
<1>7. Unit \in Nat /\ F \in Nat
  BY <1>1, PortionNat, ProductNat
<1> HIDE DEF D, E, g, n, F
<1>8. (g + n) * Unit = g * Unit + n * Unit
  BY <1>4, <1>7
<1>9. g * Unit \in Nat /\ n * Unit \in Nat
  BY <1>4, <1>7, ProductNat
<1>10. (g + n) * Unit + E <= F
  BY <1>3, <1>5, <1>6, <1>7, <1>8, <1>9
<1> QED
  BY <1>3, <1>4, <1>10 DEF E, F

\* A transaction in which the user u is given "earned".
GivenTo(u, earned) ==
    /\ ControllerInv' /\ now' = now /\ emitted' = emitted /\ fairShare' = fairShare
    /\ Paying(assets, lent, assets', lent', u, earned)
    /\ Given' = [Given EXCEPT ![u] = @ + earned]

LEMMA HandlingOutcome ==
    ASSUME ControllerInv, NEW a \in Assets, NEW u \in Users, NEW b \in Nat, NEW total \in Nat,
           HandleAction(a, u, b, total),
           a \in ListedAssets => b = lent[a][u] /\ total = Total(lent[a]),
           lent' \in [ListedAssets -> [Users -> Nat]],
           \A x \in ListedAssets : lent'[x] \in [Users -> Balances],
           \A x \in ListedAssets \ {a} : lent'[x] = lent[x],
           a \in ListedAssets => \A v \in Users \ {u} : lent'[a][v] = lent[a][v],
           UNCHANGED <<now, psys, staked, emitted, fairShare, claimed>>
    PROVE  \E earned \in Nat : GivenTo(u, earned)
<1> DEFINE M == lent'
           f == usersUnclaimedRewards
<1>1. /\ now \in Nat /\ psys \in Purse /\ staked \in [Recipients -> Nat]
      /\ claimed \in [Users -> Nat] /\ emitted \in Nat /\ f \in [Users -> Nat]
      /\ fairShare \in [Users -> Nat]
  BY DEF ControllerInv, ControllerTypeOK, Purse
<1>2. /\ M \in [ListedAssets -> [Users -> Nat]]
      /\ \A x \in ListedAssets \ {a} : M[x] = lent[x]
      /\ a \in ListedAssets => \A v \in Users \ {u} : M[a][v] = lent[a][v]
  OBVIOUS
<1> HIDE DEF M
<1>3. /\ assets' \in Books
      /\ \E earned \in Nat :
            /\ usersUnclaimedRewards' = [usersUnclaimedRewards EXCEPT ![u] = @ + earned]
            /\ Paying(assets, lent, assets', M, u, earned)
  BY <1>2, Handled
<1>4. PICK earned \in Nat :
            /\ f' = [f EXCEPT ![u] = @ + earned]
            /\ Paying(assets, lent, assets', M, u, earned)
  BY <1>3
<1>5. f' \in [Users -> Nat]
  BY <1>1, <1>4
<1>6. ControllerInv'
  <2>1. now' \in Nat /\ now <= now' /\ psys' \in Purse /\ staked' \in [Recipients -> Nat]
        /\ claimed' \in [Users -> Nat] /\ emitted' \in Nat /\ fairShare' \in [Users -> Nat]
    BY <1>1
  <2> QED
    BY <1>3, <1>5, <2>1, ValuesKept
<1>7. Given' = [Given EXCEPT ![u] = @ + earned]
  <2> DEFINE c == claimed
  <2>1. c' = c /\ c \in [Users -> Nat]
    BY <1>1
  <2>2. \A v \in Users : f'[v] = IF v = u THEN f[v] + earned ELSE f[v]
    BY <1>1, <1>4
  <2>3. ASSUME NEW v \in Users
        PROVE  c'[v] + f'[v] = IF v = u THEN (c[v] + f[v]) + earned ELSE c[v] + f[v]
    <3>1. c[v] \in Nat /\ f[v] \in Nat
      BY <1>1, <2>1
    <3>2. c'[v] = c[v]
      BY <2>1
    <3> QED
      BY <2>2, <3>1, <3>2
  <2> QED
    BY <2>3 DEF Given
<1> QED
  BY <1>4, <1>6, <1>7 DEF GivenTo, M

LEMMA LendingOutcome ==
    ASSUME ControllerInv, LendingStep, UNCHANGED <<emitted, fairShare, claimed>>
    PROVE  \E u \in Users, earned \in Nat : GivenTo(u, earned) /\ psys' = psys /\ claimed' = claimed
<1>1. PICK move \in Moves : LendingAction(move[1], move[2], move[3])
  BY DEF LendingStep
<1> DEFINE a == move[1]
           u == move[2]
           n == move[3]
<1>2. /\ a \in ListedAssets /\ a \in Assets /\ u \in Users /\ n \in Nat
      /\ n \in Balances
  BY ControllerAssumption DEF Assets, Balances
<1> HIDE DEF a, u, n
<1>3. /\ HandleAction(a, u, lent[a][u], Total(lent[a]))
      /\ lent' = [lent EXCEPT ![a][u] = n]
      /\ UNCHANGED <<now, psys, staked>>
  BY <1>1 DEF LendingAction, a, u, n
<1>4. lent \in [ListedAssets -> [Users -> Nat]]
  BY DEF ControllerInv
<1>5. lent[a] \in [Users -> Nat] /\ lent[a][u] \in Nat /\ Total(lent[a]) \in Nat
  BY <1>2, <1>4, UsersFinite, TotalBounds
<1>6. /\ lent' \in [ListedAssets -> [Users -> Nat]]
      /\ \A x \in ListedAssets \ {a} : lent'[x] = lent[x]
      /\ \A v \in Users \ {u} : lent'[a][v] = lent[a][v]
      /\ \A x \in ListedAssets : lent'[x] \in [Users -> Balances]
  <2>1. \A x \in ListedAssets : lent[x] \in [Users -> Balances]
    BY DEF ControllerInv
  <2>2. lent'[a] = [lent[a] EXCEPT ![u] = n]
    BY <1>2, <1>3, <1>4
  <2>3. \A x \in ListedAssets \ {a} : lent'[x] = lent[x]
    BY <1>3, <1>4
  <2>4. lent'[a] \in [Users -> Balances] /\ lent'[a] \in [Users -> Nat]
    BY <1>2, <1>4, <2>1, <2>2
  <2>5. \A v \in Users \ {u} : lent'[a][v] = lent[a][v]
    BY <1>2, <1>5, <2>2
  <2>6. lent' \in [ListedAssets -> [Users -> Nat]]
    BY <1>2, <1>3, <1>4
  <2> QED
    BY <2>1, <2>3, <2>4, <2>5, <2>6
<1> DEFINE b == lent[a][u]
           total == Total(lent[a])
<1>7. /\ b \in Nat /\ total \in Nat /\ HandleAction(a, u, b, total)
      /\ a \in ListedAssets => b = lent[a][u] /\ total = Total(lent[a])
  BY <1>3, <1>5
<1> HIDE DEF b, total
<1>8. \E earned \in Nat : GivenTo(u, earned)
  BY <1>2, <1>3, <1>6, <1>7, HandlingOutcome
<1> QED
  BY <1>2, <1>3, <1>8

LEMMA ImpostorOutcome ==
    ASSUME ControllerInv, ImpostorStep, UNCHANGED <<emitted, fairShare, claimed>>
    PROVE  \E u \in Users, earned \in Nat : GivenTo(u, earned) /\ psys' = psys /\ claimed' = claimed
<1>1. PICK a \in Impostors, u \in Users, b \in Reports, s \in Reports :
            ImpostorAction(a, u, b, s)
  BY DEF ImpostorStep
<1>2. a \in Assets /\ a \notin ListedAssets /\ b \in Nat /\ s \in Nat
  BY ControllerAssumption DEF Assets
<1>3. HandleAction(a, u, b, s) /\ UNCHANGED <<now, lent, psys, staked>>
  BY <1>1 DEF ImpostorAction
<1>4. /\ lent' \in [ListedAssets -> [Users -> Nat]]
      /\ \A x \in ListedAssets \ {a} : lent'[x] = lent[x]
      /\ \A x \in ListedAssets : lent'[x] \in [Users -> Balances]
  BY <1>3 DEF ControllerInv
<1>5. \E earned \in Nat : GivenTo(u, earned)
  BY <1>2, <1>3, <1>4, HandlingOutcome
<1> QED
  BY <1>3, <1>5

LEMMA ClaimOutcome ==
    ASSUME ControllerInv, VaultInv, RewardsPaid
    PROVE  VaultInv' /\ \E u \in Users, earned \in Nat : GivenTo(u, earned)
<1>1. PICK u \in Users, list \in AssetLists, n \in Amounts, to \in Recipients,
           stake \in BOOLEAN, report \in StakeReport :
            /\ ClaimRewards(u, list, n, to, stake, report)
            /\ claimed' = [claimed EXCEPT ![u] = @ +
                    AmountToClaim(n, usersUnclaimedRewards[u] +
                        ClaimedAssets(u, list, StakeOf(u, report)).accruedRewards)]
  BY DEF RewardsPaid
<1>2. now' = now /\ lent' = lent /\ emitted' = emitted /\ fairShare' = fairShare
  BY <1>1 DEF ClaimRewards, RewardsPaid
<1>3. /\ assets' \in Books
      /\ psys' \in Purse
      /\ staked' \in [Recipients -> Nat]
      /\ \E earned \in Nat, given \in Nat : ClaimPaid(u, earned, given)
  BY <1>1, ClaimMade
<1>4. PICK earned \in Nat, given \in Nat :
        /\ Paying(assets, lent, assets', lent, u, earned)
        /\ claimed' = [claimed EXCEPT ![u] = @ + given]
        /\ given <= usersUnclaimedRewards[u] + earned
        /\ usersUnclaimedRewards' = [usersUnclaimedRewards EXCEPT ![u] = @ + earned - given]
        /\ 100 * (psys[RewardsVault] - psys'[RewardsVault]) <= (100 + EXTRA_PSM_REWARD) * given
  BY <1>3 DEF ClaimPaid
<1> DEFINE c == claimed
           f == usersUnclaimedRewards
<1>5. /\ now \in Nat /\ lent \in [ListedAssets -> [Users -> Nat]] /\ emitted \in Nat
      /\ c \in [Users -> Nat] /\ f \in [Users -> Nat] /\ psys \in Purse
  BY DEF ControllerInv, ControllerTypeOK, Purse
<1>6. f[u] \in Nat /\ f[u] + earned - given \in Nat
  BY <1>4, <1>5
<1>7. c' \in [Users -> Nat] /\ \A v \in Users : c'[v] = IF v = u THEN c[v] + given ELSE c[v]
  BY <1>4, <1>5
<1>8. /\ f' \in [Users -> Nat]
      /\ \A v \in Users : f'[v] = IF v = u THEN f[v] + earned - given ELSE f[v]
  BY <1>4, <1>5, <1>6
<1>9. ControllerInv'
  <2>1. /\ now' \in Nat /\ now <= now' /\ lent' \in [ListedAssets -> [Users -> Nat]]
        /\ psys' \in Purse /\ staked' \in [Recipients -> Nat] /\ emitted' \in Nat
        /\ \A a \in ListedAssets : lent'[a] \in [Users -> Balances]
        /\ fairShare' \in [Users -> Nat]
    BY <1>2, <1>3, <1>5 DEF Purse, ControllerInv
  <2> QED
    BY <1>3, <1>7, <1>8, <2>1, ValuesKept
<1>10. Given' = [Given EXCEPT ![u] = @ + earned]
  <2>1. ASSUME NEW v \in Users
        PROVE  c'[v] + f'[v] = IF v = u THEN (c[v] + f[v]) + earned ELSE c[v] + f[v]
    <3>1. c[v] \in Nat /\ f[v] \in Nat
      BY <1>5
    <3> QED
      BY <1>7, <1>8, <3>1
  <2> QED
    BY <2>1 DEF Given
<1>11. GivenTo(u, earned)
  BY <1>2, <1>4, <1>9, <1>10 DEF GivenTo
<1>12. VaultInv'
  <2> DEFINE rate == 100 + EXTRA_PSM_REWARD
             x == psys[RewardsVault]
             y == psys'[RewardsVault]
             n0 == Total(claimed)
  <2>1. Total(claimed') = n0 + given /\ n0 \in Nat
    <3>1. c' = [c EXCEPT ![u] = @ + given]
      BY <1>4
    <3> HIDE DEF c
    <3>2. Total([c EXCEPT ![u] = @ + given]) = Total(c) + given
      BY <1>5, OneUserMore
    <3>3. Total(c) \in Nat
      BY <1>5, UsersFinite, TotalBounds
    <3> QED
      BY <3>1, <3>2, <3>3 DEF c
  <2>2. x \in Nat /\ y \in Nat /\ rate \in Nat /\ VaultPSYS \in Nat
    <3>1. x \in Nat /\ y \in Nat
      BY <1>3, <1>5 DEF Purse
    <3>2. EXTRA_PSM_REWARD \in Nat /\ VaultPSYS \in Nat
      BY ControllerAssumption
    <3> QED
      BY <3>1, <3>2
  <2>3. 100 * (VaultPSYS - x) <= rate * n0 /\ 100 * (x - y) <= rate * given
    BY <1>4 DEF VaultInv
  <2> HIDE DEF rate, x, y, n0
  <2>4. rate * (n0 + given) = rate * n0 + rate * given
    BY <2>1, <2>2
  <2>5. rate * n0 \in Nat /\ rate * given \in Nat
    BY <2>1, <2>2, ProductNat
  <2>6. 100 * (VaultPSYS - y) <= rate * (n0 + given)
    BY <2>2, <2>3, <2>4, <2>5
  <2> QED
    BY <2>1, <2>6 DEF VaultInv, rate, y
<1> QED
  BY <1>11, <1>12
LEMMA ConfigureOutcome ==
    ASSUME ControllerInv, ConfigureStep, UNCHANGED <<emitted, fairShare, claimed>>
    PROVE  /\ ControllerInv' /\ NoDearer(assets, assets', lent)
           /\ UNCHANGED <<now, usersUnclaimedRewards, lent, psys, emitted, fairShare, claimed>>
<1>1. PICK list \in EmissionLists : ConfigureAssets(list)
  BY DEF ConfigureStep
<1>2. /\ assets' = Configured(list)
      /\ UNCHANGED <<now, usersUnclaimedRewards, lent, psys, staked>>
  BY <1>1 DEF ConfigureAssets
<1>3. assets' \in Books /\ NoDearer(assets, assets', lent)
  BY <1>2, ConfigureCarried DEF ConfiguredSo
<1>4. /\ now' \in Nat /\ now <= now' /\ psys' \in Purse /\ staked' \in [Recipients -> Nat]
      /\ claimed' \in [Users -> Nat] /\ emitted' \in Nat
      /\ usersUnclaimedRewards' \in [Users -> Nat]
      /\ lent' \in [ListedAssets -> [Users -> Nat]] /\ fairShare' \in [Users -> Nat]
      /\ \A a \in ListedAssets : lent'[a] \in [Users -> Balances]
  BY <1>2 DEF ControllerInv, ControllerTypeOK, Purse
<1>5. ControllerInv'
  BY <1>3, <1>4, ValuesKept
<1> QED
  BY <1>2, <1>3, <1>5

\* What the listed assets emit in this second.
LEMMA EmittedNat ==
    ASSUME ControllerInv
    PROVE  /\ EmittedNow \in Nat
           /\ [a \in ListedAssets |-> Emission(a)] \in [ListedAssets -> Nat]
<1> DEFINE e == [a \in ListedAssets |-> Emission(a)]
<1>1. ASSUME NEW a \in ListedAssets PROVE assets[a].emissionPerSecond \in Nat
  BY DEF ControllerInv, Books, Assets, AssetData
<1>2. e \in [ListedAssets -> Nat]
  BY <1>1 DEF Emission
<1> HIDE DEF e
<1>3. Total(e) \in Nat
  BY <1>2, UsersFinite, TotalBounds
<1> QED
  BY <1>2, <1>3 DEF EmittedNow, e

\* And a user's part in it.
LEMMA FairShareNat ==
    ASSUME ControllerInv, NEW u \in Users
    PROVE  /\ FairShareNow(u) \in Nat
           /\ [a \in ListedAssets |-> lent[a][u] * Emission(a) * Portion(Total(lent[a]))]
                \in [ListedAssets -> Nat]
<1> DEFINE f == [a \in ListedAssets |-> lent[a][u] * Emission(a) * Portion(Total(lent[a]))]
<1>1. ASSUME NEW a \in ListedAssets
      PROVE  lent[a][u] * Emission(a) * Portion(Total(lent[a])) \in Nat
  <2> DEFINE n == lent[a][u]
             e == Emission(a)
             total == Total(lent[a])
             q == Portion(total)
  <2>1. n \in Nat /\ total \in Nat
    BY UsersFinite, TotalBounds DEF ControllerInv
  <2>2. e \in Nat
    <3> DEFINE g == [x \in ListedAssets |-> Emission(x)]
    <3>1. g \in [ListedAssets -> Nat] /\ g[a] = e
      BY EmittedNat
    <3> HIDE DEF g
    <3> QED
      BY <3>1
  <2> HIDE DEF n, e, total
  <2>3. q \in Nat
    BY <2>1, PortionNat
  <2> HIDE DEF q
  <2>4. n * e * q \in Nat
    BY <2>1, <2>2, <2>3, ProductNat
  <2> QED
    BY <2>4 DEF n, e, total, q
<1>2. f \in [ListedAssets -> Nat]
  BY <1>1
<1> HIDE DEF f
<1>3. Total(f) \in Nat
  BY <1>2, UsersFinite, TotalBounds
<1> QED
  BY <1>2, <1>3 DEF FairShareNow, f

LEMMA SecondParts ==
    ASSUME ControllerInv, SecondPasses, NEW u \in Users
    PROVE  /\ fairShare'[u] = fairShare[u] + FairShareNow(u)
           /\ Total(PartsOf(assets, lent, u))'
                = Total(PartsOf(assets, lent, u)) + FairShareNow(u) * Scale
<1> DEFINE e == [a \in ListedAssets |-> lent[a][u] * Emission(a) * Portion(Total(lent[a]))]
           es == [a \in ListedAssets |-> e[a] * Scale]
           d == PartsOf(assets, lent, u)
           A == assets
           L == lent
<1>1. /\ now \in Nat /\ A \in Books /\ L \in [ListedAssets -> [Users -> Nat]]
  BY DEF ControllerInv, ControllerTypeOK
<1>2. /\ now' = now + 1 /\ assets' = assets /\ lent' = lent
      /\ fairShare'[u] = fairShare[u] + FairShareNow(u)
  BY DEF SecondPasses, NextBlock
<1>3. e \in [ListedAssets -> Nat] /\ Total(e) = FairShareNow(u)
  BY FairShareNat DEF FairShareNow
<1>4. d \in [ListedAssets -> Nat]
  BY <1>1, ListedValues
<1>5. d' = [a \in ListedAssets |-> d[a] + es[a]]
  <2>1. ASSUME NEW a \in ListedAssets
        PROVE  Part(A[a], u, L[a][u], Total(L[a]), now + 1)
                 = Part(A[a], u, L[a][u], Total(L[a]), now) + e[a] * Scale
    <3> DEFINE r == A[a]
               n == L[a][u]
               total == Total(L[a])
               x == Emission(a)
    <3>1. SettledAt(r, Users, now) /\ n \in Nat /\ total \in Nat
      BY <1>1, UsersFinite, TotalBounds DEF Books, Assets
    <3>2. /\ e[a] = n * x * Portion(total)
          /\ x = IF now < DISTRIBUTION_END /\ total # 0 THEN r.emissionPerSecond ELSE 0
      BY DEF Emission
    <3> HIDE DEF r, n, total, x, e
    <3>3. Part(r, u, n, total, now + 1)
            = Part(r, u, n, total, now) + (n * x * Portion(total)) * Scale
      BY <1>1, <3>1, <3>2, PartNextSecond
    <3> QED
      BY <3>2, <3>3 DEF r, n, total
  <2>2. d' = [a \in ListedAssets |-> Part(A[a], u, L[a][u], Total(L[a]), now + 1)]
    BY <1>2 DEF PartsOf
  <2> HIDE DEF e
  <2> QED
    BY <2>1, <2>2 DEF PartsOf
<1> HIDE DEF e, d
<1>6. Scale \in Nat /\ IsFiniteSet(ListedAssets)
  BY DistributionAssumption, UsersFinite
<1>7. es \in [ListedAssets -> Nat] /\ Total(es) = Total(e) * Scale
  BY <1>3, <1>6, TotalTimes, ProductNat
<1> HIDE DEF es
<1>8. Total([a \in ListedAssets |-> d[a] + es[a]]) = Total(d) + Total(es)
  BY <1>4, <1>6, <1>7, TotalSum
<1>9. Total(d') = Total(d) + FairShareNow(u) * Scale
  BY <1>3, <1>5, <1>7, <1>8
<1> QED
  BY <1>2, <1>9 DEF d

LEMMA SecondOutcome ==
    ASSUME ControllerInv, SecondPasses
    PROVE  /\ ControllerInv' /\ emitted' = emitted + EmittedNow
           /\ UNCHANGED <<assets, usersUnclaimedRewards, lent, psys, claimed>>
           /\ Total(DebtsOf(assets, lent))'
                = Total(DebtsOf(assets, lent)) + EmittedNow * Scale
           /\ \A u \in Users : Total(AccountsOf(assets, lent, u))
                                <= Total(AccountsOf(assets, lent, u))'
<1> DEFINE e == [a \in ListedAssets |-> Emission(a)]
           es == [a \in ListedAssets |-> e[a] * Scale]
           d == DebtsOf(assets, lent)
           A == assets
           L == lent
<1>1. /\ now \in Nat /\ A \in Books /\ L \in [ListedAssets -> [Users -> Nat]]
      /\ emitted \in Nat
  BY DEF ControllerInv, ControllerTypeOK
<1>2. /\ now' = now + 1 /\ emitted' = emitted + EmittedNow
      /\ UNCHANGED <<assets, usersUnclaimedRewards, lent, psys, staked, claimed>>
  BY DEF SecondPasses, NextBlock
<1>3. ControllerInv'
  <2>1. EmittedNow \in Nat
    BY EmittedNat
  <2>2. /\ now' \in Nat /\ now <= now' /\ psys' \in Purse /\ staked' \in [Recipients -> Nat]
        /\ claimed' \in [Users -> Nat] /\ emitted' \in Nat
        /\ usersUnclaimedRewards' \in [Users -> Nat]
        /\ lent' \in [ListedAssets -> [Users -> Nat]] /\ assets' \in Books
        /\ \A a \in ListedAssets : lent'[a] \in [Users -> Balances]
    BY <1>1, <1>2, <2>1 DEF ControllerInv, ControllerTypeOK, Purse
  <2>3. fairShare' \in [Users -> Nat]
    <3>1. fairShare' = [u \in Users |-> fairShare[u] + FairShareNow(u)]
      BY DEF SecondPasses
    <3>2. fairShare \in [Users -> Nat] /\ \A u \in Users : FairShareNow(u) \in Nat
      BY FairShareNat DEF ControllerInv
    <3> QED
      BY <3>1, <3>2
  <2> QED
    BY <2>2, <2>3, ValuesKept
<1>4. ASSUME NEW a \in ListedAssets
      PROVE  /\ SettledAt(A[a], Users, now) /\ L[a] \in [Users -> Nat]
             /\ Total(L[a]) \in Nat /\ a \in Assets
  BY <1>1, UsersFinite, TotalBounds DEF Books, Assets
<1>5. e \in [ListedAssets -> Nat] /\ Total(e) = EmittedNow
  BY EmittedNat DEF EmittedNow
<1>6. d \in [ListedAssets -> Nat]
  BY <1>1, ListedValues
<1>7. d' = [a \in ListedAssets |-> d[a] + es[a]]
  <2>1. ASSUME NEW a \in ListedAssets
        PROVE  Debt(A[a], L[a], now + 1) = Debt(A[a], L[a], now) + e[a] * Scale
    <3> DEFINE r == A[a]
               b == L[a]
    <3>1. SettledAt(r, Users, now) /\ b \in [Users -> Nat]
      BY <1>4
    <3>2. e[a] = IF now < DISTRIBUTION_END /\ Total(b) # 0 THEN r.emissionPerSecond ELSE 0
      BY DEF Emission
    <3> HIDE DEF r, b, e
    <3>3. Debt(r, b, now + 1)
            = Debt(r, b, now)
              + (IF now < DISTRIBUTION_END /\ Total(b) # 0 THEN r.emissionPerSecond ELSE 0)
                    * Scale
      BY <1>1, <3>1, DebtNextSecond
    <3> QED
      BY <3>2, <3>3 DEF r, b
  <2>2. d' = [a \in ListedAssets |-> Debt(A[a], L[a], now + 1)]
    BY <1>2 DEF DebtsOf
  <2> HIDE DEF e
  <2> QED
    BY <2>1, <2>2 DEF DebtsOf
<1>8. Total(d') = Total(d) + EmittedNow * Scale
  <2> HIDE DEF e, d
  <2>1. Scale \in Nat /\ IsFiniteSet(ListedAssets)
    BY DistributionAssumption, UsersFinite
  <2>2. es \in [ListedAssets -> Nat] /\ Total(es) = Total(e) * Scale
    BY <1>5, <2>1, TotalTimes, ProductNat
  <2> HIDE DEF es
  <2>3. Total([a \in ListedAssets |-> d[a] + es[a]]) = Total(d) + Total(es)
    BY <1>6, <2>1, <2>2, TotalSum
  <2> QED
    BY <1>5, <1>7, <2>2, <2>3
<1>9. ASSUME NEW u \in Users
      PROVE  Total(AccountsOf(assets, lent, u)) <= Total(AccountsOf(assets, lent, u))'
  <2> DEFINE f == AccountsOf(assets, lent, u)
             g == [a \in ListedAssets |-> AccruedRewards(A[a], u, L[a][u], Total(L[a]), now + 1)]
  <2>1. f' = g
    BY <1>2 DEF AccountsOf
  <2>2. f \in [ListedAssets -> Nat] /\ f' \in [ListedAssets -> Nat]
    <3>1. f \in [ListedAssets -> Nat]
      BY <1>1, ListedValues
    <3>2. ASSUME NEW a \in ListedAssets PROVE g[a] \in Nat
      <4> DEFINE r == A[a]
                 total == Total(L[a])
                 b == L[a][u]
                 s == now + 1
      <4>1. /\ SettledAt(r, Users, s) /\ total \in Nat /\ b \in Nat /\ s \in Nat
        BY <1>1, <1>4 DEF SettledAt, AssetData
      <4> HIDE DEF r, total, b, s
      <4>2. AccruedRewards(r, u, b, total, s) \in Nat
        BY <4>1, AccruedIsShare
      <4> QED
        BY <4>2 DEF r, total, b, s
    <3> QED
      BY <2>1, <3>1, <3>2
  <2>3. ASSUME NEW a \in ListedAssets PROVE f[a] <= g[a]
    <3> DEFINE r == A[a]
               total == Total(L[a])
               b == L[a][u]
    <3>1. SettledAt(r, Users, now) /\ total \in Nat /\ b \in Nat
      BY <1>4
    <3>2. f[a] = AccruedRewards(r, u, b, total, now)
      BY DEF AccountsOf
    <3> HIDE DEF r, total, b, f
    <3>3. AccruedRewards(r, u, b, total, now) <= AccruedRewards(r, u, b, total, now + 1)
      BY <1>1, <3>1, SharesNextSecond
    <3> QED
      BY <3>2, <3>3 DEF r, total, b
  <2> HIDE DEF f, g
  <2>4. Total(f) <= Total(g)
    BY <2>1, <2>2, <2>3, UsersFinite, TotalMonotone
  <2>5. Total(f)' = Total(g)
    BY <2>1
  <2> QED
    BY <2>4, <2>5 DEF f
<1> QED
  BY <1>2, <1>3, <1>8, <1>9
-----------------------------------------------------------------------------
(* The theorems. *)

LEMMA NextIncentivesInv ==
    IncentivesInv /\ [IncentivesNext]_incentivesVars => IncentivesInv'
<1> SUFFICES ASSUME IncentivesInv, [IncentivesNext]_incentivesVars PROVE IncentivesInv'
  OBVIOUS
<1> USE DEF IncentivesInv
<1>1. CASE SecondPasses
  <2>1. /\ ControllerInv' /\ emitted' = emitted + EmittedNow
        /\ UNCHANGED <<assets, usersUnclaimedRewards, lent, psys, claimed>>
        /\ Total(DebtsOf(assets, lent))' = Total(DebtsOf(assets, lent)) + EmittedNow * Scale
    BY <1>1, SecondOutcome
  <2>2. VaultInv'
    BY <2>1 DEF VaultInv
  <2>3. EmissionInv'
    <3> DEFINE x == Total(Given) * Scale
               d == Total(DebtsOf(assets, lent))
               n == EmittedNow
    <3>1. (Total(Given) * Scale)' = x
      BY <2>1 DEF Given
    <3>2. x + d <= emitted * Scale
      BY DEF EmissionInv
    <3>3. n \in Nat /\ emitted \in Nat
      BY EmittedNat DEF ControllerInv
    <3>4. d \in Nat
      BY ListedValues DEF ControllerInv, ControllerTypeOK
    <3>5. x \in Nat
      <4>1. Given \in [Users -> Nat]
        BY DEF Given, ControllerInv, ControllerTypeOK
      <4>2. Total(Given) \in Nat
        BY <4>1, UsersFinite, TotalBounds
      <4> QED
        BY <4>2, ProductNat, DistributionAssumption
    <3>6. d' = d + n * Scale /\ emitted' = emitted + n
      BY <2>1
    <3> HIDE DEF x, d, n
    <3>7. (emitted + n) * Scale = emitted * Scale + n * Scale
      BY <3>3, DistributionAssumption
    <3>8. n * Scale \in Nat /\ emitted * Scale \in Nat
      BY <3>3, ProductNat, DistributionAssumption
    <3>9. x + d' <= emitted' * Scale
      BY <3>2, <3>4, <3>5, <3>6, <3>7, <3>8
    <3> QED
      BY <3>1, <3>9 DEF EmissionInv, d
  <2>4. FairInv'
    <3> SUFFICES ASSUME NEW u \in Users
                 PROVE  Given'[u] * Unit + Total(PartsOf(assets, lent, u))'
                            <= fairShare'[u] * Scale
      BY DEF FairInv
    <3> DEFINE x == Given[u] * Unit
               d == Total(PartsOf(assets, lent, u))
               f == fairShare[u]
               n == FairShareNow(u)
    <3>1. Given'[u] * Unit = x
      BY <2>1 DEF Given
    <3>2. x + d <= f * Scale
      BY DEF FairInv
    <3>3. n \in Nat /\ f \in Nat /\ Scale \in Nat
      BY FairShareNat, DistributionAssumption DEF ControllerInv
    <3>4. d \in Nat
      BY ListedValues DEF ControllerInv, ControllerTypeOK
    <3>5. x \in Nat
      <4>1. Given[u] \in Nat /\ Unit \in Nat
        BY <3>3, PortionNat DEF Given, ControllerInv, ControllerTypeOK
      <4> QED
        BY <4>1, ProductNat
    <3>6. d' = d + n * Scale /\ fairShare'[u] = f + n
      BY <1>1, SecondParts
    <3> HIDE DEF x, d, f, n
    <3>7. (f + n) * Scale = f * Scale + n * Scale
      BY <3>3
    <3>8. n * Scale \in Nat /\ f * Scale \in Nat
      BY <3>3, ProductNat
    <3>9. x + d' <= fairShare'[u] * Scale
      BY <3>2, <3>4, <3>5, <3>6, <3>7, <3>8
    <3> QED
      BY <3>1, <3>9 DEF d
  <2> QED
    BY <2>1, <2>2, <2>3, <2>4
<1>2. CASE RewardsPaid
  <2>1. VaultInv' /\ \E u \in Users, earned \in Nat : GivenTo(u, earned)
    BY <1>2, ClaimOutcome
  <2> QED
    BY <2>1, EmissionKept, FairKept DEF GivenTo
<1>3. CASE (LendingStep \/ ImpostorStep) /\ UNCHANGED <<emitted, fairShare, claimed>>
  <2>1. \E u \in Users, earned \in Nat : GivenTo(u, earned) /\ psys' = psys /\ claimed' = claimed
    BY <1>3, LendingOutcome, ImpostorOutcome
  <2>2. VaultInv'
    BY <2>1 DEF VaultInv
  <2> QED
    BY <2>1, <2>2, EmissionKept, FairKept DEF GivenTo
<1>4. CASE ConfigureStep /\ UNCHANGED <<emitted, fairShare, claimed>>
  <2>1. /\ ControllerInv' /\ NoDearer(assets, assets', lent)
        /\ UNCHANGED <<now, usersUnclaimedRewards, lent, psys, emitted, fairShare, claimed>>
    BY <1>4, ConfigureOutcome
  <2>2. VaultInv'
    BY <2>1 DEF VaultInv
  <2>3. EmissionInv'
    <3> DEFINE x == Total(Given) * Scale
               d == Total(DebtsOf(assets, lent))
               e == Total(DebtsOf(assets', lent))
    <3>1. (Total(Given) * Scale)' = x /\ d' = e
      BY <2>1 DEF Given, DebtsOf
    <3>2. x + d <= emitted * Scale /\ e <= d
      BY <2>1 DEF EmissionInv, NoDearer
    <3>3. d \in Nat
      BY ListedValues DEF ControllerInv, ControllerTypeOK
    <3>4. e \in Nat
      <4>1. now \in Nat /\ lent \in [ListedAssets -> [Users -> Nat]] /\ assets' \in Books
        BY <2>1 DEF ControllerInv, ControllerTypeOK, Books
      <4> QED
        BY <4>1, ListedValues
    <3>5. x \in Nat /\ emitted * Scale \in Nat
      <4>1. Given \in [Users -> Nat] /\ emitted \in Nat
        BY DEF Given, ControllerInv, ControllerTypeOK
      <4>2. Total(Given) \in Nat
        BY <4>1, UsersFinite, TotalBounds
      <4> QED
        BY <4>1, <4>2, ProductNat, DistributionAssumption
    <3> HIDE DEF x, d, e
    <3>6. x + e <= emitted * Scale
      BY <3>2, <3>3, <3>4, <3>5
    <3> QED
      BY <2>1, <3>1, <3>6 DEF EmissionInv, d
  <2>4. FairInv'
    <3> SUFFICES ASSUME NEW u \in Users
                 PROVE  Given'[u] * Unit + Total(PartsOf(assets, lent, u)')
                            <= fairShare'[u] * Scale
      BY DEF FairInv
    <3> DEFINE x == Given[u] * Unit
               d == Total(PartsOf(assets, lent, u))
               e == Total(PartsOf(assets', lent, u))
               f == fairShare[u] * Scale
    <3>1. Given'[u] * Unit = x /\ d' = e
      BY <2>1 DEF Given, PartsOf
    <3>2. x + d <= f /\ e <= d
      BY <2>1 DEF FairInv, NoDearer
    <3>3. d \in Nat
      BY ListedValues DEF ControllerInv, ControllerTypeOK
    <3>4. e \in Nat
      <4>1. now \in Nat /\ lent \in [ListedAssets -> [Users -> Nat]] /\ assets' \in Books
        BY <2>1 DEF ControllerInv, ControllerTypeOK, Books
      <4> QED
        BY <4>1, ListedValues
    <3>5. x \in Nat /\ f \in Nat
      <4>1. Given[u] \in Nat /\ fairShare[u] \in Nat /\ Scale \in Nat
        BY DistributionAssumption DEF Given, ControllerInv, ControllerTypeOK
      <4>2. Unit \in Nat
        BY <4>1, PortionNat
      <4> QED
        BY <4>1, <4>2, ProductNat
    <3> HIDE DEF x, d, e, f
    <3>6. x + e <= f
      BY <3>2, <3>3, <3>4, <3>5
    <3> QED
      BY <2>1, <3>1, <3>6 DEF d, f
  <2> QED
    BY <2>1, <2>2, <2>3, <2>4
<1>5. CASE UNCHANGED incentivesVars
  <2>1. ControllerInv'
    BY <1>5 DEF incentivesVars, ControllerInv, ControllerTypeOK, Books
  <2>2. EmissionInv' /\ VaultInv'
    BY <1>5 DEF incentivesVars, EmissionInv, VaultInv, Given, DebtsOf
  <2>3. FairInv'
    BY <1>5 DEF incentivesVars, FairInv, Given, PartsOf
  <2> QED
    BY <2>1, <2>2, <2>3
<1> QED
  BY <1>1, <1>2, <1>3, <1>4, <1>5 DEF IncentivesNext

LEMMA IncentivesInvAlways == IncentivesSpec => []IncentivesInv
  BY InitIncentivesInv, NextIncentivesInv, PTL DEF IncentivesSpec

(***************************************************************************)
(* Every settlement is defined, for any users, assets and lists: no index  *)
(* of a user gets ahead of its asset's. (handleAction, claimRewards,       *)
(* configureAssets)                                                        *)
(***************************************************************************)
THEOREM ControllerTypesAlwaysHold == IncentivesSpec => []ControllerTypeOK
<1>1. IncentivesInv => ControllerTypeOK
  BY DEF IncentivesInv, ControllerInv
<1> QED
  BY <1>1, IncentivesInvAlways, PTL

LEMMA OwedFromAccounts ==
    ASSUME NEW u
    PROVE  Owed(u) = usersUnclaimedRewards[u] + Total(AccountsOf(assets, lent, u))
  BY DEF Owed, Accrued, AccountsOf

\* The accounts of all users in one asset are within its debt.
LEMMA AccountsWithinDebt ==
    ASSUME ControllerInv
    PROVE  Total([u \in Users |-> Total(AccountsOf(assets, lent, u))]) * Scale
             <= Total(DebtsOf(assets, lent))
<1> DEFINE of(a, u) == AccruedRewards(assets[a], u, lent[a][u], Total(lent[a]), now)
           f == [u \in Users |-> [a \in ListedAssets |-> of(a, u)]]
           column(a) == [u \in Users |-> f[u][a]]
           sums == [a \in ListedAssets |-> Total(column(a))]
           debts == DebtsOf(assets, lent)
<1>1. /\ now \in Nat /\ assets \in Books /\ lent \in [ListedAssets -> [Users -> Nat]]
      /\ IsFiniteSet(Users) /\ IsFiniteSet(ListedAssets) /\ Scale \in Nat
  BY UsersFinite, DistributionAssumption DEF ControllerInv, ControllerTypeOK
<1>2. ASSUME NEW a \in ListedAssets
      PROVE  SettledAt(assets[a], Users, now) /\ lent[a] \in [Users -> Nat] /\ Total(lent[a]) \in Nat
  BY <1>1, TotalBounds DEF Books, Assets
<1>3. ASSUME NEW a \in ListedAssets, NEW u \in Users
      PROVE  /\ of(a, u) \in Nat
             /\ of(a, u) * Scale
                  <= Earned(assets[a], lent[a], GetAssetIndex(assets[a], Total(lent[a]), now))[u]
  <2> DEFINE r == assets[a]
             b == lent[a]
             total == Total(lent[a])
             i == GetAssetIndex(r, total, now)
             n == b[u]
  <2>1. SettledAt(r, Users, now) /\ b \in [Users -> Nat] /\ total \in Nat /\ n \in Nat
    BY <1>2
  <2>2. Earned(r, b, i)[u] = n * (i - r.users[u])
    BY <2>1 DEF Earned
  <2> HIDE DEF r, b, total, n
  <2>3. /\ AccruedRewards(r, u, n, total, now) \in Nat
        /\ AccruedRewards(r, u, n, total, now) * Scale <= n * (i - r.users[u])
    BY <1>1, <2>1, AccruedIsShare
  <2> QED
    BY <2>2, <2>3 DEF r, b, total, n
<1>4. /\ f \in [Users -> [ListedAssets -> Nat]]
      /\ \A u \in Users : f[u] = AccountsOf(assets, lent, u)
  BY <1>3 DEF AccountsOf
<1>5. debts \in [ListedAssets -> Nat] /\ Total(debts) \in Nat
  BY <1>1, ListedValues
<1>6. ASSUME NEW a \in ListedAssets
      PROVE  Total(column(a)) \in Nat /\ Total(column(a)) * Scale <= debts[a]
  <2> DEFINE r == assets[a]
             b == lent[a]
             i == GetAssetIndex(r, Total(b), now)
             c == column(a)
             scaled == [u \in Users |-> c[u] * Scale]
  <2>1. c \in [Users -> Nat]
    BY <1>4
  <2>2. \A u \in Users : c[u] * Scale <= Earned(r, b, i)[u]
    BY <1>3
  <2>3. debts[a] = Debt(r, b, now)
    BY DEF DebtsOf
  <2>4. Earned(r, b, i) \in [Users -> Nat] /\ Total(Earned(r, b, i)) <= Debt(r, b, now)
    <3>1. SettledAt(r, Users, now) /\ b \in [Users -> Nat]
      BY <1>2
    <3> HIDE DEF r, b
    <3> QED
      BY <1>1, <3>1, EarnedWithinDebt
  <2> HIDE DEF c, r, b, i, debts
  <2>5. scaled \in [Users -> Nat] /\ Total(scaled) = Total(c) * Scale /\ Total(c) \in Nat
    BY <1>1, <2>1, TotalTimes, TotalBounds, ProductNat
  <2>6. \A u \in Users : scaled[u] <= Earned(r, b, i)[u]
    BY <2>2
  <2> HIDE DEF scaled
  <2>7. Total(scaled) <= Total(Earned(r, b, i))
    BY <1>1, <2>4, <2>5, <2>6, TotalMonotone
  <2>8. Total(scaled) \in Nat /\ Total(Earned(r, b, i)) \in Nat /\ debts[a] \in Nat
    BY <1>1, <1>5, <2>4, <2>5, TotalBounds
  <2>9. Total(c) * Scale <= debts[a]
    BY <2>3, <2>4, <2>5, <2>7, <2>8
  <2> QED
    BY <2>5, <2>9 DEF c
<1> HIDE DEF f, debts
<1>7. Total(sums) = Total([u \in Users |-> Total(f[u])])
  BY <1>1, <1>4, TotalSwap
<1>8. sums \in [ListedAssets -> Nat]
  BY <1>6
<1>9. \A a \in ListedAssets : sums[a] * Scale <= debts[a]
  BY <1>6
<1> HIDE DEF sums
<1> DEFINE scaled == [a \in ListedAssets |-> sums[a] * Scale]
<1>10. scaled \in [ListedAssets -> Nat] /\ Total(scaled) = Total(sums) * Scale
  BY <1>1, <1>8, TotalTimes, ProductNat
<1>11. \A a \in ListedAssets : scaled[a] <= debts[a]
  BY <1>9
<1> HIDE DEF scaled
<1>12. Total(scaled) <= Total(debts)
  BY <1>1, <1>5, <1>10, <1>11, TotalMonotone
<1>13. [u \in Users |-> Total(f[u])] = [u \in Users |-> Total(AccountsOf(assets, lent, u))]
  BY <1>4
<1> QED
  BY <1>7, <1>10, <1>12, <1>13 DEF debts
LEMMA InvGivesPaidAndOwed == IncentivesInv => PaidAndOwedWithinEmission
<1> SUFFICES ASSUME IncentivesInv PROVE PaidAndOwedWithinEmission
  OBVIOUS
<1> DEFINE accounts == [u \in Users |-> Total(AccountsOf(assets, lent, u))]
           owed == [u \in Users |-> Owed(u)]
           C == Total(claimed)
           N == Total(accounts)
           W == Total(owed)
           D == Total(DebtsOf(assets, lent))
           rate == 100 + EXTRA_PSM_REWARD
           x == 100 * (VaultPSYS - psys[RewardsVault])
<1>1. /\ now \in Nat /\ assets \in Books /\ lent \in [ListedAssets -> [Users -> Nat]]
      /\ claimed \in [Users -> Nat] /\ usersUnclaimedRewards \in [Users -> Nat]
      /\ emitted \in Nat /\ psys \in Purse
  BY DEF IncentivesInv, ControllerInv, ControllerTypeOK, Purse
<1>2. D \in Nat /\ accounts \in [Users -> Nat]
  BY <1>1, ListedValues
<1>3. owed = [u \in Users |-> usersUnclaimedRewards[u] + accounts[u]]
  BY OwedFromAccounts
<1>4. owed \in [Users -> Nat]
  BY <1>1, <1>2, <1>3
<1>5. Given = [u \in Users |-> claimed[u] + usersUnclaimedRewards[u]]
  BY DEF Given
<1>6. N * Scale <= D
  BY AccountsWithinDebt DEF IncentivesInv
<1> HIDE DEF accounts, owed
<1>7. /\ W = Total(usersUnclaimedRewards) + N
      /\ Total(Given) = C + Total(usersUnclaimedRewards)
      /\ Total(usersUnclaimedRewards) \in Nat /\ N \in Nat /\ C \in Nat
  BY <1>1, <1>2, <1>3, <1>5, UsersFinite, TotalSum, TotalBounds
<1>8. Total(Given) * Scale + D <= emitted * Scale
  BY DEF IncentivesInv, EmissionInv
<1>9. x <= rate * C
  BY DEF IncentivesInv, VaultInv
<1>10. rate \in Nat /\ x \in Int /\ Scale \in Nat /\ Scale # 0
  <2>1. EXTRA_PSM_REWARD \in Nat /\ VaultPSYS \in Nat
    BY ControllerAssumption
  <2>2. psys[RewardsVault] \in Nat
    BY <1>1 DEF Purse
  <2> QED
    BY <2>1, <2>2, DistributionAssumption
<1> DEFINE G == Total(Given)
<1>11. G + N <= emitted
  <2>1. G \in Nat /\ N \in Nat /\ G + N \in Nat
    BY <1>7
  <2> HIDE DEF G, N, D
  <2>2. (G + N) * Scale = G * Scale + N * Scale
    BY <1>10, <2>1
  <2>3. G * Scale \in Nat /\ N * Scale \in Nat /\ emitted * Scale \in Nat
    BY <1>1, <1>10, <2>1, ProductNat
  <2>4. (G + N) * Scale <= emitted * Scale
    BY <1>2, <1>6, <1>8, <2>2, <2>3 DEF G
  <2> QED
    BY <1>1, <1>10, <2>1, <2>4, ProductCancel
<1>12. C + W <= emitted /\ C + W \in Nat /\ W \in Nat
  BY <1>7, <1>11
<1> HIDE DEF C, N, W, D, rate, x, G
<1>13. rate * (C + W) <= rate * emitted
  BY <1>1, <1>10, <1>12, ProductMonotone
<1>14. rate * (C + W) = rate * C + rate * W
  BY <1>7, <1>10, <1>12
<1>15. rate * C \in Nat /\ rate * W \in Nat /\ rate * emitted \in Nat
  BY <1>1, <1>7, <1>10, <1>12, ProductNat
<1>16. x + rate * W <= rate * emitted
  BY <1>9, <1>10, <1>13, <1>14, <1>15
<1> QED
  BY <1>16 DEF PaidAndOwedWithinEmission, x, rate, W, owed

(***************************************************************************)
(* The vault never pays, and never owes, more than the listed assets       *)
(* emitted and the bonus on it, for any users and assets, any lists and    *)
(* any stakes an impostor reports. (claimRewards, handleAction)            *)
(***************************************************************************)
THEOREM VaultPaysWithinEmission == IncentivesSpec => []PaidAndOwedWithinEmission
  BY InvGivesPaidAndOwed, IncentivesInvAlways, PTL

\* What a user accrued in all assets is within its part of them.
LEMMA AccountsWithinParts ==
    ASSUME ControllerInv, NEW u \in Users
    PROVE  Total(AccountsOf(assets, lent, u)) * Unit <= Total(PartsOf(assets, lent, u))
<1> DEFINE f == AccountsOf(assets, lent, u)
           g == PartsOf(assets, lent, u)
           h == [a \in ListedAssets |-> f[a] * Unit]
<1>1. /\ now \in Nat /\ assets \in Books /\ lent \in [ListedAssets -> [Users -> Nat]]
  BY DEF ControllerInv, ControllerTypeOK
<1>2. f \in [ListedAssets -> Nat] /\ g \in [ListedAssets -> Nat]
  BY <1>1, ListedValues
<1>3. ASSUME NEW a \in ListedAssets PROVE f[a] * Unit <= g[a]
  <2> DEFINE r == assets[a]
             n == lent[a][u]
             total == Total(lent[a])
             earned == AccruedRewards(r, u, n, total, now)
  <2>1. SettledAt(r, Users, now) /\ n \in Nat /\ total \in Nat /\ Exact(total)
    BY <1>1, UsersFinite, TotalBounds, SuppliesExact DEF Books, Assets
  <2>2. f[a] = earned /\ g[a] = Part(r, u, n, total, now)
    BY DEF AccountsOf, PartsOf
  <2> HIDE DEF r, n, total, f, g
  <2>3. earned * Unit <= Part(r, u, n, total, now)
    BY <1>1, <2>1, AccruedWithinPart
  <2> QED
    BY <2>2, <2>3
<1>4. Unit \in Nat
  BY <1>1, PortionNat
<1> HIDE DEF f, g
<1>5. h \in [ListedAssets -> Nat] /\ Total(h) = Total(f) * Unit
  BY <1>2, <1>4, UsersFinite, TotalTimes, ProductNat
<1>6. \A a \in ListedAssets : h[a] <= g[a]
  BY <1>3
<1> HIDE DEF h
<1>7. Total(h) <= Total(g)
  BY <1>2, <1>5, <1>6, UsersFinite, TotalMonotone
<1> QED
  BY <1>5, <1>7 DEF f, g

LEMMA InvGivesShares == IncentivesInv => EarnedWithinShare
<1> SUFFICES ASSUME IncentivesInv, NEW u \in Users
             PROVE  (claimed[u] + Owed(u)) * FairScale <= fairShare[u]
  BY DEF EarnedWithinShare
<1> DEFINE g == Given[u]
           x == Total(AccountsOf(assets, lent, u))
           d == Total(PartsOf(assets, lent, u))
           s == fairShare[u]
           all == claimed[u] + Owed(u)
<1>1. /\ ControllerInv /\ now \in Nat /\ assets \in Books
      /\ lent \in [ListedAssets -> [Users -> Nat]]
      /\ claimed[u] \in Nat /\ usersUnclaimedRewards[u] \in Nat /\ s \in Nat
  BY DEF IncentivesInv, ControllerInv, ControllerTypeOK
<1>2. x \in Nat /\ d \in Nat
  BY <1>1, ListedValues
<1>3. g = claimed[u] + usersUnclaimedRewards[u] /\ g \in Nat
  BY <1>1 DEF Given
<1>4. all = g + x
  <2>1. Owed(u) = usersUnclaimedRewards[u] + x
    BY OwedFromAccounts
  <2> HIDE DEF x, g
  <2> QED
    BY <1>1, <1>2, <1>3, <2>1
<1>5. g * Unit + d <= s * Scale
  BY DEF IncentivesInv, FairInv
<1>6. x * Unit <= d
  BY <1>1, AccountsWithinParts
<1>7. FairScale \in Nat /\ Scale \in Nat /\ Scale # 0 /\ Unit \in Nat
  BY <1>1, PortionNat
<1> HIDE DEF g, x, d, s, all
<1>8. (g + x) * Unit = g * Unit + x * Unit
  BY <1>2, <1>3, <1>7
<1>9. g * Unit \in Nat /\ x * Unit \in Nat /\ s * Scale \in Nat
  BY <1>1, <1>2, <1>3, <1>7, ProductNat
<1>10. all * Unit <= s * Scale
  BY <1>2, <1>4, <1>5, <1>6, <1>8, <1>9
<1>11. all \in Nat /\ all * FairScale \in Nat
  BY <1>2, <1>3, <1>4, <1>7, ProductNat
<1>12. all * Unit = (all * FairScale) * Scale
  BY <1>7, <1>11 DEF Unit
<1> DEFINE y == all * FairScale
<1>13. y \in Nat /\ y * Scale <= s * Scale
  BY <1>10, <1>11, <1>12
<1> HIDE DEF y
<1>14. y <= s
  BY <1>1, <1>7, <1>13, ProductCancel
<1> QED
  BY <1>14 DEF y, all, s

(***************************************************************************)
(* Nobody earns more than its own part of what the listed assets emit, for *)
(* any users and assets, any deposits and withdrawals between the claims,  *)
(* any lists and any contracts that act as assets.  (handleAction with the *)
(* balance and supply of before, _claimRewards, configureAssets)           *)
(***************************************************************************)
THEOREM SharesAlwaysRespected == IncentivesSpec => []EarnedWithinShare
  BY InvGivesShares, IncentivesInvAlways, PTL

\* What u earned so far: claimed, stored and accrued.
EarnedBy(u) == claimed[u] + Owed(u)

LEMMA EarnedNow ==
    ASSUME NEW u
    PROVE  EarnedBy(u) = claimed[u] + (usersUnclaimedRewards[u]
                                        + Total(AccountsOf(assets, lent, u)))
  BY OwedFromAccounts DEF EarnedBy

LEMMA EarnedNext ==
    ASSUME NEW u
    PROVE  EarnedBy(u)' = claimed'[u] + (usersUnclaimedRewards'[u]
                                          + Total(AccountsOf(assets, lent, u))')
  BY DEF EarnedBy, Owed, Accrued, AccountsOf

LEMMA GivenKeepsEarned ==
    ASSUME ControllerInv, NEW u \in Users, NEW earned \in Nat, GivenTo(u, earned),
           NEW v \in Users
    PROVE  EarnedBy(v)' = EarnedBy(v)
<1> DEFINE x == Total(AccountsOf(assets, lent, v))
           y == Total(AccountsOf(assets', lent', v))
           c == claimed
           f == usersUnclaimedRewards
<1>1. /\ now \in Nat /\ assets \in Books /\ lent \in [ListedAssets -> [Users -> Nat]]
      /\ c \in [Users -> Nat] /\ f \in [Users -> Nat]
  BY DEF ControllerInv, ControllerTypeOK
<1>2. /\ assets' \in Books /\ lent' \in [ListedAssets -> [Users -> Nat]]
      /\ c' \in [Users -> Nat] /\ f' \in [Users -> Nat]
  BY DEF GivenTo, ControllerInv, ControllerTypeOK, Books
<1>3. x \in Nat /\ y \in Nat
  BY <1>1, <1>2, ListedValues
<1>4. AccountsOf(assets, lent, v)' = AccountsOf(assets', lent', v)
  BY DEF GivenTo, AccountsOf
<1>5. Total(AccountsOf(assets, lent, v))' = y
  BY <1>4
<1>6. y = IF v = u THEN x - earned ELSE x
  BY <1>3 DEF GivenTo, Paying
<1>7. c'[v] + f'[v] = (c[v] + f[v]) + (IF v = u THEN earned ELSE 0)
  <2>1. Given' = [Given EXCEPT ![u] = @ + earned]
    BY DEF GivenTo
  <2>2. Given'[v] = c'[v] + f'[v] /\ Given[v] = c[v] + f[v] /\ Given[v] \in Nat
    BY <1>1 DEF Given
  <2>3. Given'[v] = IF v = u THEN Given[v] + earned ELSE Given[v]
    BY <2>1 DEF Given
  <2> QED
    BY <2>2, <2>3
<1>8. c[v] \in Nat /\ f[v] \in Nat /\ c'[v] \in Nat /\ f'[v] \in Nat
  BY <1>1, <1>2
<1> HIDE DEF x, y
<1>9. c'[v] + (f'[v] + y) = c[v] + (f[v] + x)
  BY <1>3, <1>6, <1>7, <1>8
<1> QED
  BY <1>5, <1>9, EarnedNow, EarnedNext DEF x

AccountsNat == \A u \in Users : Total(AccountsOf(assets, lent, u)) \in Nat

LEMMA AccountsAreNat == ControllerInv => AccountsNat
  BY ListedValues DEF ControllerInv, ControllerTypeOK, AccountsNat

LEMMA AccountsAreNatNext == ControllerInv' => AccountsNat'
  BY AccountsAreNat, PTL

LEMMA StepEarns ==
    ASSUME IncentivesInv, [IncentivesNext]_incentivesVars, NEW v \in Users
    PROVE  IF now' = now THEN EarnedBy(v)' = EarnedBy(v) ELSE EarnedBy(v)' >= EarnedBy(v)
<1> USE DEF IncentivesInv
<1>1. CASE SecondPasses
  <2> DEFINE x == Total(AccountsOf(assets, lent, v))
             y == Total(AccountsOf(assets, lent, v))'
             c == claimed[v]
             f == usersUnclaimedRewards[v]
  <2>1. claimed'[v] = c /\ usersUnclaimedRewards'[v] = f /\ x <= y
    BY <1>1, SecondOutcome
  <2>2. now' # now
    BY <1>1 DEF SecondPasses, NextBlock, ControllerInv, ControllerTypeOK
  <2>3. c \in Nat /\ f \in Nat /\ x \in Nat
    BY ListedValues DEF ControllerInv, ControllerTypeOK
  <2>4. y \in Nat
    <3>1. ControllerInv'
      BY <1>1, SecondOutcome
    <3> QED
      BY <3>1, AccountsAreNatNext DEF AccountsNat
  <2>5. EarnedBy(v) = c + (f + x) /\ EarnedBy(v)' = c + (f + y)
    BY <2>1, EarnedNow, EarnedNext
  <2> HIDE DEF x, y, c, f
  <2> QED
    BY <2>1, <2>2, <2>3, <2>4, <2>5
<1>2. CASE RewardsPaid
  <2>1. \E u \in Users, earned \in Nat : GivenTo(u, earned)
    BY <1>2, ClaimOutcome
  <2> QED
    BY <2>1, GivenKeepsEarned DEF GivenTo
<1>3. CASE (LendingStep \/ ImpostorStep) /\ UNCHANGED <<emitted, fairShare, claimed>>
  <2>1. \E u \in Users, earned \in Nat : GivenTo(u, earned)
    BY <1>3, LendingOutcome, ImpostorOutcome
  <2> QED
    BY <2>1, GivenKeepsEarned DEF GivenTo
<1>4. CASE ConfigureStep /\ UNCHANGED <<emitted, fairShare, claimed>>
  <2>1. /\ NoDearer(assets, assets', lent)
        /\ UNCHANGED <<now, usersUnclaimedRewards, lent, psys, emitted, fairShare, claimed>>
    BY <1>4, ConfigureOutcome
  <2>2. AccountsOf(assets', lent, v) = AccountsOf(assets, lent, v)
    BY <2>1 DEF NoDearer
  <2>3. AccountsOf(assets, lent, v)' = AccountsOf(assets, lent, v)
    BY <2>1, <2>2 DEF AccountsOf
  <2>4. EarnedBy(v)' = EarnedBy(v)
    BY <2>1, <2>3, EarnedNow, EarnedNext
  <2> QED
    BY <2>1, <2>4
<1>5. CASE UNCHANGED incentivesVars
  BY <1>5 DEF incentivesVars, EarnedBy, Owed, Accrued
<1> QED
  BY <1>1, <1>2, <1>3, <1>4, <1>5 DEF IncentivesNext

(***************************************************************************)
(* No transaction changes what anybody has earned, to the last unit; only  *)
(* time does, and only upwards: for any users, assets and lists.           *)
(* (handleAction, claimRewards, configureAssets)                           *)
(***************************************************************************)
THEOREM OnlyTimeEverEarns == IncentivesSpec => OnlyTimeEarns
<1>1. IncentivesInv /\ [IncentivesNext]_incentivesVars
        => [\A u \in Users :
            IF now' = now THEN claimed'[u] + Owed(u)' = claimed[u] + Owed(u)
                          ELSE claimed'[u] + Owed(u)' >= claimed[u] + Owed(u)]_incentivesVars
  BY StepEarns DEF EarnedBy
<1> QED
  BY <1>1, IncentivesInvAlways, PTL DEF IncentivesSpec, OnlyTimeEarns
-----------------------------------------------------------------------------
(* The view. *)

LEMMA UnclaimedIsAccrued ==
    ASSUME now \in Nat, assets \in Books, NEW u \in Users, NEW a \in Assets, NEW stake \in Stake
    PROVE  /\ Unclaimed(u, a, stake)
                = AccruedRewards(assets[a], u, stake.stakedByUser, stake.totalStaked, now)
           /\ Unclaimed(u, a, stake) \in Nat
<1> DEFINE r == assets[a]
           b == stake.stakedByUser
           total == stake.totalStaked
<1>1. SettledAt(r, Users, now) /\ b \in Nat /\ total \in Nat
  BY DEF Books, Stake
<1>2. Unclaimed(u, a, stake) = (b * (GetAssetIndex(r, total, now) - r.users[u])) \div Scale
  BY DEF Unclaimed, GetRewards
<1> HIDE DEF r, b, total
<1>3. AccruedRewards(r, u, b, total, now)
        = (b * (GetAssetIndex(r, total, now) - r.users[u])) \div Scale
  BY <1>1, AccruedIsShare
<1>4. AccruedRewards(r, u, b, total, now) \in Nat
  BY <1>1, AccruedIsShare
<1> QED
  BY <1>2, <1>3, <1>4 DEF r, b, total

Summing(sum, u, list, stakeOf) ==
    /\ sum \in [0 .. Len(list) -> Nat]
    /\ sum[0] = 0
    /\ \A i \in 1 .. Len(list) :
            sum[i] = sum[i - 1] + Unclaimed(u, list[i], stakeOf[list[i]])

LEMMA SummingExists ==
    ASSUME now \in Nat, assets \in Books, NEW u \in Users, NEW list \in Seq(Assets),
           NEW stakeOf \in [Assets -> Stake]
    PROVE  \E sum : /\ Summing(sum, u, list, stakeOf)
                    /\ GetUnclaimedRewards(u, list, stakeOf) = sum[Len(list)]
<1> DEFINE n == Len(list)
           of(i) == Unclaimed(u, list[i], stakeOf[list[i]])
           round == [di \in Nat \X (1 .. n) |-> di[1] + of(di[2])]
           Solves(f) == f = [i \in 0 .. n |-> IF i = 0 THEN 0 ELSE f[i - 1] + of(i)]
<1>1. n \in Nat /\ \A i \in 1 .. n : list[i] \in Assets /\ stakeOf[list[i]] \in Stake
  OBVIOUS
<1>2. \A i \in 1 .. n : of(i) \in Nat
  BY <1>1, UnclaimedIsAccrued
<1> HIDE DEF of, n
<1>3. round \in [Nat \X (1 .. n) -> Nat]
  BY <1>2
<1>4. \A d \in Nat, i \in 1 .. n : round[<<d, i>>] = d + of(i)
  OBVIOUS
<1> HIDE DEF round
<1>5. PICK f \in [0 .. n -> Nat] :
        f[0] = 0 /\ \A i \in 1 .. n : f[i] = round[<<f[i - 1], i>>]
  <2>1. LoopValues(Nat, 0, n, round) # {}
    BY <1>1, <1>3, LoopExists
  <2> QED
    BY <2>1 DEF LoopValues
<1>6. Solves(f)
  <2>1. ASSUME NEW i \in 0 .. n
        PROVE  f[i] = IF i = 0 THEN 0 ELSE f[i - 1] + of(i)
    <3>1. CASE i # 0
      <4>1. i \in 1 .. n /\ i - 1 \in 0 .. n
        BY <1>1, <3>1
      <4>2. f[i - 1] \in Nat
        BY <4>1
      <4> QED
        BY <1>4, <1>5, <3>1, <4>1, <4>2
    <3> QED
      BY <1>5, <3>1
  <2> QED
    BY <2>1
<1> DEFINE g == CHOOSE done : Solves(done)
<1>7. Solves(g)
  BY <1>6
<1>8. GetUnclaimedRewards(u, list, stakeOf) = g[n]
  BY DEF GetUnclaimedRewards, of, n
<1> HIDE DEF g
<1>9. g[0] = 0 /\ \A i \in 1 .. n : g[i] = g[i - 1] + of(i)
  BY <1>1, <1>7
<1>10. \A i \in 0 .. n : g[i] \in Nat
  <2> DEFINE T == {i \in 0 .. n : g[i] \in Nat}
  <2>1. 0 \in T
    BY <1>1, <1>9
  <2>2. \A i \in 1 .. n : i - 1 \in T => i \in T
    BY <1>1, <1>2, <1>9
  <2> HIDE DEF T
  <2>3. \A i \in 0 .. n : i \in T
    BY <1>1, <2>1, <2>2, LoopInduction
  <2> QED
    BY <2>3 DEF T
<1>11. g \in [0 .. n -> Nat]
  BY <1>7, <1>10
<1> QED
  BY <1>8, <1>9, <1>11 DEF Summing, of, n

(***************************************************************************)
(* Both loops side by side: the records of the assets that are still to    *)
(* come are as they were when the claim began.                             *)
(***************************************************************************)
LEMMA ViewIsClaim ==
    ASSUME ControllerInv, NEW u \in Users, NEW list \in AssetLists, NEW report \in StakeReport,
           IsInjective(list)
    PROVE  GetUnclaimedRewards(u, list, StakeOf(u, report))
             = ClaimedAssets(u, list, StakeOf(u, report)).accruedRewards
<1> DEFINE stakeOf == StakeOf(u, report)
           n == Len(list)
<1>1. /\ now \in Nat /\ assets \in Books /\ lent \in [ListedAssets -> [Users -> Nat]]
      /\ list \in Seq(Assets) /\ n \in Nat
  BY ControllerAssumption DEF ControllerInv, ControllerTypeOK
<1>2. stakeOf \in [Assets -> Stake]
  BY <1>1, StakeOfTypes
<1> HIDE DEF stakeOf
<1>3. PICK done : Claiming(done, u, list, stakeOf) /\ ClaimedAssets(u, list, stakeOf) = done[n]
  BY <1>1, <1>2, ClaimingExists
<1>4. PICK sum : Summing(sum, u, list, stakeOf) /\ GetUnclaimedRewards(u, list, stakeOf) = sum[n]
  BY <1>1, <1>2, SummingExists
<1>5. \A i, j \in 1 .. n : i # j => list[i] # list[j]
  BY <1>1 DEF IsInjective
<1> DEFINE Same(i) == /\ done[i].accruedRewards = sum[i]
                      /\ \A j \in (i + 1) .. n : done[i].assets[list[j]] = assets[list[j]]
           T == {i \in 0 .. n : Same(i)}
<1>6. 0 \in T
  <2>1. done[0] = [accruedRewards |-> 0, assets |-> assets] /\ sum[0] = 0
    BY <1>3, <1>4 DEF Claiming, Summing
  <2>2. done[0].accruedRewards = 0 /\ done[0].assets = assets
    BY <2>1
  <2> QED
    BY <1>1, <2>1, <2>2
<1>7. ASSUME NEW i \in 1 .. n, i - 1 \in T PROVE i \in T
  <2> DEFINE d == done[i - 1]
             e == done[i]
             a == list[i]
             stake == stakeOf[a]
             earned == AccruedRewards(d.assets[a], u, stake.stakedByUser, stake.totalStaked, now)
  <2>1. /\ d \in Round /\ e = ClaimedNext(d, u, a, stake)
        /\ sum[i] = sum[i - 1] + Unclaimed(u, a, stake)
    <3>1. d \in Round
      <4>1. done \in [0 .. n -> Round] /\ i - 1 \in 0 .. n
        BY <1>1, <1>3 DEF Claiming
      <4> QED
        BY <4>1
    <3>2. e = ClaimedNext(d, u, a, stake)
      BY <1>3 DEF Claiming
    <3>3. sum[i] = sum[i - 1] + Unclaimed(u, a, stake)
      BY <1>4 DEF Summing
    <3> QED
      BY <3>1, <3>2, <3>3
  <2>2. a \in Assets /\ stake \in Stake
    BY <1>1, <1>2
  <2>3. d.accruedRewards = sum[i - 1] /\ \A j \in i .. n : d.assets[list[j]] = assets[list[j]]
    BY <1>7
  <2>4. d.assets[a] = assets[a]
    BY <2>3
  <2> HIDE DEF d, e, a, stake
  <2>5. /\ e.accruedRewards = d.accruedRewards + earned
        /\ e.assets = [d.assets EXCEPT ![a] = UpdateUserAsset(@, u, stake.totalStaked, now)]
    BY <1>1, <2>1, <2>2, ClaimedNextRound
  <2>6. earned = Unclaimed(u, a, stake)
    <3>1. Unclaimed(u, a, stake)
            = AccruedRewards(assets[a], u, stake.stakedByUser, stake.totalStaked, now)
      BY <1>1, <2>2, UnclaimedIsAccrued
    <3> QED
      BY <2>4, <3>1
  <2>7. ASSUME NEW j \in (i + 1) .. n PROVE e.assets[list[j]] = assets[list[j]]
    <3>1. j \in 1 .. n /\ j \in i .. n /\ list[j] # a /\ list[j] \in Assets
      BY <1>1, <1>5 DEF a
    <3>2. d.assets \in [Assets -> AssetData(Users)]
      BY <2>1 DEF Round, Books
    <3>3. e.assets[list[j]] = d.assets[list[j]]
      BY <2>5, <3>1, <3>2
    <3> QED
      BY <2>3, <3>1, <3>3
  <2> HIDE DEF earned
  <2>8. Same(i)
    BY <2>1, <2>3, <2>5, <2>6, <2>7 DEF e
  <2> QED
    BY <1>1, <2>8
<1> HIDE DEF T
<1>8. \A i \in 0 .. n : i \in T
  BY <1>1, <1>6, <1>7, LoopInduction
<1>9. n \in T
  BY <1>1, <1>8
<1> QED
  BY <1>3, <1>4, <1>9 DEF T, stakeOf

(***************************************************************************)
(* What getRewardsBalance shows for a list without repetition is what a    *)
(* claim of everything over the list is given, for any list of any length. *)
(* (getRewardsBalance, _getUnclaimedRewards, _claimRewards)                *)
(***************************************************************************)
THEOREM BalanceAlwaysClaimable == IncentivesSpec => []BalanceIsClaimable
<1>1. IncentivesInv => BalanceIsClaimable
  BY ViewIsClaim DEF IncentivesInv, BalanceIsClaimable, GetRewardsBalance
<1> QED
  BY <1>1, IncentivesInvAlways, PTL

=============================================================================
