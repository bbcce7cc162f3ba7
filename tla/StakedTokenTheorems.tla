------------------------- MODULE StakedTokenTheorems -------------------------
(***************************************************************************)
(* Proofs about the staked token, for every set of users, every cooldown   *)
(* and window, every emission and every stake the manager may report.      *)
(***************************************************************************)
EXTENDS StakedTokenProperties, ArithmeticLemmas

-----------------------------------------------------------------------------
(* The handlers settle the record of the token. *)

\* The part of the invariant about the record is SettledAt of its lemmas.
LEMMA IndInvSettled ==
    ASSUME IndInv
    PROVE  /\ now \in Nat
           /\ totalSupply \in Nat
           /\ SettledAt(asset, Accounts, now)
  BY DEF IndInv, TypeOK, IndexesOrdered, SettledAt

\* Settling u leaves a settled record, and what u accrues is a natural.
LEMMA SettleKeeps ==
    ASSUME IndInv, NEW u \in Accounts, CanAccrue(u)
    PROVE  /\ SettledAt(Settled(u), Accounts, now)
           /\ Accrued(u) \in Nat
<1>1. /\ now \in Nat /\ totalSupply \in Nat
      /\ SettledAt(asset, Accounts, now)
  BY IndInvSettled
<1>2. balances[u] \in Nat
  BY DEF IndInv, TypeOK
<1>3. SettledAt(Settled(u), Accounts, now)
  BY <1>1, UserAssetSettled DEF Settled
<1>4. asset \in AssetData(Accounts) /\ asset.lastUpdateTimestamp <= now
  BY <1>1 DEF SettledAt
<1>5. Accrued(u) \in Nat
  BY <1>1, <1>2, <1>4, AccruedNat DEF Accrued, CanAccrue
<1> QED
  BY <1>3, <1>5

(***************************************************************************)
(* Receiving tokens leaves a stamp the exit gate allows: the stamp of the  *)
(* receiver does not change, is cleared, or moves to a later time that is  *)
(* not in the future.  (getNextCooldownTimestamp)                          *)
(***************************************************************************)
LEMMA NextStampPostponed ==
    ASSUME IndInv, NEW to \in Accounts, NEW amount \in Nat,
           NEW fromStamp \in Nat, fromStamp <= now,
           balances[to] = 0 /\ amount = 0 => stakersCooldowns[to] = 0
    PROVE  /\ GetNextCooldownTimestamp(fromStamp, amount, to) \in Gate!Postponed(to)
           /\ GetNextCooldownTimestamp(fromStamp, amount, to) \in Nat
           /\ GetNextCooldownTimestamp(fromStamp, amount, to) <= now
           /\ stakersCooldowns[to] = 0 =>
                GetNextCooldownTimestamp(fromStamp, amount, to) = 0
<1> DEFINE stamp == stakersCooldowns[to]
           effective == IF minimalValidCooldownTimestamp > fromStamp
                        THEN now ELSE fromStamp
           next == GetNextCooldownTimestamp(fromStamp, amount, to)
<1>1. /\ now \in Nat /\ stamp \in Nat /\ stamp <= now /\ balances[to] \in Nat
      /\ effective \in Nat /\ effective <= now
  BY DEF IndInv, TypeOK, StampsPast
<1>2. minimalValidCooldownTimestamp > stamp <=> Gate!Closed(to)
  BY <1>1, StakedTokenAssumption DEF minimalValidCooldownTimestamp, Gate!Closed
<1>3. CASE stamp = 0 \/ minimalValidCooldownTimestamp > stamp
  <2>1. next = 0
    BY <1>3 DEF GetNextCooldownTimestamp
  <2>2. next \in Gate!Postponed(to)
    BY <1>2, <1>3, <2>1 DEF Gate!Postponed
  <2> QED
    BY <1>1, <2>1, <2>2
<1>4. CASE ~ (stamp = 0 \/ minimalValidCooldownTimestamp > stamp)
  <2>1. next \in stamp .. now
    <3>1. CASE effective < stamp
      <4>1. next = stamp
        BY <1>4, <3>1 DEF GetNextCooldownTimestamp
      <4> QED
        BY <1>1, <4>1
    <3>2. CASE ~ (effective < stamp)
      <4>1. next = (amount * effective + balances[to] * stamp)
                        \div (amount + balances[to])
        BY <1>4, <3>2 DEF GetNextCooldownTimestamp
      <4>2. amount + balances[to] # 0
        <5>1. stakersCooldowns[to] # 0
          BY <1>4
        <5>2. amount # 0 \/ balances[to] # 0
          BY <5>1
        <5> QED
          BY <1>1, <5>2
      <4>3. stamp <= effective
        BY <1>1, <3>2
      <4> HIDE DEF stamp, effective, next
      <4>4. next \in stamp .. effective
        BY <1>1, <4>1, <4>2, <4>3, AverageBetween
      <4> QED
        BY <1>1, <4>4
    <3> QED
      BY <3>1, <3>2
  <2>2. next \in Gate!Postponed(to)
    BY <1>2, <1>4, <2>1 DEF Gate!Postponed
  <2> QED
    BY <1>1, <1>4, <2>1, <2>2
<1> QED
  BY <1>3, <1>4

-----------------------------------------------------------------------------
(* The inductive invariant. *)

\* Settling and storing the rewards of u keeps the types and the indexes.
LEMMA UpdateKeeps ==
    ASSUME IndInv, NEW u \in Accounts, UpdateCurrentUnclaimedRewards(u)
    PROVE  /\ SettledAt(asset', Accounts, now)
           /\ stakerRewardsToClaim' \in [Accounts -> Nat]
<1>1. SettledAt(Settled(u), Accounts, now) /\ Accrued(u) \in Nat
  BY SettleKeeps DEF UpdateCurrentUnclaimedRewards
<1>2. SettledAt(asset', Accounts, now)
  BY <1>1 DEF UpdateCurrentUnclaimedRewards
<1>3. stakerRewardsToClaim \in [Accounts -> Nat]
  BY DEF IndInv, TypeOK
<1>4. stakerRewardsToClaim' \in [Accounts -> Nat]
  BY <1>1, <1>3 DEF UpdateCurrentUnclaimedRewards
<1> QED
  BY <1>2, <1>4

\* A transfer that the payer can afford leaves a ledger of naturals.
LEMMA MovedNat ==
    ASSUME NEW S, NEW ledger \in [S -> Nat], NEW from \in S, NEW to \in S,
           NEW n \in Nat, n <= ledger[from]
    PROVE  Moved(ledger, from, to, n) \in [S -> Nat]
  BY DEF Moved

\* stake keeps the inductive invariant.
LEMMA StakeKeeps ==
    ASSUME IndInv, NEW u \in Users, NEW a \in Accounts, NEW n \in Amounts,
           Stake(u, a, n)
    PROVE  IndInv'
<1>1. n \in Nat /\ n # 0 /\ u \in PsysHolders /\ StakeContract \in PsysHolders
  BY StakedTokenAssumption DEF Stake, PsysHolders, Accounts
<1>2. /\ now \in Nat /\ totalSupply \in Nat
      /\ balances \in [Accounts -> Nat] /\ psys \in [PsysHolders -> Nat]
      /\ stakersCooldowns \in [Accounts -> Nat]
  BY DEF IndInv, TypeOK
<1>3. SettledAt(asset', Accounts, now) /\ stakerRewardsToClaim' \in [Accounts -> Nat]
  BY UpdateKeeps DEF Stake
<1> DEFINE next == GetNextCooldownTimestamp(0, n, a)
<1>4. next \in Nat /\ next <= now
  BY <1>1, <1>2, NextStampPostponed
<1>5. /\ stakersCooldowns' = [stakersCooldowns EXCEPT ![a] = next]
      /\ balances' = [balances EXCEPT ![a] = @ + n]
      /\ totalSupply' = totalSupply + n
      /\ psys' = Moved(psys, u, StakeContract, n) /\ n <= psys[u]
      /\ now' = now
  BY DEF Stake
<1> HIDE DEF next
<1>6. /\ stakersCooldowns' \in [Accounts -> Nat]
      /\ balances' \in [Accounts -> Nat]
      /\ totalSupply' \in Nat
  BY <1>1, <1>2, <1>4, <1>5
<1>7. psys' \in [PsysHolders -> Nat]
  BY <1>1, <1>2, <1>5, MovedNat
<1>8. TypeOK' /\ IndexesOrdered'
  BY <1>2, <1>3, <1>5, <1>6, <1>7 DEF TypeOK, IndexesOrdered, SettledAt
<1>9. NoStaleCooldown'
  <2>1. NoStaleCooldown
    BY DEF IndInv
  <2>2. balances'[a] # 0
    BY <1>1, <1>2, <1>5
  <2> QED
    BY <1>2, <1>5, <2>1, <2>2 DEF NoStaleCooldown
<1>10. StampsPast'
  BY <1>2, <1>4, <1>5 DEF IndInv, StampsPast
<1> QED
  BY <1>5, <1>8, <1>9, <1>10 DEF IndInv

\* redeem keeps the inductive invariant.
LEMMA RedeemKeeps ==
    ASSUME IndInv, NEW u \in Users, NEW a \in Accounts, NEW n \in Limits,
           Redeem(u, a, n)
    PROVE  IndInv'
<1>1. n \in Nat /\ u \in Accounts /\ a \in PsysHolders /\ StakeContract \in PsysHolders
  BY StakedTokenAssumption DEF Limits, PsysHolders, Accounts
<1>2. /\ now \in Nat /\ totalSupply \in Nat
      /\ balances \in [Accounts -> Nat] /\ psys \in [PsysHolders -> Nat]
      /\ stakersCooldowns \in [Accounts -> Nat]
  BY DEF IndInv, TypeOK
<1>3. SettledAt(asset', Accounts, now) /\ stakerRewardsToClaim' \in [Accounts -> Nat]
  BY <1>1, UpdateKeeps DEF Redeem
<1> DEFINE m == AmountToRedeem(u, n)
<1>4. m \in Nat /\ m <= balances[u]
  BY <1>1, <1>2 DEF AmountToRedeem
<1>5. /\ balances' = [balances EXCEPT ![u] = @ - m]
      /\ totalSupply' = totalSupply - m /\ m <= totalSupply
      /\ stakersCooldowns' = [stakersCooldowns EXCEPT ![u] = StampAfter(u, m)]
      /\ psys' = Moved(psys, StakeContract, a, m) /\ m <= psys[StakeContract]
      /\ now' = now
  BY DEF Redeem
<1> HIDE DEF m
<1>6. /\ stakersCooldowns' \in [Accounts -> Nat]
      /\ balances' \in [Accounts -> Nat]
      /\ totalSupply' \in Nat
  BY <1>1, <1>2, <1>4, <1>5 DEF StampAfter
<1>7. psys' \in [PsysHolders -> Nat]
  BY <1>1, <1>2, <1>4, <1>5, MovedNat
<1>8. TypeOK' /\ IndexesOrdered'
  BY <1>2, <1>3, <1>5, <1>6, <1>7 DEF TypeOK, IndexesOrdered, SettledAt
<1>9. NoStaleCooldown' /\ StampsPast'
  <2>1. NoStaleCooldown /\ StampsPast
    BY DEF IndInv
  <2>2. \A h \in Accounts : balances'[h] = IF h = u THEN balances[u] - m ELSE balances[h]
    BY <1>1, <1>2, <1>5
  <2>3. \A h \in Accounts :
            stakersCooldowns'[h] = IF h = u /\ balances[u] = m THEN 0
                                   ELSE stakersCooldowns[h]
    BY <1>1, <1>2, <1>5 DEF StampAfter
  <2> QED
    BY <1>1, <1>2, <1>4, <1>5, <2>1, <2>2, <2>3 DEF NoStaleCooldown, StampsPast
<1> QED
  BY <1>5, <1>8, <1>9 DEF IndInv

\* cooldown keeps the inductive invariant.
LEMMA CooldownKeeps ==
    ASSUME IndInv, NEW u \in Users, Cooldown(u)
    PROVE  IndInv'
<1>1. u \in Accounts
  BY DEF Accounts
<1>2. TypeOK' /\ IndexesOrdered'
  BY <1>1 DEF IndInv, Cooldown, TypeOK, IndexesOrdered
<1>3. NoStaleCooldown' /\ StampsPast'
  BY <1>1 DEF IndInv, Cooldown, TypeOK, NoStaleCooldown, StampsPast
<1> QED
  BY <1>2, <1>3 DEF IndInv, Cooldown

\* claimRewards keeps the inductive invariant.
LEMMA ClaimKeeps ==
    ASSUME IndInv, NEW u \in Users, NEW a \in Accounts, NEW n \in Limits,
           ClaimRewards(u, a, n)
    PROVE  IndInv'
<1>1. /\ n \in Nat /\ u \in Accounts
      /\ a \in PsysHolders /\ RewardsVault \in PsysHolders
  BY StakedTokenAssumption DEF Limits, PsysHolders, Accounts
<1>2. /\ now \in Nat /\ psys \in [PsysHolders -> Nat]
      /\ stakerRewardsToClaim \in [Accounts -> Nat]
  BY DEF IndInv, TypeOK
<1>3. SettledAt(Settled(u), Accounts, now) /\ Accrued(u) \in Nat
  BY <1>1, SettleKeeps DEF ClaimRewards
<1> DEFINE owed == stakerRewardsToClaim[u] + Accrued(u)
           m == AmountToClaim(u, n)
<1>4. m \in Nat
  BY <1>1, <1>2, <1>3 DEF AmountToClaim
<1>5. /\ asset' = Settled(u)
      /\ m <= owed
      /\ stakerRewardsToClaim' = [stakerRewardsToClaim EXCEPT ![u] = owed - m]
      /\ psys' = Moved(psys, RewardsVault, a, m) /\ m <= psys[RewardsVault]
      /\ UNCHANGED <<now, balances, totalSupply, stakersCooldowns>>
  BY DEF ClaimRewards
<1> HIDE DEF m
<1>6. stakerRewardsToClaim' \in [Accounts -> Nat]
  BY <1>1, <1>2, <1>3, <1>4, <1>5
<1>7. psys' \in [PsysHolders -> Nat]
  BY <1>1, <1>2, <1>4, <1>5, MovedNat
<1>8. TypeOK' /\ IndexesOrdered'
  BY <1>3, <1>5, <1>6, <1>7 DEF IndInv, TypeOK, IndexesOrdered, SettledAt
<1>9. NoStaleCooldown' /\ StampsPast'
  BY <1>5 DEF IndInv, NoStaleCooldown, StampsPast
<1> QED
  BY <1>5, <1>8, <1>9 DEF IndInv

\* A transfer to oneself keeps the inductive invariant.
LEMMA TransferToSelfKeeps ==
    ASSUME IndInv, NEW u \in Users, NEW n \in Amounts \cup {0},
           TransferToSelf(u, n)
    PROVE  IndInv'
<1>1. u \in Accounts
  BY DEF Accounts
<1>2. SettledAt(asset', Accounts, now) /\ stakerRewardsToClaim' \in [Accounts -> Nat]
  BY <1>1, UpdateKeeps DEF TransferToSelf
<1>3. UNCHANGED <<now, balances, totalSupply, stakersCooldowns, psys>>
  BY DEF TransferToSelf
<1>4. TypeOK' /\ IndexesOrdered'
  BY <1>2, <1>3 DEF IndInv, TypeOK, IndexesOrdered, SettledAt
<1>5. NoStaleCooldown' /\ StampsPast'
  BY <1>3 DEF IndInv, NoStaleCooldown, StampsPast
<1> QED
  BY <1>3, <1>4, <1>5 DEF IndInv

\* A transfer to another account keeps the inductive invariant.
LEMMA TransferToOtherKeeps ==
    ASSUME IndInv, NEW u \in Users, NEW a \in Accounts,
           NEW n \in Amounts \cup {0}, TransferToOther(u, a, n)
    PROVE  IndInv'
<1>1. u \in Accounts /\ n \in Nat /\ u # a
  <2>1. u \in Accounts /\ n \in Nat
    BY StakedTokenAssumption DEF Accounts
  <2>2. u # a
    BY DEF TransferToOther
  <2> QED
    BY <2>1, <2>2
<1>2. /\ now \in Nat /\ totalSupply \in Nat
      /\ balances \in [Accounts -> Nat]
      /\ stakerRewardsToClaim \in [Accounts -> Nat]
      /\ stakersCooldowns \in [Accounts -> Nat]
      /\ NoStaleCooldown /\ StampsPast
  BY DEF IndInv, TypeOK
<1>3. /\ SettledAt(Settled(u), Accounts, now) /\ Accrued(u) \in Nat
      /\ Accrued(a) \in Nat
  BY <1>1, SettleKeeps DEF TransferToOther
<1>4. SettledAt(asset', Accounts, now)
  BY <1>2, <1>3, UserAssetSettled DEF TransferToOther
<1>5. stakerRewardsToClaim' \in [Accounts -> Nat]
  BY <1>1, <1>2, <1>3 DEF TransferToOther
<1> DEFINE next == GetNextCooldownTimestamp(stakersCooldowns[u], n, a)
<1>6. /\ stakersCooldowns' =
            [stakersCooldowns EXCEPT ![a] = next, ![u] = StampAfter(u, n)]
      /\ n <= balances[u]
      /\ balances' = Moved(balances, u, a, n)
      /\ UNCHANGED <<now, totalSupply, psys>>
  BY DEF TransferToOther
<1>7. next \in Nat /\ next <= now /\ (stakersCooldowns[a] = 0 => next = 0)
  <2>1. stakersCooldowns[u] \in Nat /\ stakersCooldowns[u] <= now
    BY <1>1, <1>2 DEF StampsPast
  <2>2. balances[a] = 0 /\ n = 0 => stakersCooldowns[a] = 0
    BY <1>2 DEF NoStaleCooldown
  <2> QED
    BY <1>1, <2>1, <2>2, NextStampPostponed
<1> HIDE DEF next
<1>8. /\ balances' \in [Accounts -> Nat]
      /\ stakersCooldowns' \in [Accounts -> Nat]
  BY <1>1, <1>2, <1>6, <1>7, MovedNat DEF StampAfter
<1>9. TypeOK' /\ IndexesOrdered'
  BY <1>4, <1>5, <1>6, <1>8 DEF IndInv, TypeOK, IndexesOrdered, SettledAt
<1>10. \A h \in Accounts :
            balances'[h] = IF h = a THEN balances[a] + n
                           ELSE IF h = u THEN balances[u] - n ELSE balances[h]
  BY <1>1, <1>2, <1>6 DEF Moved
<1>11. \A h \in Accounts :
            stakersCooldowns'[h] = IF h = a THEN next
                                   ELSE IF h = u /\ balances[u] = n THEN 0
                                   ELSE stakersCooldowns[h]
  BY <1>1, <1>2, <1>6 DEF StampAfter
<1>12. NoStaleCooldown'
  BY <1>1, <1>2, <1>6, <1>7, <1>10, <1>11 DEF NoStaleCooldown
<1>13. StampsPast'
  BY <1>2, <1>6, <1>7, <1>11 DEF StampsPast
<1> QED
  BY <1>6, <1>9, <1>12, <1>13 DEF IndInv

\* configureAssets keeps the inductive invariant.
LEMMA ConfigureKeeps ==
    ASSUME IndInv, NEW e \in Emissions, NEW s \in {0, totalSupply} \cup Misreports,
           ConfigureAssets(e, s)
    PROVE  IndInv'
<1>1. e \in Nat /\ s \in Nat /\ now \in Nat /\ SettledAt(asset, Accounts, now)
  BY IndInvSettled, StakedTokenAssumption
<1>2. SettledAt(asset', Accounts, now)
  BY <1>1, ConfiguredSettled DEF ConfigureAssets
<1>3. UNCHANGED <<now, balances, totalSupply, stakerRewardsToClaim,
                  stakersCooldowns, psys>>
  BY DEF ConfigureAssets
<1>4. TypeOK' /\ IndexesOrdered'
  BY <1>2, <1>3 DEF IndInv, TypeOK, IndexesOrdered, SettledAt
<1>5. NoStaleCooldown' /\ StampsPast'
  BY <1>3 DEF IndInv, NoStaleCooldown, StampsPast
<1> QED
  BY <1>3, <1>4, <1>5 DEF IndInv

\* The passing of time keeps the inductive invariant.
LEMMA TickKeeps ==
    ASSUME IndInv, Tick
    PROVE  IndInv'
<1>1. TypeOK' /\ IndexesOrdered'
  BY StakedTokenAssumption DEF IndInv, Tick, TypeOK, IndexesOrdered, AssetData
<1>2. NoStaleCooldown' /\ StampsPast'
  BY StakedTokenAssumption DEF IndInv, Tick, TypeOK, NoStaleCooldown, StampsPast
<1>3. StartTime <= now'
  BY StakedTokenAssumption DEF IndInv, Tick, TypeOK
<1> QED
  BY <1>1, <1>2, <1>3 DEF IndInv

\* The freshly initialised contract satisfies the inductive invariant.
LEMMA InitIndInv == Init => IndInv
<1> SUFFICES ASSUME Init PROVE IndInv
  OBVIOUS
<1>1. TypeOK
  BY StakedTokenAssumption DEF Init, TypeOK, AssetData, EmptyAsset
<1>2. IndexesOrdered /\ NoStaleCooldown /\ StampsPast
  BY StakedTokenAssumption DEF Init, EmptyAsset, IndexesOrdered, NoStaleCooldown, StampsPast
<1> QED
  BY <1>1, <1>2, StakedTokenAssumption DEF Init, IndInv

\* Every transaction, and the passing of time, keeps the invariant.
LEMMA NextIndInv == IndInv /\ [Next]_vars => IndInv'
<1> SUFFICES ASSUME IndInv, [Next]_vars PROVE IndInv'
  OBVIOUS
<1>1. CASE StakeStep
  BY <1>1, StakeKeeps DEF StakeStep
<1>2. CASE RedeemStep
  BY <1>2, RedeemKeeps DEF RedeemStep
<1>3. CASE CooldownStep
  BY <1>3, CooldownKeeps DEF CooldownStep
<1>4. CASE ClaimStep
  BY <1>4, ClaimKeeps DEF ClaimStep
<1>5. CASE TransferStep
  BY <1>5, TransferToSelfKeeps, TransferToOtherKeeps DEF TransferStep
<1>6. CASE ConfigureStep
  BY <1>6, ConfigureKeeps DEF ConfigureStep
<1>7. CASE Tick
  BY <1>7, TickKeeps
<1>8. CASE UNCHANGED vars
  BY <1>8 DEF vars, IndInv, TypeOK, IndexesOrdered, NoStaleCooldown, StampsPast
<1> QED
  BY <1>1, <1>2, <1>3, <1>4, <1>5, <1>6, <1>7, <1>8 DEF Next

(***************************************************************************)
(* The staked token always satisfies its inductive invariant.              *)
(***************************************************************************)
THEOREM IndInvHolds == Spec => []IndInv
<1>1. Init => IndInv
  BY InitIndInv
<1>2. IndInv /\ [Next]_vars => IndInv'
  BY NextIndInv
<1> QED
  BY <1>1, <1>2, PTL DEF Spec

(***************************************************************************)
(* In particular every variable keeps its type: no balance, supply, reward *)
(* or stamp ever goes below zero.                                          *)
(***************************************************************************)
THEOREM TypeCorrect == Spec => []TypeOK
<1>1. IndInv => TypeOK
  BY DEF IndInv
<1> QED
  BY <1>1, IndInvHolds, PTL

(***************************************************************************)
(* No account that was emptied, by a redeem or by a transfer, has a        *)
(* cooldown running for tokens it receives later.                          *)
(***************************************************************************)
THEOREM StaleCooldownsCleared == Spec => []NoStaleCooldown
<1>1. IndInv => NoStaleCooldown
  BY DEF IndInv
<1> QED
  BY <1>1, IndInvHolds, PTL

(***************************************************************************)
(* The reward accounting never subtracts a newer index from an older one.  *)
(***************************************************************************)
THEOREM IndexesStayOrdered == Spec => []IndexesOrdered
<1>1. IndInv => IndexesOrdered
  BY DEF IndInv
<1> QED
  BY <1>1, IndInvHolds, PTL

-----------------------------------------------------------------------------
(* The staked token implements the exit gate. *)

\* In the exit gate, stake is shares entering one account.
LEMMA StakeEnters ==
    ASSUME IndInv, NEW u \in Users, NEW a \in Accounts, NEW n \in Amounts,
           Stake(u, a, n)
    PROVE  Gate!Enter(a)
<1>1. n \in Nat /\ n # 0 /\ 0 <= now
  BY StakedTokenAssumption DEF Stake, IndInv, TypeOK
<1>2. balances \in [Accounts -> Nat] /\ stakersCooldowns \in [Accounts -> Nat]
  BY DEF IndInv, TypeOK
<1> DEFINE next == GetNextCooldownTimestamp(0, n, a)
<1>3. next \in Gate!Postponed(a)
  BY <1>1, NextStampPostponed
<1>4. /\ balances' = [balances EXCEPT ![a] = @ + n]
      /\ stakersCooldowns' = [stakersCooldowns EXCEPT ![a] = next]
      /\ now' = now
  BY DEF Stake
<1> HIDE DEF next
<1>5. balances'[a] = balances[a] + n /\ balances' = [balances EXCEPT ![a] = balances'[a]]
  BY <1>2, <1>4
<1>6. balances'[a] > balances[a]
  BY <1>1, <1>2, <1>5
<1> QED
  BY <1>3, <1>4, <1>5, <1>6 DEF Gate!Enter

\* In the exit gate, redeem is shares leaving inside the unstake window.
LEMMA RedeemLeaves ==
    ASSUME IndInv, NEW u \in Users, NEW a \in Accounts, NEW n \in Limits,
           Redeem(u, a, n)
    PROVE  Gate!Leave(u)
<1>1. n \in Nat /\ n # 0 /\ u \in Accounts
  BY StakedTokenAssumption DEF Redeem, Limits, Accounts
<1>2. /\ balances \in [Accounts -> Nat] /\ stakersCooldowns \in [Accounts -> Nat]
      /\ now \in Nat /\ StartTime <= now /\ NoStaleCooldown
  BY DEF IndInv, TypeOK
<1>3. Gate!Open(u)
  BY <1>1, <1>2, StakedTokenAssumption
     DEF Redeem, InUnstakeWindow, Gate!Open, Gate!Closed
<1> DEFINE m == AmountToRedeem(u, n)
<1>4. m \in 1 .. balances[u]
  <2>1. balances[u] # 0
    BY <1>1, <1>2, <1>3 DEF Gate!Open, NoStaleCooldown
  <2> QED
    BY <1>1, <1>2, <2>1 DEF AmountToRedeem
<1>5. /\ balances' = [balances EXCEPT ![u] = @ - m]
      /\ stakersCooldowns' = [stakersCooldowns EXCEPT ![u] = StampAfter(u, m)]
      /\ now' = now
  BY DEF Redeem
<1> HIDE DEF m
<1>6. balances'[u] = balances[u] - m
  BY <1>1, <1>2, <1>5
<1>7. Gate!Remaining(u) = StampAfter(u, m)
  BY <1>1, <1>2, <1>4, <1>6 DEF Gate!Remaining, StampAfter
<1> QED
  BY <1>3, <1>4, <1>5, <1>7 DEF Gate!Leave

\* In the exit gate, _transfer is shares passing between two accounts.
LEMMA TransferPasses ==
    ASSUME IndInv, NEW u \in Users, NEW a \in Accounts,
           NEW n \in Amounts \cup {0}, TransferToOther(u, a, n)
    PROVE  Gate!Pass(u, a)
<1>1. u \in Accounts /\ n \in Nat /\ u # a
  <2>1. u \in Accounts /\ n \in Nat
    BY StakedTokenAssumption DEF Accounts
  <2>2. u # a
    BY DEF TransferToOther
  <2> QED
    BY <2>1, <2>2
<1>2. /\ balances \in [Accounts -> Nat] /\ stakersCooldowns \in [Accounts -> Nat]
      /\ NoStaleCooldown /\ StampsPast
  BY DEF IndInv, TypeOK
<1> DEFINE next == GetNextCooldownTimestamp(stakersCooldowns[u], n, a)
<1>3. next \in Gate!Postponed(a)
  <2>1. stakersCooldowns[u] \in Nat /\ stakersCooldowns[u] <= now
    BY <1>1, <1>2 DEF StampsPast
  <2>2. balances[a] = 0 /\ n = 0 => stakersCooldowns[a] = 0
    BY <1>2 DEF NoStaleCooldown
  <2> QED
    BY <1>1, <2>1, <2>2, NextStampPostponed
<1>4. /\ stakersCooldowns' =
            [stakersCooldowns EXCEPT ![a] = next, ![u] = StampAfter(u, n)]
      /\ n <= balances[u]
      /\ balances' = Moved(balances, u, a, n)
      /\ now' = now
  BY DEF TransferToOther
<1> HIDE DEF next
<1>5. balances' = [[balances EXCEPT ![u] = @ - n] EXCEPT ![a] = @ + n]
  BY <1>4 DEF Moved
<1>6. n \in 0 .. balances[u]
  BY <1>1, <1>2, <1>4
<1>7. Gate!Remaining(u) = StampAfter(u, n)
  <2>1. balances'[u] = balances[u] - n
    BY <1>1, <1>2, <1>5
  <2> QED
    BY <1>1, <1>2, <2>1 DEF Gate!Remaining, StampAfter
<1>8. stakersCooldowns' =
        [stakersCooldowns EXCEPT ![u] = Gate!Remaining(u), ![a] = next]
  BY <1>1, <1>2, <1>4, <1>7
<1>9. balances' = [balances EXCEPT ![u] = @ - n, ![a] = @ + n]
  BY <1>1, <1>2, <1>5
<1> QED
  BY <1>1, <1>3, <1>4, <1>6, <1>8, <1>9 DEF Gate!Pass

\* Every transaction is a step of the exit gate or leaves it alone.
LEMMA NextGate == IndInv /\ [Next]_vars => [Gate!GateNext]_(Gate!gateVars)
<1> SUFFICES ASSUME IndInv, [Next]_vars PROVE [Gate!GateNext]_(Gate!gateVars)
  OBVIOUS
<1>1. CASE StakeStep
  BY <1>1, StakeEnters DEF StakeStep, Gate!GateNext
<1>2. CASE RedeemStep
  BY <1>2, RedeemLeaves DEF RedeemStep, Gate!GateNext, Accounts
<1>3. CASE CooldownStep
  <2>1. \E u \in Users : Gate!Ask(u)
    BY <1>3 DEF CooldownStep, Cooldown, Gate!Ask
  <2> QED
    BY <2>1 DEF Gate!GateNext, Accounts
<1>4. CASE ClaimStep
  BY <1>4 DEF ClaimStep, ClaimRewards, Gate!gateVars
<1>5. CASE TransferStep
  <2>1. ASSUME NEW u \in Users, NEW n \in Amounts \cup {0}, TransferToSelf(u, n)
        PROVE  UNCHANGED Gate!gateVars
    BY <2>1 DEF TransferToSelf, Gate!gateVars
  <2>2. ASSUME NEW u \in Users, NEW n \in Amounts \cup {0}, NEW a \in Accounts,
               TransferToOther(u, a, n)
        PROVE  Gate!GateNext
    BY <2>2, TransferPasses DEF Gate!GateNext, Accounts
  <2> QED
    BY <1>5, <2>1, <2>2 DEF TransferStep
<1>6. CASE ConfigureStep
  BY <1>6 DEF ConfigureStep, ConfigureAssets, Gate!gateVars
<1>7. CASE Tick
  <2>1. Gate!Wait
    BY <1>7 DEF Tick, Gate!Wait, IndInv, TypeOK
  <2> QED
    BY <2>1 DEF Gate!GateNext
<1>8. CASE UNCHANGED vars
  BY <1>8 DEF vars, Gate!gateVars
<1> QED
  BY <1>1, <1>2, <1>3, <1>4, <1>5, <1>6, <1>7, <1>8 DEF Next

(***************************************************************************)
(* The staked token implements the exit gate: no sequence of stakes,       *)
(* transfers, redeems and cooldowns, for any cooldown and window, brings   *)
(* forward the moment a holder may leave, revives a cooldown that expired  *)
(* or starts one its owner did not ask for.                                *)
(***************************************************************************)
THEOREM StakedTokenImplementsExitGate == Spec => ImplementsExitGate
<1>1. Init => Gate!GateInit
  BY StakedTokenAssumption DEF Init, Gate!GateInit
<1>2. IndInv /\ [Next]_vars => [Gate!GateNext]_(Gate!gateVars)
  BY NextGate
<1> QED
  BY <1>1, <1>2, IndInvHolds, PTL DEF Spec, ImplementsExitGate, Gate!GateSpec

-----------------------------------------------------------------------------
(* Every staked token is backed. *)

\* The accounts are finitely many: the users and one more address.
LEMMA AccountsFinite == IsFiniteSet(Accounts)
  BY StakedTokenAssumption, FS_AddElement DEF Accounts

\* Moving tokens between two owners keeps the total.
LEMMA MovedTotal ==
    ASSUME NEW S, IsFiniteSet(S), NEW ledger \in [S -> Nat],
           NEW from \in S, NEW to \in S, from # to,
           NEW n \in Nat, n <= ledger[from]
    PROVE  Total(Moved(ledger, from, to, n)) = Total(ledger)
<1> DEFINE paid == [ledger EXCEPT ![from] = ledger[from] - n]
<1>1. /\ ledger[from] \in Nat /\ ledger[to] \in Nat
      /\ ledger[from] - n \in Nat /\ ledger[to] + n \in Nat
  OBVIOUS
<1>2. paid \in [S -> Nat] /\ paid[to] = ledger[to]
  BY <1>1
<1>3. Moved(ledger, from, to, n) = [paid EXCEPT ![to] = ledger[to] + n]
  BY DEF Moved
<1>4. Total(paid) = Total(ledger) - ledger[from] + (ledger[from] - n)
  BY <1>1, TotalUpdate
<1> HIDE DEF paid
<1>5. Total([paid EXCEPT ![to] = ledger[to] + n])
        = Total(paid) - paid[to] + (ledger[to] + n)
  BY <1>1, <1>2, TotalUpdate
<1>6. Total(ledger) \in Nat
  BY TotalBounds
<1> QED
  BY <1>1, <1>2, <1>3, <1>4, <1>5, <1>6

\* stake brings in as many tokens as it mints shares.
LEMMA StakeBacked ==
    ASSUME IndInv, SupplyBacked, NEW u \in Users, NEW a \in Accounts,
           NEW n \in Amounts, Stake(u, a, n)
    PROVE  SupplyBacked'
<1>1. /\ n \in Nat /\ u # StakeContract
      /\ u \in PsysHolders /\ StakeContract \in PsysHolders
  BY StakedTokenAssumption DEF PsysHolders, Accounts
<1>2. /\ totalSupply \in Nat /\ balances \in [Accounts -> Nat]
      /\ psys \in [PsysHolders -> Nat]
  BY DEF IndInv, TypeOK
<1>3. /\ balances' = [balances EXCEPT ![a] = balances[a] + n]
      /\ totalSupply' = totalSupply + n
      /\ psys' = Moved(psys, u, StakeContract, n)
  BY DEF Stake
<1>4. psys'[StakeContract] = psys[StakeContract] + n
  BY <1>1, <1>2, <1>3 DEF Moved
<1>5. balances[a] \in Nat /\ balances[a] + n \in Nat
  BY <1>1, <1>2
<1>6. Total(balances') = Total(balances) - balances[a] + (balances[a] + n)
  BY <1>2, <1>3, <1>5, AccountsFinite, TotalUpdate
<1>7. Total(balances) = totalSupply
  BY DEF SupplyBacked
<1>8. totalSupply' = Total(balances')
  BY <1>1, <1>2, <1>3, <1>5, <1>6, <1>7
<1>9. totalSupply' <= psys'[StakeContract]
  BY <1>1, <1>2, <1>3, <1>4 DEF SupplyBacked
<1> QED
  BY <1>8, <1>9 DEF SupplyBacked

\* redeem burns as many shares as it pays out tokens.
LEMMA RedeemBacked ==
    ASSUME IndInv, SupplyBacked, NEW u \in Users, NEW a \in Accounts,
           NEW n \in Limits, Redeem(u, a, n)
    PROVE  SupplyBacked'
<1>1. /\ n \in Nat /\ u \in Accounts
      /\ a \in PsysHolders /\ StakeContract \in PsysHolders
  BY StakedTokenAssumption DEF Limits, PsysHolders, Accounts
<1>2. /\ totalSupply \in Nat /\ balances \in [Accounts -> Nat]
      /\ psys \in [PsysHolders -> Nat]
  BY DEF IndInv, TypeOK
<1> DEFINE m == AmountToRedeem(u, n)
<1>3. m \in Nat /\ m <= balances[u]
  BY <1>1, <1>2 DEF AmountToRedeem
<1>4. /\ balances' = [balances EXCEPT ![u] = balances[u] - m]
      /\ totalSupply' = totalSupply - m
      /\ psys' = Moved(psys, StakeContract, a, m)
  BY DEF Redeem
<1> HIDE DEF m
<1>5. psys'[StakeContract] >= psys[StakeContract] - m
  BY <1>1, <1>2, <1>3, <1>4 DEF Moved
<1>6. balances[u] \in Nat /\ balances[u] - m \in Nat
  BY <1>1, <1>2, <1>3
<1>7. Total(balances') = Total(balances) - balances[u] + (balances[u] - m)
  BY <1>1, <1>2, <1>4, <1>6, AccountsFinite, TotalUpdate
<1>8. Total(balances) = totalSupply /\ totalSupply <= psys[StakeContract]
  BY DEF SupplyBacked
<1>9. totalSupply' = Total(balances')
  BY <1>2, <1>3, <1>4, <1>6, <1>7, <1>8
<1>10. totalSupply' <= psys'[StakeContract]
  <2>1. psys[StakeContract] \in Nat /\ psys'[StakeContract] \in Int
    BY <1>1, <1>2, <1>3, <1>4 DEF Moved
  <2> QED
    BY <1>2, <1>3, <1>4, <1>5, <1>8, <2>1
<1> QED
  BY <1>9, <1>10 DEF SupplyBacked

\* claimRewards moves no staked token and no share.
LEMMA ClaimBacked ==
    ASSUME IndInv, SupplyBacked, NEW u \in Users, NEW a \in Accounts,
           NEW n \in Limits, ClaimRewards(u, a, n)
    PROVE  SupplyBacked'
<1>1. /\ n \in Nat /\ u \in Accounts /\ RewardsVault # StakeContract
      /\ a \in PsysHolders /\ StakeContract \in PsysHolders /\ RewardsVault \in PsysHolders
  BY StakedTokenAssumption DEF Limits, PsysHolders, Accounts
<1>2. /\ psys \in [PsysHolders -> Nat] /\ totalSupply \in Nat
      /\ stakerRewardsToClaim \in [Accounts -> Nat]
  BY DEF IndInv, TypeOK
<1>3. Accrued(u) \in Nat
  BY <1>1, SettleKeeps DEF ClaimRewards
<1> DEFINE m == AmountToClaim(u, n)
<1>4. m \in Nat
  BY <1>1, <1>2, <1>3 DEF AmountToClaim
<1>5. psys' = Moved(psys, RewardsVault, a, m) /\ UNCHANGED <<balances, totalSupply>>
  BY DEF ClaimRewards
<1> HIDE DEF m
<1>6. psys'[StakeContract] >= psys[StakeContract]
  BY <1>1, <1>2, <1>4, <1>5 DEF Moved
<1>7. psys[StakeContract] \in Nat /\ psys'[StakeContract] \in Int
  BY <1>1, <1>2, <1>4, <1>5 DEF Moved
<1> QED
  BY <1>2, <1>5, <1>6, <1>7 DEF SupplyBacked

\* A transfer leaves supply and backing as they are.
LEMMA TransferBacked ==
    ASSUME IndInv, SupplyBacked, NEW u \in Users, NEW a \in Accounts,
           NEW n \in Amounts \cup {0}, TransferToOther(u, a, n)
    PROVE  SupplyBacked'
<1>1. u \in Accounts /\ n \in Nat /\ u # a
  <2>1. u \in Accounts /\ n \in Nat
    BY StakedTokenAssumption DEF Accounts
  <2>2. u # a
    BY DEF TransferToOther
  <2> QED
    BY <2>1, <2>2
<1>2. balances \in [Accounts -> Nat]
  BY DEF IndInv, TypeOK
<1>3. /\ balances' = Moved(balances, u, a, n) /\ n <= balances[u]
      /\ UNCHANGED <<totalSupply, psys>>
  BY DEF TransferToOther
<1>4. Total(balances') = Total(balances)
  BY <1>1, <1>2, <1>3, AccountsFinite, MovedTotal
<1> QED
  BY <1>3, <1>4 DEF SupplyBacked

(***************************************************************************)
(* Every stkPSYS is backed by a PSYS in the contract, whoever stakes,      *)
(* transfers, redeems and claims, and to whatever address.                 *)
(***************************************************************************)
THEOREM SupplyStaysBacked == Spec => []SupplyBacked
<1>1. Init => SupplyBacked
  <2> SUFFICES ASSUME Init PROVE SupplyBacked
    OBVIOUS
  <2>1. Total(balances) = 0
    BY TotalZero DEF Init
  <2>2. psys[StakeContract] = 0
    BY StakedTokenAssumption DEF Init, PsysHolders, Accounts
  <2> QED
    BY <2>1, <2>2 DEF Init, SupplyBacked
<1>2. IndInv /\ SupplyBacked /\ [Next]_vars => SupplyBacked'
  <2> SUFFICES ASSUME IndInv, SupplyBacked, [Next]_vars PROVE SupplyBacked'
    OBVIOUS
  <2>1. CASE StakeStep
    BY <2>1, StakeBacked DEF StakeStep
  <2>2. CASE RedeemStep
    BY <2>2, RedeemBacked DEF RedeemStep
  <2>3. CASE CooldownStep
    BY <2>3 DEF CooldownStep, Cooldown, SupplyBacked
  <2>4. CASE ClaimStep
    BY <2>4, ClaimBacked DEF ClaimStep
  <2>5. CASE TransferStep
    <3>1. ASSUME NEW u \in Users, NEW n \in Amounts \cup {0}, TransferToSelf(u, n)
          PROVE  SupplyBacked'
      BY <3>1 DEF TransferToSelf, SupplyBacked
    <3> QED
      BY <2>5, <3>1, TransferBacked DEF TransferStep
  <2>6. CASE ConfigureStep
    BY <2>6 DEF ConfigureStep, ConfigureAssets, SupplyBacked
  <2>7. CASE Tick
    BY <2>7 DEF Tick, SupplyBacked
  <2>8. CASE UNCHANGED vars
    BY <2>8 DEF vars, SupplyBacked
  <2> QED
    BY <2>1, <2>2, <2>3, <2>4, <2>5, <2>6, <2>7, <2>8 DEF Next
<1> QED
  BY <1>1, <1>2, IndInvHolds, PTL DEF Spec
-----------------------------------------------------------------------------
(* Waiting is never created. *)

\* The rounded average of the stamps of b old and n new shares has waited, over
\* all the shares, less than one second per share more than they had.
LEMMA AverageHasWaited ==
    ASSUME NEW t \in Nat, NEW s \in Nat, NEW e \in Nat, s <= t, e <= t,
           NEW b \in Nat, NEW n \in Nat, n # 0
    PROVE  (b + n) * (t - ((n * e + b * s) \div (n + b)))
             <= b * (t - s) + n * (t - e) + (b + n) - 1
<1> DEFINE m == n * e + b * s
           d == n + b
           q == m \div d
<1>1. /\ n * e \in Nat /\ b * s \in Nat /\ n * t \in Nat /\ b * t \in Nat
      /\ m \in Nat /\ d \in Nat /\ d # 0
  <2>1. n * e \in Nat /\ b * s \in Nat /\ n * t \in Nat /\ b * t \in Nat
    BY ProductNat
  <2> QED
    BY <2>1
<1>2. q \in Nat /\ m < d * (q + 1)
  BY <1>1, QuotientBounds
<1>3. m = n * e + b * s /\ d = n + b
  OBVIOUS
<1> HIDE DEF m, d, q
<1>4. d * (q + 1) = d * q + d /\ d * q \in Nat
  BY <1>1, <1>2, ProductNat
<1>5. (b + n) * (t - q) = b * t + n * t - d * q
  <2>1. (b + n) * (t - q) = (b + n) * t - (b + n) * q /\ (b + n) * t = b * t + n * t
    BY <1>2
  <2> QED
    BY <1>1, <1>2, <1>3, <1>4, <2>1
<1>6. b * (t - s) = b * t - b * s /\ n * (t - e) = n * t - n * e
  OBVIOUS
<1>7. d * q >= m - d + 1
  BY <1>1, <1>2, <1>4
<1>8. b * t + n * t - d * q
        <= (b * t - b * s) + (n * t - n * e) + (b + n) - 1
  BY <1>1, <1>3, <1>4, <1>7
<1>9. (b + n) * (t - q) <= b * (t - s) + n * (t - e) + (b + n) - 1
  BY <1>5, <1>6, <1>8
<1> QED
  BY <1>9 DEF q, m, d

\* How long a share with the stamp "stamp" has waited.
WaitedSince(stamp) ==
    IF stamp = 0 \/ minimalValidCooldownTimestamp > stamp THEN 0 ELSE now - stamp

\* The stamp a receiver gets stands for no more waiting than its shares and the
\* new ones had.  (getNextCooldownTimestamp)
LEMMA NextStampHasWaited ==
    ASSUME IndInv, NEW to \in Accounts, NEW amount \in Nat, amount # 0,
           NEW fromStamp \in Nat, fromStamp <= now
    PROVE  (balances[to] + amount)
             * WaitedSince(GetNextCooldownTimestamp(fromStamp, amount, to))
             <= balances[to] * Waited(to) + amount * WaitedSince(fromStamp)
                + (balances[to] + amount) - 1
<1> DEFINE b == balances[to]
           stamp == stakersCooldowns[to]
           effective == IF minimalValidCooldownTimestamp > fromStamp
                        THEN now ELSE fromStamp
           next == GetNextCooldownTimestamp(fromStamp, amount, to)
           old == Waited(to)
           new == WaitedSince(fromStamp)
           got == WaitedSince(next)
<1>1. /\ now \in Nat /\ stamp \in Nat /\ stamp <= now /\ b \in Nat
      /\ effective \in Nat /\ effective <= now
      /\ minimalValidCooldownTimestamp > 0
  BY StakedTokenAssumption
  DEF IndInv, TypeOK, StampsPast, minimalValidCooldownTimestamp
<1>2. old \in Nat /\ new \in Nat
  BY <1>1 DEF Waited, WaitedSince
<1>3. new = now - effective
  BY <1>1 DEF WaitedSince
<1>4. b * old \in Nat /\ amount * new \in Nat
  BY <1>1, <1>2, ProductNat
<1>5. CASE stamp = 0 \/ minimalValidCooldownTimestamp > stamp
  <2>1. got = 0
    BY <1>5 DEF GetNextCooldownTimestamp, WaitedSince
  <2> HIDE DEF b, old, new, got
  <2>2. (b + amount) * got = 0
    BY <1>1, <2>1
  <2>3. (b + amount) * got <= b * old + amount * new + (b + amount) - 1
    BY <1>1, <1>4, <2>2
  <2> QED
    BY <2>3 DEF b, old, new, got, next
<1>6. CASE ~ (stamp = 0 \/ minimalValidCooldownTimestamp > stamp)
  <2>1. old = now - stamp
    BY <1>6 DEF Waited
  <2>2. CASE effective < stamp
    <3>1. next = stamp
      BY <1>6, <2>2 DEF GetNextCooldownTimestamp
    <3>2. got = old /\ old <= new
      BY <1>1, <1>3, <1>6, <2>1, <2>2, <3>1 DEF WaitedSince
    <3> HIDE DEF b, old, new, got
    <3>3. amount * old <= amount * new /\ amount * old \in Nat
      BY <1>2, <3>2, ProductMonotone, ProductNat
    <3>4. (b + amount) * got = b * old + amount * old
      BY <1>1, <1>2, <3>2
    <3>5. (b + amount) * got <= b * old + amount * new + (b + amount) - 1
      BY <1>1, <1>4, <3>3, <3>4
    <3> QED
      BY <3>5 DEF b, old, new, got, next
  <2>3. CASE ~ (effective < stamp)
    <3>1. next = (amount * effective + b * stamp) \div (amount + b)
      BY <1>6, <2>3 DEF GetNextCooldownTimestamp
    <3>2. stamp <= effective
      BY <1>1, <2>3
    <3>3. next \in stamp .. effective
      <4> HIDE DEF b, stamp, effective, next
      <4>1. b \in Nat /\ amount + b # 0
        BY <1>1
      <4>2. (amount * effective + b * stamp) \div (amount + b) \in stamp .. effective
        BY <1>1, <3>2, <4>1, AverageBetween
      <4> QED
        BY <3>1, <4>2
    <3>4. got = now - next
      <4>1. next \in Nat /\ next <= now /\ next # 0
            /\ ~ (minimalValidCooldownTimestamp > next)
        <5> HIDE DEF b, effective, next
        <5> QED
          BY <1>1, <1>6, <3>3, StakedTokenAssumption DEF minimalValidCooldownTimestamp
      <4> HIDE DEF next
      <4> QED
        BY <4>1 DEF WaitedSince
    <3> HIDE DEF b, stamp, effective, old, new, got, next
    <3>5. (b + amount) * (now - next)
            <= b * (now - stamp) + amount * (now - effective) + (b + amount) - 1
      BY <1>1, <3>1, AverageHasWaited
    <3>6. (b + amount) * got <= b * old + amount * new + (b + amount) - 1
      BY <1>3, <2>1, <3>4, <3>5
    <3> QED
      BY <3>6 DEF b, old, new, got, next
  <2> QED
    BY <2>2, <2>3
<1> QED
  BY <1>5, <1>6

\* The waiting that n shares with the waiting "given" count for, received by
\* somebody whose shares waited "old".
Counted(given, old) == IF given < old THEN given ELSE old

\* The rounded average of two stamps is not later than the exact one.
LEMMA AverageKeepsWaiting ==
    ASSUME NEW t \in Nat, NEW s \in Nat, NEW e \in Nat,
           NEW b \in Nat, NEW n \in Nat, n # 0
    PROVE  b * (t - s) + n * (t - e)
             <= (b + n) * (t - ((n * e + b * s) \div (n + b)))
<1> DEFINE m == n * e + b * s
           d == n + b
           q == m \div d
<1>1. m \in Nat /\ d \in Nat /\ d # 0
  <2>1. n * e \in Nat /\ b * s \in Nat
    BY ProductNat
  <2> QED
    BY <2>1
<1>2. q \in Nat /\ d * q <= m
  <2> HIDE DEF m, d
  <2> QED
    BY <1>1, QuotientBounds
<1>3. m = n * e + b * s /\ d = n + b
  OBVIOUS
<1> HIDE DEF m, d, q
<1>4. (b + n) * (t - q) = b * t + n * t - d * q
  <2>1. (b + n) * (t - q) = (b + n) * t - (b + n) * q /\ (b + n) * t = b * t + n * t
    BY <1>2
  <2>2. (b + n) * q = d * q /\ d * q \in Nat /\ b * t \in Nat /\ n * t \in Nat
    BY <1>1, <1>2, <1>3, ProductNat
  <2> QED
    BY <2>1, <2>2
<1>5. b * (t - s) = b * t - b * s /\ n * (t - e) = n * t - n * e
  OBVIOUS
<1>6. /\ n * e \in Nat /\ b * s \in Nat /\ n * t \in Nat /\ b * t \in Nat
      /\ d * q \in Nat
  BY <1>1, <1>2, ProductNat
<1>7. b * (t - s) + n * (t - e) <= (b + n) * (t - q)
  BY <1>2, <1>3, <1>4, <1>5, <1>6
<1> QED
  BY <1>7 DEF q, m, d

\* The stamp a receiver gets stands for all the waiting that counts.
\* (getNextCooldownTimestamp)
LEMMA NextStampKeepsWaiting ==
    ASSUME IndInv, NEW to \in Accounts, NEW amount \in Nat, amount # 0,
           NEW fromStamp \in Nat, fromStamp <= now
    PROVE  balances[to] * Waited(to)
             + amount * Counted(WaitedSince(fromStamp), Waited(to))
             <= (balances[to] + amount)
                  * WaitedSince(GetNextCooldownTimestamp(fromStamp, amount, to))
<1> DEFINE b == balances[to]
           stamp == stakersCooldowns[to]
           effective == IF minimalValidCooldownTimestamp > fromStamp
                        THEN now ELSE fromStamp
           next == GetNextCooldownTimestamp(fromStamp, amount, to)
           old == Waited(to)
           new == WaitedSince(fromStamp)
           got == WaitedSince(next)
<1>1. /\ now \in Nat /\ stamp \in Nat /\ stamp <= now /\ b \in Nat
      /\ effective \in Nat /\ effective <= now
      /\ minimalValidCooldownTimestamp > 0
  BY StakedTokenAssumption
  DEF IndInv, TypeOK, StampsPast, minimalValidCooldownTimestamp
<1>2. old \in Nat /\ new \in Nat
  BY <1>1 DEF Waited, WaitedSince
<1>3. new = now - effective
  BY <1>1 DEF WaitedSince
<1>4. CASE stamp = 0 \/ minimalValidCooldownTimestamp > stamp
  <2>1. old = 0 /\ got = 0
    BY <1>4 DEF GetNextCooldownTimestamp, Waited, WaitedSince
  <2>2. Counted(new, old) = 0
    BY <1>2, <2>1 DEF Counted
  <2> HIDE DEF b, old, new, got
  <2>3. b * old + amount * Counted(new, old) <= (b + amount) * got
    BY <1>1, <2>1, <2>2
  <2> QED
    BY <2>3 DEF b, old, new, got, next
<1>5. CASE ~ (stamp = 0 \/ minimalValidCooldownTimestamp > stamp)
  <2>1. old = now - stamp
    BY <1>5 DEF Waited
  <2>2. CASE effective < stamp
    <3>1. next = stamp
      BY <1>5, <2>2 DEF GetNextCooldownTimestamp
    <3>2. got = old
      BY <1>5, <2>1, <3>1 DEF WaitedSince
    <3>3. Counted(new, old) = old
      BY <1>1, <1>3, <2>1, <2>2 DEF Counted
    <3> HIDE DEF b, old, new, got
    <3>4. b * old + amount * Counted(new, old) <= (b + amount) * got
      BY <1>1, <1>2, <3>2, <3>3
    <3> QED
      BY <3>4 DEF b, old, new, got, next
  <2>3. CASE ~ (effective < stamp)
    <3>1. next = (amount * effective + b * stamp) \div (amount + b)
      BY <1>5, <2>3 DEF GetNextCooldownTimestamp
    <3>2. stamp <= effective
      BY <1>1, <2>3
    <3>3. next \in stamp .. effective
      <4> HIDE DEF b, stamp, effective, next
      <4>1. b \in Nat /\ amount + b # 0
        BY <1>1
      <4>2. (amount * effective + b * stamp) \div (amount + b) \in stamp .. effective
        BY <1>1, <3>2, <4>1, AverageBetween
      <4> QED
        BY <3>1, <4>2
    <3>4. got = now - next
      <4>1. next # 0 /\ ~ (minimalValidCooldownTimestamp > next)
        <5> HIDE DEF b, effective, next
        <5> QED
          BY <1>1, <1>5, <3>3, StakedTokenAssumption DEF minimalValidCooldownTimestamp
      <4> HIDE DEF next
      <4> QED
        BY <4>1 DEF WaitedSince
    <3>5. Counted(new, old) = new
      BY <1>1, <1>3, <2>1, <3>2 DEF Counted
    <3> HIDE DEF b, stamp, effective, old, new, got, next
    <3>6. b * (now - stamp) + amount * (now - effective) <= (b + amount) * (now - next)
      BY <1>1, <3>1, AverageKeepsWaiting
    <3>7. b * old + amount * Counted(new, old) <= (b + amount) * got
      BY <1>3, <2>1, <3>4, <3>5, <3>6
    <3> QED
      BY <3>7 DEF b, old, new, got, next
  <2> QED
    BY <2>2, <2>3
<1> QED
  BY <1>4, <1>5

\* What WaitingNotCreated asks of the account a in a step.
NoneLent(a) ==
    balances'[a] * Waited(a)'
      <= balances[a] * Waited(a)
         + (balances'[a] - balances[a]) * WaitedByGivers(a)
         + balances'[a] - 1

\* What WaitingNotLost asks of the account a in a step.
NoneLost(a) ==
    balances[a] * Waited(a)
      + (balances'[a] - balances[a]) * Counted(WaitedByGivers(a), Waited(a))
      <= balances'[a] * Waited(a)'

\* In this step a receives n shares whose owner has the stamp fromStamp.
Receipt(a, n, fromStamp) ==
    /\ n # 0 /\ fromStamp <= now /\ now' = now
    /\ balances'[a] = balances[a] + n
    /\ stakersCooldowns'[a] = GetNextCooldownTimestamp(fromStamp, n, a)
    /\ WaitedByGivers(a) = WaitedSince(fromStamp)

\* Such a receipt lends a nothing, and a loses nothing in it.
LEMMA ReceiptKeepsWaiting ==
    ASSUME IndInv, NEW a \in Accounts, NEW n \in Nat, NEW fromStamp \in Nat,
           Receipt(a, n, fromStamp)
    PROVE  NoneLent(a) /\ NoneLost(a)
<1> DEFINE next == GetNextCooldownTimestamp(fromStamp, n, a)
           b == balances[a]
           got == WaitedSince(next)
           given == WaitedSince(fromStamp)
           old == Waited(a)
<1>1. Waited(a)' = got
  BY DEF Receipt, Waited, WaitedSince, minimalValidCooldownTimestamp
<1>2. (b + n) * got <= b * old + n * given + (b + n) - 1
  BY NextStampHasWaited DEF Receipt
<1>3. b \in Nat /\ old \in Nat /\ given \in Nat /\ got \in Int
  <2>1. got \in Nat
    <3>1. next \in Nat /\ next <= now
      BY NextStampPostponed DEF Receipt
    <3> HIDE DEF next
    <3> QED
      BY <3>1 DEF WaitedSince, IndInv, TypeOK
  <2> QED
    BY <2>1 DEF Receipt, IndInv, TypeOK, Waited, WaitedSince, StampsPast
<1>4. balances'[a] = b + n
  BY DEF Receipt
<1>5. WaitedByGivers(a) = given
  BY DEF Receipt
<1>6. b * old + n * Counted(given, old) <= (b + n) * got
  BY NextStampKeepsWaiting DEF Receipt
<1> HIDE DEF got, given, old, b
<1>7. b * old \in Nat /\ n * given \in Nat
  BY <1>3, ProductNat
<1>8. (b + n) - b = n
  BY <1>3
<1>9. (b + n) * got <= b * old + ((b + n) - b) * given + (b + n) - 1
  BY <1>2, <1>8
<1>10. b * old + ((b + n) - b) * Counted(given, old) <= (b + n) * got
  BY <1>6, <1>8
<1> QED
  BY <1>1, <1>4, <1>5, <1>9, <1>10 DEF NoneLent, NoneLost, b, old

\* Whoever has more shares after a step has received them.  (stake, transfer)
LEMMA GainsAreReceipts ==
    IndInv /\ [Next]_vars =>
        \A a \in Accounts : balances'[a] > balances[a] /\ now' = now =>
            \E n \in Nat, fromStamp \in Nat : Receipt(a, n, fromStamp)
<1> DEFINE Received(b) == \E n \in Nat, fromStamp \in Nat : Receipt(b, n, fromStamp)
<1> SUFFICES ASSUME IndInv, [Next]_vars, NEW a \in Accounts,
                    balances'[a] > balances[a], now' = now
             PROVE  Received(a)
  OBVIOUS
<1>1. /\ balances \in [Accounts -> Nat] /\ stakersCooldowns \in [Accounts -> Nat]
      /\ now \in Nat /\ StampsPast /\ Users \subseteq Accounts
  BY DEF IndInv, TypeOK, Accounts
<1>2. ASSUME NEW u \in Users, NEW c \in Accounts, NEW n \in Amounts, Stake(u, c, n)
      PROVE  Received(a)
  <2>1. n \in Nat /\ n # 0
    BY <1>2, StakedTokenAssumption DEF Stake
  <2>2. /\ balances' = [balances EXCEPT ![c] = @ + n]
        /\ stakersCooldowns' = [stakersCooldowns EXCEPT
                                    ![c] = GetNextCooldownTimestamp(0, n, c)]
    BY <1>2 DEF Stake
  <2>3. a = c /\ balances'[a] = balances[a] + n
    BY <1>1, <2>1, <2>2
  <2>4. stakersCooldowns'[a] = GetNextCooldownTimestamp(0, n, a)
    BY <1>1, <2>2, <2>3
  <2>5. \A g \in Accounts : ~ (balances'[g] < balances[g])
    BY <1>1, <2>1, <2>2
  <2>6. WaitedByGivers(a) = WaitedSince(0)
    BY <2>5 DEF WaitedByGivers, WaitedSince
  <2> QED
    BY <1>1, <2>1, <2>3, <2>4, <2>6 DEF Receipt
<1>3. ASSUME NEW u \in Users, NEW c \in Accounts, NEW n \in Amounts \cup {0},
             TransferToOther(u, c, n)
      PROVE  Received(a)
  <2>1. n \in Nat /\ u \in Accounts
    BY <1>1, StakedTokenAssumption
  <2>2. /\ u # c
        /\ balances' = [[balances EXCEPT ![u] = @ - n] EXCEPT ![c] = @ + n]
        /\ stakersCooldowns' = [stakersCooldowns EXCEPT
                ![c] = GetNextCooldownTimestamp(stakersCooldowns[u], n, c),
                ![u] = StampAfter(u, n)]
    BY <1>3 DEF TransferToOther, Moved
  <2>3. a = c /\ n # 0 /\ balances'[a] = balances[a] + n
    BY <1>1, <2>1, <2>2
  <2>4. stakersCooldowns'[a] = GetNextCooldownTimestamp(stakersCooldowns[u], n, a)
    BY <1>1, <2>1, <2>2, <2>3
  <2>5. {g \in Accounts : balances'[g] < balances[g]} = {u}
    BY <1>1, <2>1, <2>2, <2>3
  <2>6. WaitedByGivers(a) = Waited(u)
    BY <2>5 DEF WaitedByGivers
  <2>7. Waited(u) = WaitedSince(stakersCooldowns[u])
    BY DEF Waited, WaitedSince
  <2>8. stakersCooldowns[u] \in Nat /\ stakersCooldowns[u] <= now
    BY <1>1, <2>1 DEF StampsPast
  <2> QED
    BY <1>1, <2>1, <2>3, <2>4, <2>6, <2>7, <2>8 DEF Receipt
<1>4. ASSUME NEW u \in Users, NEW c \in Accounts, NEW n \in Limits, Redeem(u, c, n)
      PROVE  FALSE
  <2> DEFINE m == AmountToRedeem(u, n)
  <2>1. m \in Nat
    BY <1>1, StakedTokenAssumption DEF AmountToRedeem, Limits
  <2>2. balances' = [balances EXCEPT ![u] = @ - m]
    BY <1>4 DEF Redeem
  <2> HIDE DEF m
  <2> QED
    BY <1>1, <2>1, <2>2
<1>5. CASE UNCHANGED balances
  BY <1>1, <1>5
<1>6. CASE StakeStep
  BY <1>2, <1>6 DEF StakeStep
<1>7. CASE RedeemStep
  BY <1>4, <1>7 DEF RedeemStep
<1>8. CASE TransferStep
  <2>1. ASSUME NEW u \in Users, NEW n \in Amounts \cup {0}, TransferToSelf(u, n)
        PROVE  UNCHANGED balances
    BY <2>1 DEF TransferToSelf
  <2> QED
    BY <1>3, <1>5, <1>8, <2>1 DEF TransferStep
<1>9. CASE CooldownStep \/ ClaimStep \/ ConfigureStep \/ Tick \/ UNCHANGED vars
  BY <1>5, <1>9 DEF CooldownStep, Cooldown, ClaimStep, ClaimRewards,
                    ConfigureStep, ConfigureAssets, Tick, vars
<1> QED
  BY <1>6, <1>7, <1>8, <1>9 DEF Next

\* No step lends the waiting of one share to another, or loses it.
LEMMA NextKeepsWaiting ==
    IndInv /\ [Next]_vars =>
        \A a \in Accounts :
            balances'[a] > balances[a] /\ now' = now => NoneLent(a) /\ NoneLost(a)
BY GainsAreReceipts, ReceiptKeepsWaiting

(***************************************************************************)
(* Waiting is never created, whatever the amounts, the stamps, the         *)
(* cooldown and the window: the average of getNextCooldownTimestamp gives  *)
(* the shares of a receiver no second more than they had together, but for *)
(* the rounding.                                                           *)
(***************************************************************************)
THEOREM WaitingNeverCreated == Spec => WaitingNotCreated
<1>1. IndInv /\ [Next]_vars =>
        [\A a \in Accounts :
            balances'[a] > balances[a] /\ now' = now =>
                balances'[a] * Waited(a)'
                  <= balances[a] * Waited(a)
                     + (balances'[a] - balances[a]) * WaitedByGivers(a)
                     + balances'[a] - 1]_vars
  BY NextKeepsWaiting DEF NoneLent
<1> QED
  BY <1>1, IndInvHolds, PTL DEF Spec, WaitingNotCreated
(***************************************************************************)
(* Nor is waiting lost in a receipt, whatever the amounts, the stamps, the *)
(* cooldown and the window: the average of getNextCooldownTimestamp is     *)
(* rounded down, towards more waiting, and a receiver who waits less than  *)
(* the sender keeps its own stamp.                                         *)
(***************************************************************************)
THEOREM WaitingNeverLost == Spec => WaitingNotLost
<1>1. IndInv /\ [Next]_vars =>
        [\A a \in Accounts :
            balances'[a] > balances[a] /\ now' = now =>
                LET waited  == Waited(a)
                    counted == IF WaitedByGivers(a) < waited
                               THEN WaitedByGivers(a) ELSE waited
                IN  balances[a] * waited + (balances'[a] - balances[a]) * counted
                      <= balances'[a] * Waited(a)']_vars
  BY NextKeepsWaiting DEF NoneLost, Counted
<1> QED
  BY <1>1, IndInvHolds, PTL DEF Spec, WaitingNotLost
-----------------------------------------------------------------------------
(* Nothing but the window keeps a stake in. *)

(***************************************************************************)
(* What redeem asks besides the window, for any account and any amount:    *)
(* that no subtraction of the reward accounting fails, that the supply     *)
(* covers what is burnt, and that the contract has the PSYS it pays out.   *)
(***************************************************************************)
ExitIsOpen ==
    \A u \in Accounts, n \in Nat :
        /\ CanAccrue(u)
        /\ AmountToRedeem(u, n) <= totalSupply
        /\ AmountToRedeem(u, n) <= psys[StakeContract]
(***************************************************************************)
(* What redeem of all that u has leaves: everything settled, no stkPSYS    *)
(* and no cooldown of u's, and exactly as much PSYS paid to u.             *)
(***************************************************************************)
ExitOutcome(u) ==
    <<now, Settled(u), [balances EXCEPT ![u] = 0], totalSupply - balances[u],
      [stakerRewardsToClaim EXCEPT ![u] = @ + Accrued(u)],
      [stakersCooldowns EXCEPT ![u] = 0],
      Moved(psys, StakeContract, u, balances[u])>>

\* Every reachable state has it: both parts are proved of Spec above.
ExitInv == IndInv /\ SupplyBacked

LEMMA ExitInvHolds == Spec => []ExitInv
<1>1. IndInv /\ SupplyBacked => ExitInv
  BY DEF ExitInv
<1> QED
  BY <1>1, IndInvHolds, SupplyStaysBacked, PTL

LEMMA ExitInvOpens == ExitInv => ExitIsOpen
<1> SUFFICES ASSUME IndInv, SupplyBacked, NEW u \in Accounts, NEW n \in Nat
             PROVE  /\ CanAccrue(u)
                    /\ AmountToRedeem(u, n) <= totalSupply
                    /\ AmountToRedeem(u, n) <= psys[StakeContract]
  BY DEF ExitIsOpen, ExitInv
<1>1. /\ now \in Nat /\ totalSupply \in Nat /\ balances \in [Accounts -> Nat]
      /\ SettledAt(asset, Accounts, now) /\ psys[StakeContract] \in Nat
  BY IndInvSettled DEF IndInv, TypeOK, PsysHolders, Accounts
<1>2. CanAccrue(u)
  <2> DEFINE i == GetAssetIndex(asset, totalSupply, now)
  <2>1. i \in Nat /\ asset.index <= i
    BY <1>1, IndexGrows DEF SettledAt
  <2>2. asset.users[u] \in Nat /\ asset.index \in Nat /\ asset.users[u] <= asset.index
    BY <1>1 DEF SettledAt, AssetData
  <2> HIDE DEF i
  <2>3. asset.users[u] <= i
    BY <2>1, <2>2
  <2> QED
    BY <2>3 DEF CanAccrue, RewardsDefined, i
<1>3. balances[u] <= totalSupply /\ totalSupply <= psys[StakeContract]
  BY <1>1, AccountsFinite, TotalBounds DEF SupplyBacked
<1>4. AmountToRedeem(u, n) \in Nat /\ AmountToRedeem(u, n) <= balances[u]
  BY <1>1 DEF AmountToRedeem
<1> QED
  BY <1>1, <1>2, <1>3, <1>4

(***************************************************************************)
(* In every reachable state all the requires of redeem hold but the two on *)
(* the caller's cooldown: the accounting never blocks an exit, and the     *)
(* contract can pay for every one.  (redeem, _updateUserAssetInternal,     *)
(* _burn)                                                                  *)
(***************************************************************************)
THEOREM NothingElseBlocksExit == Spec => []ExitIsOpen
<1> QED
  BY ExitInvHolds, ExitInvOpens, PTL

(***************************************************************************)
(* A holder in the unstake window who asks for at least what he has is     *)
(* never refused, and gets exactly it: from a reachable state (ExitInv),   *)
(* the redeem is the step to ExitOutcome and to nothing else.  A step to a *)
(* given state can always be taken, so that this is what HolderCanExit     *)
(* says with ENABLED, for every holder, amount, window and history.        *)
(* (redeem, _updateCurrentUnclaimedRewards, _burn)                         *)
(***************************************************************************)
THEOREM WholeStakeComesOut ==
    ASSUME ExitInv, NEW u \in Accounts, balances[u] # 0, InUnstakeWindow(u),
           NEW n \in Nat, balances[u] <= n
    PROVE  Redeem(u, u, n) <=> vars' = ExitOutcome(u)
<1>1. balances \in [Accounts -> Nat] /\ totalSupply \in Nat
  BY DEF ExitInv, IndInv, TypeOK
<1>2. AmountToRedeem(u, n) = balances[u] /\ n # 0
  BY <1>1 DEF AmountToRedeem
<1>3. /\ CanAccrue(u) /\ balances[u] <= totalSupply
      /\ balances[u] <= psys[StakeContract]
  BY <1>2, ExitInvOpens DEF ExitIsOpen
<1>4. /\ [balances EXCEPT ![u] = @ - balances[u]] = [balances EXCEPT ![u] = 0]
      /\ [stakersCooldowns EXCEPT ![u] = StampAfter(u, balances[u])]
            = [stakersCooldowns EXCEPT ![u] = 0]
  <2>1. balances[u] - balances[u] = 0 /\ StampAfter(u, balances[u]) = 0
    BY <1>1 DEF StampAfter
  <2> QED
    BY <2>1
<1> DEFINE m == balances[u]
           Leaves ==
              /\ asset' = Settled(u)
              /\ stakerRewardsToClaim' = [stakerRewardsToClaim EXCEPT ![u] = @ + Accrued(u)]
              /\ balances' = [balances EXCEPT ![u] = @ - m]
              /\ totalSupply' = totalSupply - m
              /\ stakersCooldowns' = [stakersCooldowns EXCEPT ![u] = StampAfter(u, m)]
              /\ psys' = Moved(psys, StakeContract, u, m)
              /\ now' = now
<1>5. Redeem(u, u, n) <=> Leaves
  BY <1>2, <1>3 DEF Redeem, UpdateCurrentUnclaimedRewards
<1>6. vars' = ExitOutcome(u) <=> Leaves
  BY <1>4 DEF ExitOutcome, vars
<1> QED
  BY <1>5, <1>6

=============================================================================
