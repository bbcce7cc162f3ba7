------------------------- MODULE StakedPSYSV3Theorems -------------------------
(***************************************************************************)
(* Proofs about the whole token, for every set of users, both revisions    *)
(* and an upgrade at any moment.                                           *)
(***************************************************************************)
EXTENDS StakedPSYSV3, StakedTokenTheorems

\* The delegation component again, with what is proved about it.
Proved == INSTANCE GovernancePowerTheorems WITH
            blockNumber <- now, FirstBlock <- StartTime, MaxBlock <- MaxTime,
            Amounts <- 0 .. MAX_UINT256, MaxSupply <- MAX_UINT256

\* What the governance module and the lemmas it uses assume of their constants
\* holds for those given to them.
LEMMA GovernanceAssumptionHolds ==
    /\ Proved!GovernanceAssumption /\ Proved!DistributionAssumption
    /\ ZeroAddress \notin Accounts
<1>1. ZeroAddress \notin Accounts
  BY StakedPSYSV3Assumption DEF PsysHolders
<1>2. IsFiniteSet(Accounts)
  BY AccountsFinite
<1>3. Proved!IsFiniteSet(Accounts)
  BY <1>2 DEF IsFiniteSet, Proved!IsFiniteSet
<1> QED
  BY <1>1, <1>3, StakedTokenAssumption, DistributionAssumption
  DEF Proved!GovernanceAssumption, Proved!DistributionAssumption

-----------------------------------------------------------------------------
(* Power and Proved are two instances of the same definitions. *)

\* The sums of the two instances of the governance module agree.
LEMMA SameSums ==
    ASSUME NEW f
    PROVE  Proved!Total(f) = Total(f) /\ Power!Total(f) = Total(f)
<1>1. Proved!Units(f) = Units(f) /\ Power!Units(f) = Units(f)
  BY DEF Units, Power!Units, Proved!Units
<1>2. Proved!Total(f) = Total(f)
  BY <1>1, Zenon DEF Total, Proved!Total, Cardinality, Proved!Cardinality
<1>3. Power!Total(f) = Total(f)
  BY <1>1, Zenon DEF Total, Power!Total, Cardinality, Power!Cardinality
<1> QED
  BY <1>2, <1>3

\* _getDelegatee is the same operator in both instances.
LEMMA SameDelegatee ==
    ASSUME NEW t, NEW a
    PROVE  Power!GetDelegatee(t, a) = Proved!GetDelegatee(t, a)
  BY DEF Power!GetDelegatee, Proved!GetDelegatee

\* The recorded power is the same operator in both instances.
LEMMA SamePower ==
    ASSUME NEW t, NEW a
    PROVE  Power!PreviousPower(t, a) = Proved!PreviousPower(t, a)
  BY DEF Power!PreviousPower, Proved!PreviousPower, Power!Latest, Proved!Latest

\* _moveDelegatesByType is the same operator in both instances.
LEMMA SameMove ==
    ASSUME NEW t, NEW from, NEW to, NEW n
    PROVE  /\ Power!MoveDelegates(t, from, to, n) = Proved!MoveDelegates(t, from, to, n)
           /\ Power!CanMoveDelegates(t, from, to, n)
                <=> Proved!CanMoveDelegates(t, from, to, n)
<1>1. ASSUME NEW list, NEW v
      PROVE  Power!WriteSnapshot(list, now, v) = Proved!WriteSnapshot(list, now, v)
  BY DEF Power!WriteSnapshot, Proved!WriteSnapshot, Power!Latest, Proved!Latest
<1>2. Power!MoveDelegates(t, from, to, n) = Proved!MoveDelegates(t, from, to, n)
  BY <1>1, SamePower DEF Power!MoveDelegates, Proved!MoveDelegates
<1>3. Power!CanMoveDelegates(t, from, to, n) <=> Proved!CanMoveDelegates(t, from, to, n)
  BY SamePower DEF Power!CanMoveDelegates, Proved!CanMoveDelegates
<1> QED
  BY <1>2, <1>3

\* _beforeTokenTransfer is the same operator in both instances.
LEMMA SameHook ==
    ASSUME NEW from, NEW to, NEW n, Power!BeforeTokenTransfer(from, to, n)
    PROVE  Proved!BeforeTokenTransfer(from, to, n)
  BY SameMove, SameDelegatee DEF Power!BeforeTokenTransfer, Proved!BeforeTokenTransfer

\* _delegateByType is the same operator in both instances.
LEMMA SameDelegation ==
    ASSUME NEW a, NEW d, NEW types, Power!DelegateTypes(a, d, types)
    PROVE  Proved!DelegateTypes(a, d, types)
  BY SameMove, SameDelegatee DEF Power!DelegateTypes, Proved!DelegateTypes

\* The invariant proved of the governance module is the one run here.
LEMMA SamePowerIsDelegated == Proved!PowerIsDelegated => PowerIsDelegatedV3
<1>1. ASSUME NEW t, NEW d PROVE Power!DelegatedTo(t, d) = Proved!DelegatedTo(t, d)
  BY SameDelegatee DEF Power!DelegatedTo, Proved!DelegatedTo
<1> QED
  BY <1>1, SamePower, SameSums
  DEF PowerIsDelegatedV3, Power!PowerIsDelegated, Proved!PowerIsDelegated

-----------------------------------------------------------------------------
(* The token behind the hook is the token. *)

\* Every step of either revision is a step of the staked token or leaves it alone.
LEMMA V3NextToken == [V3Next]_V3Vars => [Next]_vars
<1> SUFFICES ASSUME [V3Next]_V3Vars PROVE [Next]_vars
  OBVIOUS
<1>1. CASE StakeV3Step
  BY <1>1 DEF StakeV3Step, StakeV3, Next, StakeStep
<1>2. CASE RedeemV3Step
  BY <1>2 DEF RedeemV3Step, RedeemV3, Next, RedeemStep
<1>3. CASE TransferV3Step
  <2>1. TransferStep
    BY <1>3 DEF TransferV3Step, TransferV3, TransferStep
  <2> QED
    BY <2>1 DEF Next
<1>4. CASE DelegateV3Step
  <2>1. UNCHANGED vars
    BY <1>4 DEF DelegateV3Step, DelegateV3, Power!DelegateTypes, vars
  <2> QED
    BY <2>1
<1>5. CASE Upgrade
  BY <1>5 DEF Upgrade
<1>6. CASE CooldownStep \/ ClaimStep \/ ConfigureStep \/ Tick
  BY <1>6 DEF Next
<1>7. CASE UNCHANGED V3Vars
  BY <1>7 DEF V3Vars, vars
<1> QED
  BY <1>1, <1>2, <1>3, <1>4, <1>5, <1>6, <1>7 DEF V3Next

(***************************************************************************)
(* In either revision and across the upgrade the hook only restricts the   *)
(* token: what is proved about StakedToken holds of StakedPSYS and         *)
(* StakedPSYSV3 too.                                                       *)
(***************************************************************************)
THEOREM V3ImplementsToken == V3Spec => Spec
<1>1. V3Init => Init
  BY DEF V3Init
<1> QED
  BY <1>1, V3NextToken, PTL DEF V3Spec, Spec

-----------------------------------------------------------------------------
(* The hook of either revision. *)

\* What revision 1 leaves to revision 2.
RevisionOne ==
    /\ \A t \in DelegationTypes, a \in Accounts : delegates[t][a] = ZeroAddress
    /\ \A t \in DelegationTypes \ {VOTING_POWER}, a \in Accounts : snapshots[t][a] = <<>>

V3Inv ==
    /\ IndInv
    /\ Proved!GovInv
    /\ revision \in {1, 2}
    /\ revision = 1 => RevisionOne

\* A ledger in which only one account has anything.
LEMMA OwnTotal ==
    ASSUME NEW S, IsFiniteSet(S), NEW f \in [S -> Nat], NEW d \in S
    PROVE  Total([a \in S |-> IF a = d THEN f[a] ELSE 0]) = f[d]
<1> DEFINE z == [a \in S |-> 0]
           g == [a \in S |-> IF a = d THEN f[a] ELSE 0]
<1>1. /\ z \in [S -> Nat] /\ g \in [S -> Nat] /\ z[d] = 0 /\ g[d] = f[d] /\ f[d] \in Nat
      /\ \A p \in S \ {d} : g[p] = z[p]
  OBVIOUS
<1>2. Total(z) = 0
  BY TotalZero
<1> HIDE DEF z, g
<1>3. Total(g) = Total(z) - z[d] + g[d]
  BY <1>1, TotalChange
<1>4. Total(g) = f[d]
  BY <1>1, <1>2, <1>3
<1> QED
  BY <1>4 DEF g

\* What a write leaves in the list of an account.
LEMMA WriteLatest ==
    ASSUME NEW list \in Seq(Snapshot), NEW block \in Nat, NEW v \in Nat
    PROVE  /\ WriteSnapshot(list, block, v) \in Seq(Snapshot)
           /\ WriteSnapshot(list, block, v) # <<>>
           /\ Latest(WriteSnapshot(list, block, v)).value = v
<1>1. /\ Snapshot = Proved!Snapshot
      /\ \A l : Latest(l) = Proved!Latest(l)
  BY DEF Snapshot, Proved!Snapshot, Latest, Proved!Latest
<1>2. WriteSnapshot(list, block, v) = Proved!WriteSnapshot(list, block, v)
  BY <1>1 DEF WriteSnapshot, Proved!WriteSnapshot
<1>3. /\ Proved!WriteSnapshot(list, block, v) \in Seq(Proved!Snapshot)
      /\ Proved!WriteSnapshot(list, block, v) # <<>>
      /\ Proved!Latest(Proved!WriteSnapshot(list, block, v)).value = v
  BY <1>1, GovernanceAssumptionHolds, Proved!WriteSnapshotLatest
<1> QED
  BY <1>1, <1>2, <1>3

(***************************************************************************)
(* Revision 1: the balance of every account is its latest snapshot, which  *)
(* is the voting power that revision 2 will find.                          *)
(***************************************************************************)
LEMMA HookOneKeeps ==
    ASSUME V3Inv, IndInv', revision = 1, NEW amount \in Nat,
           NEW from \in Accounts \cup {ZeroAddress},
           NEW to \in Accounts \cup {ZeroAddress},
           from \in Accounts => amount <= balances[from],
           BeforeTokenTransfer(from, to, amount),
           balances' = Proved!AfterTransfer(from, to, amount),
           now' = now
    PROVE  V3Inv'
<1>1. /\ UNCHANGED <<revision, delegates>>
      /\ snapshots' = [t \in DelegationTypes |-> SnapshotBalances(t, from, to, amount)]
  BY DEF BeforeTokenTransfer
<1>2. /\ Proved!GovTypeOK /\ Proved!PowerIsDelegated /\ RevisionOne
      /\ balances \in [Accounts -> Nat] /\ balances' \in [Accounts -> Nat]
      /\ now \in Nat
  BY DEF V3Inv, Proved!GovInv, IndInv, TypeOK
<1>3. ASSUME NEW t \in DelegationTypes, NEW a \in Accounts
      PROVE  /\ delegates'[t][a] = ZeroAddress
             /\ snapshots[t][a] \in Seq(Snapshot)
             /\ snapshots'[t][a] \in Seq(Snapshot)
             /\ t # VOTING_POWER => snapshots'[t][a] = <<>>
             /\ snapshots'[t][a] = <<>> \/ Latest(snapshots'[t][a]).value = balances'[a]
  <2>1. delegates'[t][a] = ZeroAddress
    BY <1>1, <1>2 DEF RevisionOne
  <2>2. snapshots[t][a] \in Seq(Snapshot)
    BY <1>2 DEF Proved!GovTypeOK, Snapshot, Proved!Snapshot
  <2>3. snapshots[t][a] = <<>> \/ Latest(snapshots[t][a]).value = balances[a]
    <3>1. Proved!PreviousPower(t, a) = balances[a]
      <4>1. Proved!DelegatedTo(t, a) = [b \in Accounts |-> IF b = a THEN balances[b] ELSE 0]
        BY <1>2 DEF Proved!DelegatedTo, Proved!GetDelegatee, RevisionOne
      <4>2. Proved!Total(Proved!DelegatedTo(t, a)) = balances[a]
        BY <1>2, <4>1, OwnTotal, SameSums, AccountsFinite
      <4> QED
        BY <1>2, <4>2 DEF Proved!PowerIsDelegated
    <3> QED
      BY <3>1 DEF Proved!PreviousPower, Latest, Proved!Latest
  <2>4. CASE snapshots'[t][a] = snapshots[t][a] /\ balances'[a] = balances[a]
    BY <1>2, <2>1, <2>2, <2>3, <2>4 DEF RevisionOne
  <2>5. ASSUME NEW v \in Nat, t = VOTING_POWER, balances'[a] = v,
               snapshots'[t][a] = WriteSnapshot(snapshots[t][a], now, v)
        PROVE  /\ snapshots'[t][a] \in Seq(Snapshot)
               /\ snapshots'[t][a] # <<>>
               /\ Latest(snapshots'[t][a]).value = balances'[a]
    <3>1. now \in Nat
      BY <1>2
    <3>2. /\ WriteSnapshot(snapshots[t][a], now, v) \in Seq(Snapshot)
          /\ WriteSnapshot(snapshots[t][a], now, v) # <<>>
          /\ Latest(WriteSnapshot(snapshots[t][a], now, v)).value = v
      BY <2>2, <3>1, WriteLatest
    <3> QED
      BY <2>5, <3>2
  <2>6. ASSUME from # to, t = VOTING_POWER, a \in {from, to}
        PROVE  snapshots'[t][a] = WriteSnapshot(snapshots[t][a], now, balances'[a])
    <3>1. snapshots'[t] = SnapshotBalances(t, from, to, amount)
      BY <1>1
    <3>2. balances'[a] = IF a = from THEN balances[a] - amount ELSE balances[a] + amount
      BY <2>6 DEF Proved!AfterTransfer
    <3>3. snapshots'[t][a] =
            IF a = from THEN WriteSnapshot(snapshots[t][a], now, balances[a] - amount)
                        ELSE WriteSnapshot(snapshots[t][a], now, balances[a] + amount)
      BY <2>6, <3>1 DEF SnapshotBalances
    <3> QED
      BY <3>2, <3>3
  <2>7. CASE from # to /\ t = VOTING_POWER /\ a \in {from, to}
    <3>1. /\ balances'[a] \in Nat
          /\ snapshots'[t][a] = WriteSnapshot(snapshots[t][a], now, balances'[a])
      BY <1>2, <2>6, <2>7
    <3> QED
      BY <2>1, <2>2, <2>5, <2>7, <3>1
  <2>8. CASE from = to \/ a \notin {from, to}
    <3>1. snapshots'[t][a] = snapshots[t][a] /\ balances'[a] = balances[a]
      BY <1>1, <2>8 DEF SnapshotBalances, Proved!AfterTransfer
    <3> QED
      BY <2>4, <3>1
  <2>9. CASE t # VOTING_POWER
    <3>1. snapshots'[t][a] = snapshots[t][a]
      BY <1>1, <2>9 DEF SnapshotBalances
    <3> QED
      BY <1>2, <2>1, <2>2, <2>9, <3>1 DEF RevisionOne
  <2> QED
    BY <2>7, <2>8, <2>9
<1>4. Proved!GovTypeOK'
  <2>1. snapshots' \in [DelegationTypes -> [Accounts -> Seq(Snapshot)]]
    <3>1. ASSUME NEW t \in DelegationTypes
          PROVE  snapshots'[t] \in [Accounts -> Seq(Snapshot)]
      <4>1. snapshots[t] \in [Accounts -> Seq(Snapshot)]
        BY <1>2 DEF Proved!GovTypeOK, Snapshot, Proved!Snapshot
      <4>2. snapshots'[t] = [a \in Accounts |-> snapshots'[t][a]]
        BY <1>1, <4>1 DEF SnapshotBalances
      <4> QED
        BY <1>3, <4>2
    <3> QED
      BY <1>1, <3>1
  <2> QED
    BY <1>1, <1>2, <2>1 DEF Proved!GovTypeOK, Snapshot, Proved!Snapshot
<1>5. Proved!PowerIsDelegated'
  <2> SUFFICES ASSUME NEW t \in DelegationTypes, NEW d \in Accounts
               PROVE  Proved!PreviousPower(t, d)' = Proved!Total(Proved!DelegatedTo(t, d)')
    BY DEF Proved!PowerIsDelegated
  <2>1. Proved!DelegatedTo(t, d)' = [a \in Accounts |-> IF a = d THEN balances'[a] ELSE 0]
    BY <1>3 DEF Proved!DelegatedTo, Proved!GetDelegatee
  <2>2. Proved!Total(Proved!DelegatedTo(t, d)') = balances'[d]
    BY <1>2, <2>1, OwnTotal, SameSums, AccountsFinite
  <2> QED
    BY <1>3, <2>2 DEF Proved!PreviousPower, Latest, Proved!Latest
<1>6. Proved!DelegationsHaveSnapshots'
  BY <1>3 DEF Proved!DelegationsHaveSnapshots
<1>7. RevisionOne'
  BY <1>3 DEF RevisionOne
<1> QED
  BY <1>1, <1>4, <1>5, <1>6, <1>7 DEF V3Inv, Proved!GovInv

(***************************************************************************)
(* The hook of the revision that runs keeps the invariant, if the balances *)
(* then change as the hook was told.                                       *)
(***************************************************************************)
LEMMA HookKeeps ==
    ASSUME V3Inv, IndInv', NEW amount \in Nat,
           NEW from \in Accounts \cup {ZeroAddress},
           NEW to \in Accounts \cup {ZeroAddress},
           from \in Accounts => amount <= balances[from],
           BeforeTokenTransfer(from, to, amount),
           balances' = Proved!AfterTransfer(from, to, amount),
           now' = now
    PROVE  V3Inv'
<1>1. CASE revision = 1
  BY <1>1, HookOneKeeps
<1>2. CASE revision = 2
  <2>1. /\ UNCHANGED <<now, delegates>> /\ revision' = 2
        /\ Power!BeforeTokenTransfer(from, to, amount)
    BY <1>2 DEF BeforeTokenTransfer
  <2>2. Proved!BeforeTokenTransfer(from, to, amount)
    BY <2>1, SameHook
  <2>3. Proved!GovInv
    BY DEF V3Inv
  <2>4. Proved!GovInv'
    BY <2>1, <2>2, <2>3, GovernanceAssumptionHolds, Proved!HookKeepsInv
  <2> QED
    BY <2>1, <2>4 DEF V3Inv
<1> QED
  BY <1>1, <1>2 DEF V3Inv

\* Nothing the delegation depends on changes.
LEMMA DelegationUntouched ==
    ASSUME V3Inv, IndInv', UNCHANGED <<balances, delegates, snapshots>>,
           revision' = revision \/ revision' = 2
    PROVE  V3Inv'
<1>1. Proved!GovTypeOK /\ Proved!PowerIsDelegated /\ Proved!DelegationsHaveSnapshots
  BY DEF V3Inv, Proved!GovInv
<1>2. Proved!GovTypeOK'
  BY <1>1 DEF Proved!GovTypeOK, IndInv, TypeOK
<1>3. Proved!PowerIsDelegated'
  <2>1. ASSUME NEW t \in DelegationTypes, NEW d \in Accounts
        PROVE  /\ Proved!PreviousPower(t, d)' = Proved!PreviousPower(t, d)
               /\ Proved!DelegatedTo(t, d)' = Proved!DelegatedTo(t, d)
    BY DEF Proved!PreviousPower, Proved!DelegatedTo, Proved!GetDelegatee
  <2> QED
    BY <1>1, <2>1 DEF Proved!PowerIsDelegated
<1>4. Proved!DelegationsHaveSnapshots'
  BY <1>1 DEF Proved!DelegationsHaveSnapshots
<1>5. revision' \in {1, 2} /\ (revision' = 1 => RevisionOne')
  BY DEF V3Inv, RevisionOne
<1> QED
  BY <1>2, <1>3, <1>4, <1>5 DEF V3Inv, Proved!GovInv

-----------------------------------------------------------------------------
(* The whole token. *)

\* The upgraded token nobody holds satisfies the invariant.
LEMMA V3InitInv == V3Init => V3Inv
<1> SUFFICES ASSUME V3Init PROVE V3Inv
  OBVIOUS
<1>1. IndInv
  BY InitIndInv DEF V3Init
<1>2. Proved!GovInv
  <2>1. Proved!GovInit
    BY DEF V3Init, Init, Proved!GovInit
  <2> QED
    BY <2>1, GovernanceAssumptionHolds, Proved!GovInitInv
<1>3. revision \in {1, 2} /\ RevisionOne
  BY StakedPSYSV3Assumption DEF V3Init, RevisionOne
<1> QED
  BY <1>1, <1>2, <1>3 DEF V3Inv

\* The hook runs and the balances change as it was told.
HookRuns(from, to, amount) ==
    /\ from \in Accounts => amount <= balances[from]
    /\ BeforeTokenTransfer(from, to, amount)
    /\ balances' = Proved!AfterTransfer(from, to, amount)
    /\ now' = now

V3Moves ==
    \E amount \in Nat, from \in Accounts \cup {ZeroAddress},
       to \in Accounts \cup {ZeroAddress} : HookRuns(from, to, amount)

V3Delegations ==
    \E u \in Users, a \in Accounts, types \in SUBSET DelegationTypes :
        DelegateV3(u, a, types)

\* Steps that neither the balances nor the delegation notice.
V3Others ==
    /\ UNCHANGED <<balances, delegates, snapshots>>
    /\ revision' = revision \/ revision' = 2
    /\ now' = now \/ now' = now + 1

\* What a transaction of either revision is to the delegation.
LEMMA V3Steps == V3Inv /\ [V3Next]_V3Vars => V3Moves \/ V3Delegations \/ V3Others
<1> SUFFICES ASSUME V3Inv, [V3Next]_V3Vars
             PROVE  V3Moves \/ V3Delegations \/ V3Others
  OBVIOUS
<1>0. /\ balances \in [Accounts -> Nat]
      /\ ZeroAddress \notin Accounts
      /\ Users \subseteq Accounts
  BY GovernanceAssumptionHolds DEF V3Inv, IndInv, TypeOK, Accounts
<1>1. ASSUME NEW u \in Users, NEW a \in Accounts, NEW n \in Amounts, StakeV3(u, a, n)
      PROVE  V3Moves
  <2>1. n \in Nat
    BY StakedTokenAssumption
  <2>2. balances' = [balances EXCEPT ![a] = @ + n] /\ now' = now
    BY <1>1 DEF StakeV3, Stake
  <2>3. balances' = Proved!AfterTransfer(ZeroAddress, a, n)
    BY <1>0, <2>2 DEF Proved!AfterTransfer
  <2>4. HookRuns(ZeroAddress, a, n)
    BY <1>0, <1>1, <2>2, <2>3 DEF StakeV3, HookRuns
  <2> QED
    BY <2>1, <2>4 DEF V3Moves
<1>2. ASSUME NEW u \in Users, NEW a \in Accounts, NEW n \in Limits, RedeemV3(u, a, n)
      PROVE  V3Moves
  <2> DEFINE m == AmountToRedeem(u, n)
  <2>1. m \in Nat /\ m <= balances[u] /\ u \in Accounts
    BY <1>0, StakedTokenAssumption DEF AmountToRedeem, Limits
  <2>2. balances' = [balances EXCEPT ![u] = @ - m] /\ now' = now
    BY <1>2 DEF RedeemV3, Redeem
  <2>3. BeforeTokenTransfer(u, ZeroAddress, m)
    BY <1>2 DEF RedeemV3
  <2> HIDE DEF m
  <2>4. balances' = Proved!AfterTransfer(u, ZeroAddress, m)
    BY <1>0, <2>1, <2>2 DEF Proved!AfterTransfer
  <2>5. HookRuns(u, ZeroAddress, m)
    BY <2>1, <2>2, <2>3, <2>4 DEF HookRuns
  <2> QED
    BY <2>1, <2>5 DEF V3Moves
<1>3. ASSUME NEW u \in Users, NEW a \in Accounts, NEW n \in Amounts \cup {0},
             TransferV3(u, a, n)
      PROVE  V3Moves
  <2>1. n \in Nat /\ u \in Accounts
    BY <1>0, StakedTokenAssumption
  <2>2. n <= balances[u] /\ now' = now /\ BeforeTokenTransfer(u, a, n)
    BY <1>3 DEF TransferV3, TransferToSelf, TransferToOther
  <2>3. balances' = Proved!AfterTransfer(u, a, n)
    <3>1. CASE u = a
      <4>1. balances' = balances
        BY <1>3, <3>1 DEF TransferV3, TransferToSelf
      <4> QED
        BY <1>0, <3>1, <4>1 DEF Proved!AfterTransfer
    <3>2. CASE u # a
      <4>1. balances' = [[balances EXCEPT ![u] = @ - n] EXCEPT ![a] = @ + n]
        BY <1>3, <3>2 DEF TransferV3, TransferToOther, Moved
      <4> QED
        BY <1>0, <2>1, <3>2, <4>1 DEF Proved!AfterTransfer
    <3> QED
      BY <3>1, <3>2
  <2>4. HookRuns(u, a, n)
    BY <2>2, <2>3 DEF HookRuns
  <2> QED
    BY <2>1, <2>4 DEF V3Moves
<1>4. CASE DelegateV3Step
  BY <1>4 DEF DelegateV3Step, V3Delegations
<1>5. CASE Upgrade
  BY <1>5 DEF Upgrade, vars, V3Others
<1>6. CASE (CooldownStep \/ ClaimStep \/ ConfigureStep \/ Tick) /\ UNCHANGED governanceVars
  BY <1>6 DEF CooldownStep, Cooldown, ClaimStep, ClaimRewards, ConfigureStep,
              ConfigureAssets, Tick, governanceVars, V3Others
<1>7. CASE UNCHANGED V3Vars
  BY <1>7 DEF V3Vars, V3Others
<1> QED
  BY <1>1, <1>2, <1>3, <1>4, <1>5, <1>6, <1>7
  DEF V3Next, StakeV3Step, RedeemV3Step, TransferV3Step

\* Every transaction of either revision keeps the invariant.
LEMMA V3NextInv == V3Inv /\ [V3Next]_V3Vars => V3Inv'
<1> SUFFICES ASSUME V3Inv, [V3Next]_V3Vars PROVE V3Inv'
  OBVIOUS
<1>1. IndInv /\ IndInv' /\ Users \subseteq Accounts
  <2>1. IndInv
    BY DEF V3Inv
  <2> QED
    BY <2>1, V3NextToken, NextIndInv DEF Accounts
<1>2. CASE V3Moves
  BY <1>1, <1>2, HookKeeps DEF V3Moves, HookRuns
<1>3. ASSUME NEW u \in Users, NEW a \in Accounts, NEW types \in SUBSET DelegationTypes,
             DelegateV3(u, a, types)
      PROVE  V3Inv'
  <2>1. revision' = 2
    BY <1>3 DEF DelegateV3
  <2>2. Proved!DelegateTypes(u, a, types)
    BY <1>3, SameDelegation DEF DelegateV3
  <2>3. Proved!GovInv'
    BY <1>1, <2>2, GovernanceAssumptionHolds, Proved!DelegateKeepsInv DEF V3Inv
  <2> QED
    BY <1>1, <2>1, <2>3 DEF V3Inv
<1>4. CASE V3Others
  BY <1>1, <1>4, DelegationUntouched DEF V3Others
<1> QED
  BY <1>2, <1>3, <1>4, V3Steps DEF V3Delegations

(***************************************************************************)
(* One token, one vote, for any number of users, with the token's own      *)
(* rules for who may mint, burn and transfer, and across an upgrade at any *)
(* moment: the votes of revision 2 start as the balances that revision 1   *)
(* recorded.                                                               *)
(***************************************************************************)
THEOREM TokensAreVotes == V3Spec => []PowerIsDelegatedV3
<1>1. V3Inv => PowerIsDelegatedV3
  BY SamePowerIsDelegated DEF V3Inv, Proved!GovInv
<1> QED
  BY <1>1, V3InitInv, V3NextInv, PTL DEF V3Spec
-----------------------------------------------------------------------------
(* The past, in both revisions and across the upgrade. *)

\* The binary search is the same operator in both instances.
LEMMA SameSearch ==
    ASSUME NEW list, NEW balance, NEW b
    PROVE  Power!SearchByBlockNumber(list, balance, b)
                = Proved!SearchByBlockNumber(list, balance, b)
<1>1. Power!BinarySearch(list, b) = Proved!BinarySearch(list, b)
  BY DEF Power!BinarySearch, Proved!BinarySearch, Power!SearchRound, Proved!SearchRound
<1> QED
  BY <1>1 DEF Power!SearchByBlockNumber, Proved!SearchByBlockNumber,
              Power!Latest, Proved!Latest

\* getPowerAtBlock is the same operator in both instances, before and after a step.
LEMMA SameAnswers ==
    ASSUME NEW d, NEW b, NEW t
    PROVE  /\ Power!GetPowerAtBlock(d, b, t) = Proved!GetPowerAtBlock(d, b, t)
           /\ Power!GetPowerAtBlock(d, b, t)' = Proved!GetPowerAtBlock(d, b, t)'
  BY SameSearch DEF Power!GetPowerAtBlock, Proved!GetPowerAtBlock

\* What revision 1 writes, seen from the delegation component.
LEMMA SameWrite ==
    ASSUME NEW list, NEW block, NEW v
    PROVE  WriteSnapshot(list, block, v) = Proved!WriteSnapshot(list, block, v)
  BY DEF WriteSnapshot, Proved!WriteSnapshot, Latest, Proved!Latest

(***************************************************************************)
(* The hook of revision 1 leaves the list of an account alone, as its      *)
(* balance, or writes to it.                                               *)
(***************************************************************************)
LEMMA HookOneWrites ==
    ASSUME V3Inv, IndInv', revision = 1, NEW amount \in Nat,
           NEW from \in Accounts \cup {ZeroAddress},
           NEW to \in Accounts \cup {ZeroAddress},
           BeforeTokenTransfer(from, to, amount),
           balances' = Proved!AfterTransfer(from, to, amount),
           NEW t \in DelegationTypes, NEW d \in Accounts
    PROVE  \/ snapshots'[t][d] = snapshots[t][d]
              /\ (t = VOTING_POWER => balances'[d] = balances[d])
           \/ \E v \in Nat :
                snapshots'[t][d] = Proved!WriteSnapshot(snapshots[t][d], now, v)
<1>1. snapshots'[t] = SnapshotBalances(t, from, to, amount)
  BY DEF BeforeTokenTransfer
<1>2. balances' \in [Accounts -> Nat]
  BY DEF IndInv, TypeOK
<1>3. CASE t # VOTING_POWER
  BY <1>1, <1>3 DEF SnapshotBalances
<1>4. CASE from = to \/ d \notin {from, to}
  BY <1>1, <1>4 DEF SnapshotBalances, Proved!AfterTransfer
<1>5. CASE t = VOTING_POWER /\ from # to /\ d \in {from, to}
  <2>1. balances'[d] = IF d = from THEN balances[d] - amount ELSE balances[d] + amount
    BY <1>5 DEF Proved!AfterTransfer
  <2>2. snapshots'[t][d] =
          IF d = from THEN WriteSnapshot(snapshots[t][d], now, balances[d] - amount)
                      ELSE WriteSnapshot(snapshots[t][d], now, balances[d] + amount)
    BY <1>1, <1>5 DEF SnapshotBalances
  <2>3. snapshots'[t][d] = WriteSnapshot(snapshots[t][d], now, balances'[d])
    BY <2>1, <2>2
  <2>4. snapshots'[t][d] = Proved!WriteSnapshot(snapshots[t][d], now, balances'[d])
    BY <2>3, SameWrite
  <2> QED
    BY <1>2, <2>4
<1> QED
  BY <1>3, <1>4, <1>5

(***************************************************************************)
(* What an answer about the past rests on: snapshots in the order of their *)
(* blocks, and no balance without a voting snapshot.  The proposition      *)
(* power of an upgraded token lacks the second part.                       *)
(***************************************************************************)
PastInv ==
    /\ Proved!SnapshotsOrdered
    /\ \A t \in DelegationTypes \cap {VOTING_POWER} : Proved!NothingUnrecorded(t)

\* Before the first stake there is nothing to record.
LEMMA V3InitPastInv == V3Init => PastInv
  BY DEF V3Init, Init, PastInv, Proved!SnapshotsOrdered, Proved!InBlockOrder,
         Proved!NothingUnrecorded

\* The hook of revision 1 keeps it.
LEMMA HookOneKeepsPastInv ==
    ASSUME V3Inv, IndInv', PastInv, revision = 1, NEW amount \in Nat,
           NEW from \in Accounts \cup {ZeroAddress},
           NEW to \in Accounts \cup {ZeroAddress},
           BeforeTokenTransfer(from, to, amount),
           balances' = Proved!AfterTransfer(from, to, amount),
           now' = now
    PROVE  PastInv'
<1>1. now \in Nat /\ Proved!GovTypeOK
  BY DEF V3Inv, Proved!GovInv, IndInv, TypeOK
<1>2. ASSUME NEW t \in DelegationTypes, NEW d \in Accounts
      PROVE  /\ Proved!InBlockOrder(snapshots'[t][d], now)
             /\ t = VOTING_POWER /\ snapshots'[t][d] = <<>> => balances'[d] = 0
  <2>1. /\ snapshots[t][d] \in Seq(Proved!Snapshot)
        /\ Proved!InBlockOrder(snapshots[t][d], now)
        /\ t = VOTING_POWER /\ snapshots[t][d] = <<>> => balances[d] = 0
    BY <1>1 DEF PastInv, Proved!SnapshotsOrdered, Proved!NothingUnrecorded,
                Proved!GovTypeOK
  <2>2. CASE /\ snapshots'[t][d] = snapshots[t][d]
             /\ t = VOTING_POWER => balances'[d] = balances[d]
    BY <2>1, <2>2
  <2>3. ASSUME NEW v \in Nat,
               snapshots'[t][d] = Proved!WriteSnapshot(snapshots[t][d], now, v)
        PROVE  Proved!InBlockOrder(snapshots'[t][d], now) /\ snapshots'[t][d] # <<>>
    <3>1. Proved!InBlockOrder(Proved!WriteSnapshot(snapshots[t][d], now, v), now)
      BY <1>1, <2>1, GovernanceAssumptionHolds, Proved!WriteSnapshotInOrder
    <3>2. Proved!WriteSnapshot(snapshots[t][d], now, v) # <<>>
      BY <1>1, <2>1, GovernanceAssumptionHolds, Proved!WriteSnapshotLatest
    <3> QED
      BY <2>3, <3>1, <3>2
  <2> QED
    BY <2>2, <2>3, HookOneWrites
<1> QED
  BY <1>2 DEF PastInv, Proved!SnapshotsOrdered, Proved!NothingUnrecorded

\* The hook of either revision keeps it.
LEMMA HookKeepsPastInv ==
    ASSUME V3Inv, IndInv', PastInv, NEW amount \in Nat,
           NEW from \in Accounts \cup {ZeroAddress},
           NEW to \in Accounts \cup {ZeroAddress},
           from \in Accounts => amount <= balances[from],
           BeforeTokenTransfer(from, to, amount),
           balances' = Proved!AfterTransfer(from, to, amount),
           now' = now
    PROVE  PastInv'
<1>1. CASE revision = 1
  BY <1>1, HookOneKeepsPastInv
<1>2. CASE revision = 2
  <2>1. Proved!BeforeTokenTransfer(from, to, amount)
    BY <1>2, SameHook DEF BeforeTokenTransfer
  <2>2. Proved!GovInv /\ Proved!GovTypeOK /\ Proved!SnapshotsOrdered
    BY DEF V3Inv, PastInv, Proved!GovInv
  <2>3. Proved!SnapshotsOrdered'
    BY <2>1, <2>2, GovernanceAssumptionHolds, Proved!HookKeepsOrder
  <2>4. ASSUME NEW t \in DelegationTypes \cap {VOTING_POWER}
        PROVE  Proved!NothingUnrecorded(t)'
    <3>1. t \in DelegationTypes /\ Proved!NothingUnrecorded(t)
      BY DEF PastInv
    <3> QED
      BY <2>1, <2>2, <3>1, GovernanceAssumptionHolds, Proved!HookKeepsNothing
  <2> QED
    BY <2>3, <2>4 DEF PastInv
<1> QED
  BY <1>1, <1>2 DEF V3Inv

\* A voting answer about a past block after the hook of either revision.
LEMMA HookKeepsAnswers ==
    ASSUME V3Inv, IndInv', PastInv, PastInv', NEW amount \in Nat,
           NEW from \in Accounts \cup {ZeroAddress},
           NEW to \in Accounts \cup {ZeroAddress},
           BeforeTokenTransfer(from, to, amount),
           balances' = Proved!AfterTransfer(from, to, amount),
           NEW t \in DelegationTypes \cap {VOTING_POWER}, NEW d \in Accounts,
           NEW b \in Nat, b < now
    PROVE  Proved!GetPowerAtBlock(d, b, t)' = Proved!GetPowerAtBlock(d, b, t)
<1>0. /\ t \in DelegationTypes /\ t = VOTING_POWER
      /\ Proved!GovInv /\ Proved!GovTypeOK /\ Proved!SnapshotsOrdered
      /\ Proved!NothingUnrecorded(t) /\ Proved!NothingUnrecorded(t)'
  BY DEF V3Inv, PastInv, Proved!GovInv
<1>1. CASE revision = 1
  <2>1. /\ snapshots[t][d] \in Seq(Proved!Snapshot) /\ now \in Nat
        /\ Proved!InBlockOrder(snapshots[t][d], now)
        /\ snapshots[t][d] = <<>> => balances[d] = 0
    BY <1>0 DEF Proved!SnapshotsOrdered, Proved!NothingUnrecorded, Proved!GovTypeOK
  <2>2. CASE snapshots'[t][d] = snapshots[t][d] /\ balances'[d] = balances[d]
    BY <2>2 DEF Proved!GetPowerAtBlock
  <2>3. ASSUME NEW v \in Nat,
               snapshots'[t][d] = Proved!WriteSnapshot(snapshots[t][d], now, v)
        PROVE  Proved!GetPowerAtBlock(d, b, t)' = Proved!GetPowerAtBlock(d, b, t)
    <3>1. Proved!SearchByBlockNumber(Proved!WriteSnapshot(snapshots[t][d], now, v),
                                     balances'[d], b)
            = Proved!SearchByBlockNumber(snapshots[t][d], balances[d], b)
      BY <2>1, GovernanceAssumptionHolds, Proved!WriteKeepsPast
    <3> QED
      BY <2>3, <3>1 DEF Proved!GetPowerAtBlock
  <2> QED
    BY <1>0, <1>1, <2>2, <2>3, HookOneWrites
<1>2. CASE revision = 2
  <2>1. Proved!BeforeTokenTransfer(from, to, amount)
    BY <1>2, SameHook DEF BeforeTokenTransfer
  <2> QED
    BY <1>0, <2>1, GovernanceAssumptionHolds, Proved!HookKeepsPast
<1> QED
  BY <1>1, <1>2 DEF V3Inv
\* Every transaction of either revision keeps what the past rests on.
LEMMA V3NextPastInv == V3Inv /\ V3Inv' /\ PastInv /\ [V3Next]_V3Vars => PastInv'
<1> SUFFICES ASSUME V3Inv, V3Inv', PastInv, [V3Next]_V3Vars PROVE PastInv'
  OBVIOUS
<1>0. /\ Proved!GovInv /\ Proved!GovTypeOK /\ Proved!SnapshotsOrdered
      /\ Users \subseteq Accounts
  BY DEF V3Inv, PastInv, Proved!GovInv, Accounts
<1>1. CASE V3Moves
  BY <1>1, HookKeepsPastInv DEF V3Moves, HookRuns, V3Inv
<1>2. ASSUME NEW u \in Accounts, NEW a \in Accounts, NEW types \in SUBSET DelegationTypes,
             DelegateV3(u, a, types)
      PROVE  PastInv'
  <2>1. Proved!DelegateTypes(u, a, types)
    BY <1>2, SameDelegation DEF DelegateV3
  <2>2. Proved!SnapshotsOrdered'
    BY <1>0, <2>1, GovernanceAssumptionHolds, Proved!DelegateKeepsOrder
  <2>3. ASSUME NEW t \in DelegationTypes \cap {VOTING_POWER}
        PROVE  Proved!NothingUnrecorded(t)'
    <3>1. t \in DelegationTypes /\ Proved!NothingUnrecorded(t)
      BY DEF PastInv
    <3> QED
      BY <1>0, <2>1, <3>1, GovernanceAssumptionHolds, Proved!DelegateKeepsNothing
  <2> QED
    BY <2>2, <2>3 DEF PastInv
<1>3. CASE V3Others
  <2>1. Proved!SnapshotsOrdered'
    <3>1. CASE now' = now
      BY <1>0, <1>3, <3>1 DEF V3Others, Proved!SnapshotsOrdered
    <3>2. CASE now' = now + 1
      BY <1>0, <1>3, <3>2, GovernanceAssumptionHolds, Proved!BlockKeepsOrder DEF V3Others
    <3> QED
      BY <1>3, <3>1, <3>2 DEF V3Others
  <2>2. ASSUME NEW t \in DelegationTypes \cap {VOTING_POWER}
        PROVE  Proved!NothingUnrecorded(t)'
    BY <1>3 DEF V3Others, PastInv, Proved!NothingUnrecorded
  <2> QED
    BY <2>1, <2>2 DEF PastInv
<1> QED
  BY <1>0, <1>1, <1>2, <1>3, V3Steps DEF V3Delegations

\* What no step changes: the voting answers about the blocks that end before its own.
VotesKept ==
    \A t \in DelegationTypes \cap {VOTING_POWER}, d \in Accounts, b \in 0 .. now :
        b < now' => Power!GetPowerAtBlock(d, b, t)' = Power!GetPowerAtBlock(d, b, t)

LEMMA V3NextAnswers ==
    V3Inv /\ V3Inv' /\ PastInv /\ PastInv' /\ [V3Next]_V3Vars => VotesKept
<1> SUFFICES ASSUME V3Inv, V3Inv', PastInv, PastInv', [V3Next]_V3Vars,
                    NEW t \in DelegationTypes \cap {VOTING_POWER}, NEW d \in Accounts,
                    NEW b \in 0 .. now, b < now'
             PROVE  Proved!GetPowerAtBlock(d, b, t)' = Proved!GetPowerAtBlock(d, b, t)
  BY SameAnswers DEF VotesKept
<1>0. /\ Proved!GovInv /\ Proved!GovTypeOK /\ Proved!SnapshotsOrdered
      /\ Proved!NothingUnrecorded(t) /\ Proved!NothingUnrecorded(t)'
      /\ t \in DelegationTypes /\ b \in Nat /\ IndInv'
      /\ Users \subseteq Accounts
  BY StakedTokenAssumption
  DEF V3Inv, PastInv, Proved!GovInv, Accounts, IndInv, TypeOK
<1>1. CASE V3Moves
  BY <1>0, <1>1, HookKeepsAnswers DEF V3Moves, HookRuns
<1>2. ASSUME NEW u \in Accounts, NEW a \in Accounts, NEW types \in SUBSET DelegationTypes,
             DelegateV3(u, a, types)
      PROVE  Proved!GetPowerAtBlock(d, b, t)' = Proved!GetPowerAtBlock(d, b, t)
  <2>1. Proved!DelegateTypes(u, a, types) /\ now' = now
    BY <1>2, SameDelegation DEF DelegateV3
  <2> QED
    BY <1>0, <2>1, GovernanceAssumptionHolds, Proved!DelegateKeepsPast
<1>3. CASE V3Others
  BY <1>3 DEF V3Others, Proved!GetPowerAtBlock
<1> QED
  BY <1>0, <1>1, <1>2, <1>3, V3Steps DEF V3Delegations

(***************************************************************************)
(* The voting power at the end of a past block never changes, through any  *)
(* history of either revision and an upgrade at any moment: the lists that *)
(* revision 1 wrote are in order and leave nobody with tokens unrecorded,  *)
(* and the hook of revision 2 keeps them so.  (_votingSnapshots,           *)
(* getPowerAtBlock)                                                        *)
(***************************************************************************)
THEOREM PastVotesNeverChange == V3Spec => PastVotesFixed
<1>1. V3Init => V3Inv /\ PastInv
  BY V3InitInv, V3InitPastInv
<1>2. V3Inv /\ PastInv /\ [V3Next]_V3Vars => V3Inv' /\ PastInv'
  BY V3NextInv, V3NextPastInv
<1>3. ASSUME VotesKept
      PROVE  [\A t \in DelegationTypes \cap {VOTING_POWER}, d \in Accounts,
                 b \in StartTime .. now :
                b < now' => Power!GetPowerAtBlock(d, b, t)'
                                = Power!GetPowerAtBlock(d, b, t)]_V3Vars
  BY <1>3, StakedTokenAssumption DEF VotesKept
<1> QED
  BY <1>1, <1>2, <1>3, V3NextAnswers, PTL DEF V3Spec, PastVotesFixed

-----------------------------------------------------------------------------
(* The register of votes. *)

\* The present block is counted: the voting power answered for it is what is
\* delegated now.
VotesCounted ==
    \A t \in DelegationTypes \cap {VOTING_POWER}, d \in Accounts :
        Power!GetPowerAtBlock(d, now, t) = Votes!Count(t, d)

LEMMA VotesAreCounted == V3Inv /\ PastInv => VotesCounted
<1> SUFFICES ASSUME V3Inv, PastInv,
                    NEW t \in DelegationTypes \cap {VOTING_POWER}, NEW d \in Accounts
             PROVE  Power!GetPowerAtBlock(d, now, t) = Votes!Count(t, d)
  BY DEF VotesCounted
<1>1. /\ t \in DelegationTypes
      /\ Proved!GovTypeOK /\ Proved!PowerIsDelegated /\ Proved!SnapshotsOrdered
  BY DEF V3Inv, PastInv, Proved!GovInv
<1>2. Power!GetPowerAtBlock(d, now, t) = Proved!PreviousPower(t, d)
  BY <1>1, SameAnswers, GovernanceAssumptionHolds, Proved!AnswerNow
<1>3. Proved!PreviousPower(t, d) = Total(Proved!DelegatedTo(t, d))
  BY <1>1, SameSums DEF Proved!PowerIsDelegated
<1>4. ASSUME NEW a \in Accounts
      PROVE  Votes!SpeaksFor(t, d, a) <=> Proved!GetDelegatee(t, a) = d
  BY GovernanceAssumptionHolds DEF Votes!SpeaksFor, Proved!GetDelegatee
<1>5. [a \in Accounts |-> IF Votes!SpeaksFor(t, d, a) THEN balances[a] ELSE 0]
        = Proved!DelegatedTo(t, d)
  BY <1>4 DEF Proved!DelegatedTo
<1>6. ASSUME NEW f PROVE Votes!Total(f) = Total(f)
  <2>1. Votes!Units(f) = Units(f)
    BY DEF Units, Votes!Units
  <2> QED
    BY <2>1, Zenon DEF Total, Votes!Total, Cardinality, Votes!Cardinality
<1> QED
  BY <1>2, <1>3, <1>5, <1>6 DEF Votes!Count

\* The voting power answered for the blocks so far.
VoteAnswers ==
    [t \in DelegationTypes \cap {VOTING_POWER} |-> [d \in Accounts |->
        [b \in 0 .. now |-> Power!GetPowerAtBlock(d, b, t)]]]

\* A step within a block only counts the present block again.
LEMMA StepRecountsVotes ==
    ASSUME VotesCounted', VotesKept, now \in Nat, now' = now
    PROVE  Votes!Recount
<1> DEFINE counted(t, d) == [VoteAnswers[t][d] EXCEPT ![now] = Votes!Count(t, d)']
<1>1. ASSUME NEW t \in DelegationTypes \cap {VOTING_POWER}, NEW d \in Accounts,
             NEW b \in 0 .. now
      PROVE  Power!GetPowerAtBlock(d, b, t)' = counted(t, d)[b]
  <2>1. VoteAnswers[t][d] = [c \in 0 .. now |-> Power!GetPowerAtBlock(d, c, t)]
    BY DEF VoteAnswers
  <2>2. CASE b < now
    <3>1. Power!GetPowerAtBlock(d, b, t)' = Power!GetPowerAtBlock(d, b, t)
      BY <2>2 DEF VotesKept
    <3> QED
      BY <2>1, <2>2, <3>1
  <2>3. CASE b = now
    <3>1. Power!GetPowerAtBlock(d, b, t)' = Votes!Count(t, d)'
      <4>1. Power!GetPowerAtBlock(d, b, t)' = Power!GetPowerAtBlock(d, now, t)'
        BY <2>3
      <4> QED
        BY <4>1 DEF VotesCounted
    <3> QED
      BY <2>1, <2>3, <3>1
  <2> QED
    BY <2>2, <2>3
<1>2. ASSUME NEW t \in DelegationTypes \cap {VOTING_POWER}, NEW d \in Accounts
      PROVE  counted(t, d) = [b \in 0 .. now |-> Power!GetPowerAtBlock(d, b, t)']
  <2>1. DOMAIN counted(t, d) = 0 .. now
    BY DEF VoteAnswers
  <2>2. counted(t, d) = [b \in 0 .. now |-> counted(t, d)[b]]
    BY <2>1
  <2> HIDE DEF counted
  <2> QED
    BY <1>1, <2>2
<1>3. VoteAnswers' = [t \in DelegationTypes \cap {VOTING_POWER} |->
                        [d \in Accounts |-> counted(t, d)]]
  <2> HIDE DEF counted
  <2> QED
    BY <1>2 DEF VoteAnswers
<1> QED
  BY <1>3 DEF Votes!Recount, VoteAnswers

(***************************************************************************)
(* The whole token implements the register of votes, for any users and an  *)
(* upgrade at any moment: revision 2 answers for every block, also one of  *)
(* revision 1, with what was staked at its end and delegated to the        *)
(* account asked for.                                                      *)
(***************************************************************************)
THEOREM VotesImplemented == V3Spec => ImplementsVotes
<1>1. V3Init => V3Inv /\ PastInv
  BY V3InitInv, V3InitPastInv
<1>2. V3Inv /\ PastInv /\ [V3Next]_V3Vars => V3Inv' /\ PastInv'
  BY V3NextInv, V3NextPastInv
<1>3. V3Init => Votes!RegisterInit
  <2> SUFFICES ASSUME V3Init PROVE Votes!RegisterInit
    OBVIOUS
  <2>1. now \in Nat
    BY StakedTokenAssumption DEF V3Init, Init
  <2>2. ASSUME NEW t \in DelegationTypes, NEW d \in Accounts, NEW b
        PROVE  Power!GetPowerAtBlock(d, b, t) = 0
    BY DEF V3Init, Init, Power!GetPowerAtBlock, Power!SearchByBlockNumber
  <2> QED
    BY <2>1, <2>2 DEF V3Init, Init, Votes!RegisterInit
<1>4. V3Inv /\ V3Inv' /\ VotesCounted /\ VotesCounted' /\ VotesKept
        /\ [V3Next]_V3Vars => [Votes!RegisterNext]_Votes!registerVars
  <2> SUFFICES ASSUME V3Inv, V3Inv', VotesCounted, VotesCounted', VotesKept,
                      [V3Next]_V3Vars
               PROVE  [Votes!RegisterNext]_Votes!registerVars
    OBVIOUS
  <2>0. now \in Nat /\ balances' \in [Accounts -> Nat] /\ Users \subseteq Accounts
    BY DEF V3Inv, IndInv, TypeOK, Accounts
  <2>1. ASSUME V3Moves PROVE Votes!RegisterNext
    <3>1. now' = now /\ delegates' = delegates
      BY <2>1 DEF V3Moves, HookRuns, BeforeTokenTransfer
    <3>2. Votes!Recount
      BY <2>0, <3>1, StepRecountsVotes
    <3> QED
      BY <2>0, <3>1, <3>2 DEF Votes!RegisterNext, Votes!Move
  <2>2. ASSUME V3Delegations PROVE Votes!RegisterNext
    <3>1. PICK u \in Users, a \in Accounts, types \in SUBSET DelegationTypes :
              DelegateV3(u, a, types)
      BY <2>2 DEF V3Delegations
    <3>2. /\ now' = now /\ balances' = balances
          /\ delegates' = [t \in DelegationTypes |->
                IF t \in types THEN [delegates[t] EXCEPT ![u] = a] ELSE delegates[t]]
      BY <3>1 DEF DelegateV3, Power!DelegateTypes
    <3>3. Votes!Recount
      BY <2>0, <3>2, StepRecountsVotes
    <3> DEFINE voting == types \cap {VOTING_POWER}
    <3>4. Votes!Appoint(u, a, voting)
      BY <3>2, <3>3 DEF Votes!Appoint
    <3>5. voting \in SUBSET (DelegationTypes \cap {VOTING_POWER}) /\ u \in Accounts
      BY <2>0
    <3> QED
      BY <3>4, <3>5 DEF Votes!RegisterNext
  <2>3. ASSUME V3Others, now' = now PROVE UNCHANGED Votes!registerVars
    BY <2>3 DEF V3Others, Votes!registerVars, Power!GetPowerAtBlock
  <2>4. ASSUME V3Others, now' = now + 1 PROVE Votes!RegisterNext
    <3>1. ASSUME NEW t \in DelegationTypes \cap {VOTING_POWER}, NEW d \in Accounts,
                 NEW b \in 0 .. now + 1
          PROVE  Power!GetPowerAtBlock(d, b, t)' =
                    VoteAnswers[t][d][IF b = now + 1 THEN now ELSE b]
      <4>1. CASE b # now + 1
        <5>1. b \in 0 .. now
          BY <2>0, <4>1
        <5>2. Power!GetPowerAtBlock(d, b, t)' = Power!GetPowerAtBlock(d, b, t)
          BY <2>4 DEF V3Others, Power!GetPowerAtBlock
        <5> QED
          BY <4>1, <5>1, <5>2 DEF VoteAnswers
      <4>2. CASE b = now + 1
        <5>1. Power!GetPowerAtBlock(d, b, t)' = Votes!Count(t, d)'
          BY <2>4, <4>2 DEF VotesCounted
        <5>2. Votes!Count(t, d)' = Votes!Count(t, d)
          BY <2>4 DEF V3Others, Votes!Count, Votes!SpeaksFor
        <5> QED
          BY <2>0, <4>2, <5>1, <5>2 DEF VoteAnswers, VotesCounted
      <4> QED
        BY <4>1, <4>2
    <3>2. balances' = balances /\ delegates' = delegates
      BY <2>4 DEF V3Others
    <3> QED
      BY <2>0, <2>4, <3>1, <3>2 DEF Votes!RegisterNext, Votes!NewBlock, VoteAnswers
  <2> QED
    BY <2>0, <2>1, <2>2, <2>3, <2>4, V3Steps DEF V3Others
<1> QED
  BY <1>1, <1>2, <1>3, <1>4, V3NextAnswers, VotesAreCounted, PTL
  DEF V3Spec, ImplementsVotes, Votes!RegisterSpec

-----------------------------------------------------------------------------
(* The hook keeps no stake in. *)

(***************************************************************************)
(* What the hook asks before a burn, for any account and any amount: that  *)
(* the balance, or the power of each type that the account's delegate has, *)
(* covers what is subtracted from it.                                      *)
(***************************************************************************)
HookLetsOut ==
    \A u \in Accounts, n \in Nat :
        /\ revision = 1 => AmountToRedeem(u, n) <= balances[u]
        /\ revision = 2 => \A t \in DelegationTypes :
                Power!CanMoveDelegates(t, Power!GetDelegatee(t, u),
                                       Power!GetDelegatee(t, ZeroAddress),
                                       AmountToRedeem(u, n))

LEMMA HookOpens == V3Inv => HookLetsOut
<1> SUFFICES ASSUME V3Inv, NEW u \in Accounts, NEW n \in Nat
             PROVE  /\ AmountToRedeem(u, n) <= balances[u]
                    /\ \A t \in DelegationTypes :
                          Proved!CanMoveDelegates(t, Proved!GetDelegatee(t, u),
                                     Proved!GetDelegatee(t, ZeroAddress),
                                     AmountToRedeem(u, n))
  BY SameMove, SameDelegatee DEF HookLetsOut
<1> DEFINE m == AmountToRedeem(u, n)
<1>1. balances \in [Accounts -> Nat] /\ Proved!GovTypeOK /\ Proved!PowerIsDelegated
  BY DEF V3Inv, IndInv, TypeOK, Proved!GovInv
<1>2. m \in Nat /\ m <= balances[u]
  BY <1>1 DEF AmountToRedeem
<1> HIDE DEF m
<1>3. ASSUME NEW t \in DelegationTypes
      PROVE  Proved!CanMoveDelegates(t, Proved!GetDelegatee(t, u),
                                     Proved!GetDelegatee(t, ZeroAddress), m)
  <2> DEFINE giver == Proved!GetDelegatee(t, u)
             lent  == Proved!DelegatedTo(t, giver)
  <2>1. giver \in Accounts
    BY <1>1, GovernanceAssumptionHolds DEF Proved!GetDelegatee, Proved!GovTypeOK
  <2>2. Proved!PreviousPower(t, giver) = Total(lent)
    BY <1>1, <2>1, SameSums DEF Proved!PowerIsDelegated
  <2>3. lent \in [Accounts -> Nat] /\ lent[u] = balances[u]
    BY <1>1 DEF Proved!DelegatedTo
  <2> HIDE DEF lent
  <2>4. balances[u] <= Total(lent) /\ Total(lent) \in Nat /\ balances[u] \in Nat
    BY <1>1, <2>3, AccountsFinite, TotalBounds
  <2>5. m <= Proved!PreviousPower(t, giver)
    BY <1>2, <2>2, <2>4
  <2> QED
    BY <2>5 DEF Proved!CanMoveDelegates
<1> QED
  BY <1>2, <1>3 DEF m

(***************************************************************************)
(* In either revision, across the upgrade and whoever delegated to whom,   *)
(* the hook stops no redeem: previous.sub(amount) in _moveDelegatesByType  *)
(* has the redeemer's whole balance to subtract from, and nothing else     *)
(* that redeem asks besides the window fails either.  (redeem,             *)
(* _beforeTokenTransfer)                                                   *)
(***************************************************************************)
THEOREM HookNeverBlocksExit == V3Spec => [](ExitIsOpen /\ HookLetsOut)
<1>1. V3Spec => []ExitIsOpen
  BY V3ImplementsToken, NothingElseBlocksExit, PTL
<1> QED
  BY <1>1, HookOpens, V3InitInv, V3NextInv, PTL DEF V3Spec

\* The snapshots that a redeem of all that u has leaves: u's own balance in
\* revision 1, the power of u's delegate in revision 2.
ExitSnapshots(u) ==
    IF revision = 1
    THEN [t \in DelegationTypes |-> SnapshotBalances(t, u, ZeroAddress, balances[u])]
    ELSE [t \in DelegationTypes |->
            Power!MoveDelegates(t, Power!GetDelegatee(t, u),
                                Power!GetDelegatee(t, ZeroAddress), balances[u])]

V3ExitInv == V3Inv /\ SupplyBacked

\* What the next theorem starts from holds in every reachable state.
THEOREM V3ExitInvHolds == V3Spec => []V3ExitInv
<1>1. V3Inv /\ SupplyBacked => V3ExitInv
  BY DEF V3ExitInv
<1> QED
  BY <1>1, V3InitInv, V3NextInv, V3ImplementsToken, SupplyStaysBacked, PTL DEF V3Spec

(***************************************************************************)
(* With the hook of either revision in the way a holder in the window who  *)
(* asks for at least what he has is never refused: from a reachable state  *)
(* (V3ExitInv), the redeem is the step to the outcome below and to nothing *)
(* else.  A step to a given state can always be taken, so that this is     *)
(* what HolderCanExitV3 says with ENABLED, for every holder, amount and    *)
(* history of delegations.  (redeem, _beforeTokenTransfer)                 *)
(***************************************************************************)
THEOREM WholeStakeComesOutV3 ==
    ASSUME V3ExitInv, NEW u \in Accounts, balances[u] # 0, InUnstakeWindow(u),
           NEW n \in Nat, balances[u] <= n
    PROVE  RedeemV3(u, u, n) <=> /\ vars' = ExitOutcome(u)
                                 /\ snapshots' = ExitSnapshots(u)
                                 /\ UNCHANGED <<revision, delegates>>
<1>1. V3Inv /\ ExitInv /\ balances[u] \in Nat /\ revision \in {1, 2}
  BY DEF V3ExitInv, V3Inv, ExitInv, IndInv, TypeOK
<1>2. Redeem(u, u, n) <=> vars' = ExitOutcome(u)
  BY <1>1, WholeStakeComesOut
<1>3. AmountToRedeem(u, n) = balances[u]
  BY <1>1 DEF AmountToRedeem
<1>4. \A t \in DelegationTypes : revision = 2 =>
          Power!CanMoveDelegates(t, Power!GetDelegatee(t, u),
                                 Power!GetDelegatee(t, ZeroAddress), balances[u])
  BY <1>1, <1>3, HookOpens DEF HookLetsOut
<1>5. BeforeTokenTransfer(u, ZeroAddress, balances[u])
        <=> snapshots' = ExitSnapshots(u) /\ UNCHANGED <<revision, delegates>>
  <2>1. balances[u] <= balances[u]
    BY <1>1
  <2> QED
    BY <1>1, <1>4, <2>1 DEF BeforeTokenTransfer, Power!BeforeTokenTransfer, ExitSnapshots
<1> QED
  BY <1>2, <1>3, <1>5 DEF RedeemV3

(***************************************************************************)
(* What StakedToken promises, the whole token keeps, in both revisions and *)
(* across the upgrade: it implements the exit gate, no receipt lends or    *)
(* loses waiting, every stkPSYS is backed, no cooldown is stale, no index  *)
(* is ahead.                                                               *)
(***************************************************************************)
THEOREM V3KeepsTokenPromises ==
    V3Spec => /\ ImplementsExitGate /\ WaitingNotCreated /\ WaitingNotLost
              /\ [](SupplyBacked /\ NoStaleCooldown /\ IndexesOrdered)
<1> QED
  BY V3ImplementsToken, StakedTokenImplementsExitGate, WaitingNeverCreated,
     WaitingNeverLost, SupplyStaysBacked, StaleCooldownsCleared,
     IndexesStayOrdered, PTL

(***************************************************************************)
(* Every vote is a staked PSYS: the powers of each type that all accounts  *)
(* have at present are together the supply, and the contract holds that    *)
(* much PSYS; in both revisions, through any delegations.  (stake, redeem, *)
(* getPowerCurrent)                                                        *)
(***************************************************************************)
VotesBacked ==
    \A t \in DelegationTypes :
        LET votes == Total([d \in Accounts |-> Power!GetPowerAtBlock(d, now, t)])
        IN  votes = totalSupply /\ votes <= psys[StakeContract]

THEOREM VotesAlwaysBacked == V3Spec => []VotesBacked
<1>1. V3Inv /\ PastInv /\ SupplyBacked => VotesBacked
  <2> SUFFICES ASSUME V3Inv, PastInv, SupplyBacked, NEW t \in DelegationTypes
               PROVE  Total([d \in Accounts |-> Power!GetPowerAtBlock(d, now, t)])
                        = totalSupply
    BY DEF VotesBacked, SupplyBacked
  <2>1. Proved!GovTypeOK /\ Proved!PowerIsDelegated /\ Proved!SnapshotsOrdered
    BY DEF V3Inv, PastInv, Proved!GovInv
  <2>2. ASSUME NEW d \in Accounts
        PROVE  Power!GetPowerAtBlock(d, now, t)
                 = Proved!Total(Proved!DelegatedTo(t, d))
    <3>1. Power!GetPowerAtBlock(d, now, t) = Proved!PreviousPower(t, d)
      BY <2>1, SameAnswers, GovernanceAssumptionHolds, Proved!AnswerNow
    <3> QED
      BY <2>1, <3>1 DEF Proved!PowerIsDelegated
  <2>3. [d \in Accounts |-> Power!GetPowerAtBlock(d, now, t)]
          = [d \in Accounts |-> Proved!Total(Proved!DelegatedTo(t, d))]
    BY <2>2
  <2>4. Proved!Total([d \in Accounts |-> Proved!Total(Proved!DelegatedTo(t, d))])
          = Proved!Total(balances)
    BY <2>1, GovernanceAssumptionHolds, Proved!DelegatedAddsUp
  <2> QED
    BY <2>3, <2>4, SameSums DEF SupplyBacked
<1>2. V3Init => V3Inv /\ PastInv
  BY V3InitInv, V3InitPastInv
<1>3. V3Inv /\ PastInv /\ [V3Next]_V3Vars => V3Inv' /\ PastInv'
  BY V3NextInv, V3NextPastInv
<1> QED
  BY <1>1, <1>2, <1>3, V3ImplementsToken, SupplyStaysBacked, PTL DEF V3Spec

=============================================================================
