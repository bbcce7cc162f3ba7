----------------------- MODULE GovernancePowerTheorems -----------------------
(***************************************************************************)
(* Proofs about the delegation of governance power, for every set of       *)
(* accounts, every set of delegation types and any number of blocks.       *)
(***************************************************************************)
EXTENDS GovernancePowerProperties, ArithmeticLemmas, SequenceTheorems

\* A written snapshot is a snapshot, and the latest one.
LEMMA WriteSnapshotLatest ==
    ASSUME NEW list \in Seq(Snapshot), NEW block \in Nat, NEW v \in Nat
    PROVE  /\ WriteSnapshot(list, block, v) \in Seq(Snapshot)
           /\ WriteSnapshot(list, block, v) # <<>>
           /\ Latest(WriteSnapshot(list, block, v)).value = v
<1> DEFINE entry == [blockNumber |-> block, value |-> v]
<1>1. entry \in Snapshot
  BY DEF Snapshot
<1>2. CASE list # <<>> /\ Latest(list).blockNumber = block
  <2>1. Len(list) \in 1 .. Len(list) /\ list[Len(list)] \in Snapshot
    BY <1>2
  <2> DEFINE new == [list[Len(list)] EXCEPT !.value = v]
             written == [list EXCEPT ![Len(list)] = new]
  <2>2. new \in Snapshot /\ new.value = v
    BY <2>1 DEF Snapshot
  <2>3. written \in Seq(Snapshot) /\ Len(written) = Len(list) /\ written[Len(list)] = new
    <3> HIDE DEF new
    <3> QED
      BY <2>1, <2>2
  <2>4. WriteSnapshot(list, block, v) = written
    BY <1>2 DEF WriteSnapshot
  <2>5. written # <<>>
    BY <2>1, <2>3
  <2> QED
    BY <2>2, <2>3, <2>4, <2>5 DEF Latest
<1>3. CASE ~ (list # <<>> /\ Latest(list).blockNumber = block)
  <2>1. WriteSnapshot(list, block, v) = Append(list, entry)
    BY <1>3 DEF WriteSnapshot
  <2>2. /\ Append(list, entry) \in Seq(Snapshot)
        /\ Len(Append(list, entry)) = Len(list) + 1
        /\ Append(list, entry)[Len(list) + 1] = entry
    BY <1>1
  <2>3. Append(list, entry) # <<>>
    BY <2>2
  <2> QED
    BY <2>1, <2>2, <2>3 DEF Latest
<1> QED
  BY <1>2, <1>3

\* What the type invariant says of one type and one account.
LEMMA GovTypes ==
    ASSUME GovTypeOK, NEW t \in DelegationTypes, NEW a \in Accounts
    PROVE  /\ blockNumber \in Nat
           /\ balances[a] \in Nat
           /\ delegates[t][a] \in Accounts \cup {ZeroAddress}
           /\ snapshots[t][a] \in Seq(Snapshot)
           /\ PreviousPower(t, a) \in Nat
           /\ GetDelegatee(t, a) \in Accounts
<1>1. /\ blockNumber \in Nat
      /\ balances[a] \in Nat
      /\ delegates[t][a] \in Accounts \cup {ZeroAddress}
      /\ snapshots[t][a] \in Seq(Snapshot)
  BY DEF GovTypeOK
<1>2. PreviousPower(t, a) \in Nat
  <2>1. CASE snapshots[t][a] = <<>>
    BY <1>1, <2>1 DEF PreviousPower
  <2>2. CASE snapshots[t][a] # <<>>
    <3>1. Latest(snapshots[t][a]) \in Snapshot
      BY <1>1, <2>2 DEF Latest
    <3> QED
      BY <3>1, <2>2 DEF PreviousPower, Snapshot
  <2> QED
    BY <2>1, <2>2
<1> QED
  BY <1>1, <1>2, GovernanceAssumption DEF GetDelegatee

\* The power behind every account is a ledger of its own.
LEMMA DelegatedToType ==
    ASSUME GovTypeOK, NEW t \in DelegationTypes, NEW d
    PROVE  DelegatedTo(t, d) \in [Accounts -> Nat]
  BY DEF GovTypeOK, DelegatedTo

(***************************************************************************)
(* What a move of "amount" from one delegate to another writes.            *)
(***************************************************************************)
LEMMA MoveEffect ==
    ASSUME GovTypeOK, NEW t \in DelegationTypes, NEW amount \in Nat,
           NEW from \in Accounts \cup {ZeroAddress},
           NEW to \in Accounts \cup {ZeroAddress},
           CanMoveDelegates(t, from, to, amount),
           NEW d \in Accounts
    PROVE  LET moved == MoveDelegates(t, from, to, amount)[d]
           IN  /\ moved \in Seq(Snapshot)
               /\ snapshots[t][d] # <<>> => moved # <<>>
               /\ from = to \/ d \notin {from, to} => moved = snapshots[t][d]
               /\ from # to /\ d = from =>
                    /\ moved # <<>>
                    /\ Latest(moved).value = PreviousPower(t, d) - amount
               /\ from # to /\ d = to =>
                    /\ moved # <<>>
                    /\ Latest(moved).value = PreviousPower(t, d) + amount
<1> DEFINE moved == MoveDelegates(t, from, to, amount)[d]
<1>1. /\ blockNumber \in Nat
      /\ snapshots[t][d] \in Seq(Snapshot)
      /\ PreviousPower(t, d) \in Nat
  BY GovTypes
<1>2. CASE from = to \/ d \notin {from, to}
  <2>1. moved = snapshots[t][d]
    BY <1>2 DEF MoveDelegates
  <2> QED
    BY <1>1, <1>2, <2>1
<1>3. CASE from # to /\ d = from
  <2>1. PreviousPower(t, d) - amount \in Nat
    BY <1>1, <1>3, GovernanceAssumption DEF CanMoveDelegates
  <2>2. moved = WriteSnapshot(snapshots[t][d], blockNumber, PreviousPower(t, d) - amount)
    BY <1>3 DEF MoveDelegates
  <2> HIDE DEF moved
  <2>3. /\ moved \in Seq(Snapshot)
        /\ moved # <<>>
        /\ Latest(moved).value = PreviousPower(t, d) - amount
    BY <1>1, <2>1, <2>2, WriteSnapshotLatest
  <2>4. d # to
    BY <1>3
  <2> QED
    BY <1>3, <2>3, <2>4 DEF moved
<1>4. CASE from # to /\ d = to
  <2>1. PreviousPower(t, d) + amount \in Nat
    BY <1>1
  <2>2. moved = WriteSnapshot(snapshots[t][d], blockNumber, PreviousPower(t, d) + amount)
    BY <1>4 DEF MoveDelegates
  <2> HIDE DEF moved
  <2>3. /\ moved \in Seq(Snapshot)
        /\ moved # <<>>
        /\ Latest(moved).value = PreviousPower(t, d) + amount
    BY <1>1, <2>1, <2>2, WriteSnapshotLatest
  <2>4. d # from
    BY <1>4
  <2> QED
    BY <1>4, <2>3, <2>4 DEF moved
<1> QED
  BY <1>2, <1>3, <1>4

(***************************************************************************)
(* The snapshots after a move are snapshots, and the two sides of every    *)
(* delegation still have one.                                              *)
(***************************************************************************)
LEMMA MoveTyped ==
    ASSUME GovTypeOK, NEW t \in DelegationTypes, NEW amount \in Nat,
           NEW from \in Accounts \cup {ZeroAddress},
           NEW to \in Accounts \cup {ZeroAddress},
           CanMoveDelegates(t, from, to, amount)
    PROVE  MoveDelegates(t, from, to, amount) \in [Accounts -> Seq(Snapshot)]
<1>1. \A d \in Accounts : MoveDelegates(t, from, to, amount)[d] \in Seq(Snapshot)
  BY MoveEffect
<1> QED
  BY <1>1 DEF MoveDelegates

-----------------------------------------------------------------------------
(* A change of the ledger behind the hook. *)

\* The ledger after "amount" has gone from one account to another, address(0)
\* being the other side of a mint and of a burn.
AfterTransfer(from, to, amount) ==
    [a \in Accounts |-> IF from = to THEN balances[a]
                        ELSE IF a = from THEN balances[a] - amount
                        ELSE IF a = to THEN balances[a] + amount
                        ELSE balances[a]]

\* What a transfer changes in the power of one account, if its hook has run.
LEMMA TransferTotal ==
    ASSUME GovTypeOK, NEW t \in DelegationTypes, NEW d \in Accounts,
           NEW amount \in Nat,
           NEW from \in Accounts \cup {ZeroAddress},
           NEW to \in Accounts \cup {ZeroAddress},
           from \in Accounts => amount <= balances[from],
           balances' = AfterTransfer(from, to, amount),
           UNCHANGED delegates, GovTypeOK'
    PROVE  Total(DelegatedTo(t, d))' =
              Total(DelegatedTo(t, d))
                - (IF from # to /\ GetDelegatee(t, from) = d THEN amount ELSE 0)
                + (IF from # to /\ GetDelegatee(t, to) = d THEN amount ELSE 0)
<1> DEFINE f == DelegatedTo(t, d)
           g == DelegatedTo(t, d)'
<1>1. f \in [Accounts -> Nat] /\ g \in [Accounts -> Nat]
  BY DEF DelegatedTo, GovTypeOK
<1>2. Total(f) \in Nat
  BY <1>1, TotalBounds, GovernanceAssumption
<1>3. \A a \in Accounts : balances[a] \in Nat /\ GetDelegatee(t, a)' = GetDelegatee(t, a)
  BY DEF GovTypeOK, GetDelegatee
<1>4. \A a \in Accounts : f[a] = IF GetDelegatee(t, a) = d THEN balances[a] ELSE 0
  BY DEF DelegatedTo
<1>5. \A a \in Accounts : g[a] = IF GetDelegatee(t, a) = d THEN balances'[a] ELSE 0
  BY <1>3 DEF DelegatedTo
<1>6. GetDelegatee(t, ZeroAddress) # d
  BY GovernanceAssumption DEF GetDelegatee
<1>7. \A a \in Accounts : a \notin {from, to} => balances'[a] = balances[a]
  BY DEF AfterTransfer
<1> HIDE DEF f, g
<1>8. CASE from = to
  <2>1. \A a \in Accounts : balances'[a] = balances[a]
    BY <1>8 DEF AfterTransfer
  <2>2. g = f
    BY <1>1, <1>4, <1>5, <2>1
  <2> QED
    BY <1>2, <1>8, <2>2 DEF f, g
<1>9. CASE from # to /\ from \in Accounts /\ to \in Accounts
  <2>1. balances'[from] = balances[from] - amount /\ balances'[to] = balances[to] + amount
    BY <1>9 DEF AfterTransfer
  <2>2. \A a \in Accounts \ {from, to} : g[a] = f[a]
    BY <1>4, <1>5, <1>7
  <2>3. Total(g) = Total(f) - f[from] + g[from] - f[to] + g[to]
    BY <1>1, <1>9, <2>2, TotalChange2, GovernanceAssumption
  <2>4. g[from] = f[from] - (IF GetDelegatee(t, from) = d THEN amount ELSE 0)
    BY <1>3, <1>4, <1>5, <1>9, <2>1
  <2>5. g[to] = f[to] + (IF GetDelegatee(t, to) = d THEN amount ELSE 0)
    BY <1>3, <1>4, <1>5, <1>9, <2>1
  <2>6. f[from] \in Nat /\ f[to] \in Nat
    BY <1>1, <1>9
  <2> QED
    BY <1>2, <1>9, <2>3, <2>4, <2>5, <2>6 DEF f, g
<1>10. CASE from # to /\ from \in Accounts /\ to = ZeroAddress
  <2>1. balances'[from] = balances[from] - amount
    BY <1>10 DEF AfterTransfer
  <2>2. \A a \in Accounts \ {from} : g[a] = f[a]
    BY <1>4, <1>5, <1>7, <1>10, GovernanceAssumption
  <2>3. Total(g) = Total(f) - f[from] + g[from]
    BY <1>1, <1>10, <2>2, TotalChange, GovernanceAssumption
  <2>4. g[from] = f[from] - (IF GetDelegatee(t, from) = d THEN amount ELSE 0)
    BY <1>3, <1>4, <1>5, <1>10, <2>1
  <2>5. f[from] \in Nat
    BY <1>1, <1>10
  <2> QED
    BY <1>2, <1>6, <1>10, <2>3, <2>4, <2>5 DEF f, g
<1>11. CASE from # to /\ from = ZeroAddress /\ to \in Accounts
  <2>1. balances'[to] = balances[to] + amount
    BY <1>11 DEF AfterTransfer
  <2>2. \A a \in Accounts \ {to} : g[a] = f[a]
    BY <1>4, <1>5, <1>7, <1>11, GovernanceAssumption
  <2>3. Total(g) = Total(f) - f[to] + g[to]
    BY <1>1, <1>11, <2>2, TotalChange, GovernanceAssumption
  <2>4. g[to] = f[to] + (IF GetDelegatee(t, to) = d THEN amount ELSE 0)
    BY <1>3, <1>4, <1>5, <1>11, <2>1
  <2>5. f[to] \in Nat
    BY <1>1, <1>11
  <2> QED
    BY <1>2, <1>6, <1>11, <2>3, <2>4, <2>5 DEF f, g
<1> QED
  BY <1>8, <1>9, <1>10, <1>11

(***************************************************************************)
(* The hook keeps the invariant: with the balances moved as it was told,   *)
(* every power is again what the delegators own.                           *)
(***************************************************************************)
LEMMA HookKeepsInv ==
    ASSUME GovInv, NEW amount \in Nat,
           NEW from \in Accounts \cup {ZeroAddress},
           NEW to \in Accounts \cup {ZeroAddress},
           from \in Accounts => amount <= balances[from],
           BeforeTokenTransfer(from, to, amount),
           balances' = AfterTransfer(from, to, amount),
           UNCHANGED <<blockNumber, delegates>>
    PROVE  GovInv'
<1>1. GovTypeOK /\ PowerIsDelegated /\ DelegationsHaveSnapshots
  BY DEF GovInv
<1>2. ASSUME NEW t \in DelegationTypes
      PROVE
        /\ GetDelegatee(t, from) \in Accounts \cup {ZeroAddress}
        /\ GetDelegatee(t, to) \in Accounts \cup {ZeroAddress}
        /\ CanMoveDelegates(t, GetDelegatee(t, from), GetDelegatee(t, to), amount)
        /\ snapshots'[t] = MoveDelegates(t, GetDelegatee(t, from),
                                         GetDelegatee(t, to), amount)
  <2>1. GetDelegatee(t, ZeroAddress) = ZeroAddress
    BY DEF GetDelegatee
  <2> QED
    BY <1>1, GovTypes DEF BeforeTokenTransfer, GetDelegatee
<1>3. GovTypeOK'
  <2>1. balances' \in [Accounts -> Nat]
    <3>1. balances \in [Accounts -> Nat]
      BY <1>1 DEF GovTypeOK
    <3>2. ASSUME NEW a \in Accounts
          PROVE  AfterTransfer(from, to, amount)[a] \in Nat
      BY <3>1 DEF AfterTransfer
    <3>3. AfterTransfer(from, to, amount) \in [Accounts -> Nat]
      BY <3>2 DEF AfterTransfer
    <3> QED
      BY <3>3
  <2>2. snapshots' \in [DelegationTypes -> [Accounts -> Seq(Snapshot)]]
    <3>1. ASSUME NEW t \in DelegationTypes
          PROVE  snapshots'[t] \in [Accounts -> Seq(Snapshot)]
      BY <1>1, <1>2, MoveTyped
    <3>2. snapshots' = [t \in DelegationTypes |-> snapshots'[t]]
      BY DEF BeforeTokenTransfer
    <3> QED
      BY <3>1, <3>2
  <2> QED
    BY <1>1, <2>1, <2>2 DEF GovTypeOK
<1>4. ASSUME NEW t \in DelegationTypes, NEW d \in Accounts
      PROVE  /\ snapshots[t][d] # <<>> => snapshots'[t][d] # <<>>
             /\ PreviousPower(t, d)' = Total(DelegatedTo(t, d))'
  <2> DEFINE giver == GetDelegatee(t, from)
             taker == GetDelegatee(t, to)
             before == PreviousPower(t, d)
             moved == snapshots'[t][d]
  <2>1. /\ before \in Nat
        /\ before = Total(DelegatedTo(t, d))
    BY <1>1, GovTypes DEF PowerIsDelegated
  <2>2. Total(DelegatedTo(t, d))' =
            before - (IF from # to /\ giver = d THEN amount ELSE 0)
                   + (IF from # to /\ taker = d THEN amount ELSE 0)
    BY <1>1, <1>3, <2>1, TransferTotal
  <2>3. /\ snapshots[t][d] # <<>> => moved # <<>>
        /\ giver = taker \/ d \notin {giver, taker} => moved = snapshots[t][d]
        /\ giver # taker /\ d = giver =>
                moved # <<>> /\ Latest(moved).value = before - amount
        /\ giver # taker /\ d = taker =>
                moved # <<>> /\ Latest(moved).value = before + amount
    BY <1>1, <1>2, MoveEffect
  <2>4. PreviousPower(t, d)' = IF moved = <<>> THEN balances'[d] ELSE Latest(moved).value
    BY DEF PreviousPower
  <2>5. before = IF snapshots[t][d] = <<>> THEN balances[d] ELSE Latest(snapshots[t][d]).value
    BY DEF PreviousPower
  <2> HIDE DEF before, moved
  <2>6. CASE giver # taker /\ d \in {giver, taker}
    <3>1. from # to
      BY <2>6
    <3> QED
      BY <2>1, <2>2, <2>3, <2>4, <2>6, <3>1 DEF moved
  <2>7. CASE giver = taker \/ d \notin {giver, taker}
    <3>1. Total(DelegatedTo(t, d))' = before
      BY <2>1, <2>2, <2>7
    <3>2. ASSUME snapshots[t][d] = <<>> PROVE balances'[d] = balances[d]
      <4>1. CASE d \notin {from, to} \/ from = to
        BY <4>1 DEF AfterTransfer
      <4>2. CASE d \in {from, to} /\ from # to
        <5>1. delegates[t][d] \in {ZeroAddress, d}
          BY <1>1, <3>2 DEF DelegationsHaveSnapshots
        <5>2. GetDelegatee(t, d) = d
          BY <5>1 DEF GetDelegatee
        <5>3. giver = d /\ taker = d
          BY <2>7, <4>2, <5>2
        <5>4. PICK a \in {from, to} : a # d
          BY <4>2
        <5>5. a \in Accounts /\ GetDelegatee(t, a) = d
          BY <4>2, <5>3, <5>4 DEF GetDelegatee
        <5>6. delegates[t][a] = d /\ d # ZeroAddress /\ d # a
          BY <5>4, <5>5, GovernanceAssumption DEF GetDelegatee
        <5>7. snapshots[t][d] # <<>>
          BY <1>1, <5>5, <5>6 DEF DelegationsHaveSnapshots
        <5> QED
          BY <3>2, <5>7
      <4> QED
        BY <4>1, <4>2
    <3>3. PreviousPower(t, d)' = before
      BY <2>3, <2>4, <2>5, <2>7, <3>2
    <3> QED
      BY <2>3, <3>1, <3>3 DEF moved
  <2> QED
    BY <2>6, <2>7
<1>5. PowerIsDelegated'
  BY <1>4 DEF PowerIsDelegated
<1>6. DelegationsHaveSnapshots'
  <2>1. \A t \in DelegationTypes, a \in Accounts :
            delegates[t][a] \in Accounts \cup {ZeroAddress}
    BY <1>1, GovTypes
  <2> QED
    BY <1>1, <1>4, <2>1 DEF DelegationsHaveSnapshots
<1> QED
  BY <1>3, <1>5, <1>6 DEF GovInv

-----------------------------------------------------------------------------
(* A delegation. *)

(***************************************************************************)
(* delegate and delegateByType keep the invariant: the whole balance of    *)
(* the delegator leaves its previous delegate and comes to the new one.    *)
(***************************************************************************)
LEMMA DelegateKeepsInv ==
    ASSUME GovInv, NEW delegator \in Accounts, NEW delegatee \in Accounts,
           NEW types \in SUBSET DelegationTypes,
           DelegateTypes(delegator, delegatee, types)
    PROVE  GovInv'
<1>1. GovTypeOK /\ PowerIsDelegated /\ DelegationsHaveSnapshots
  BY DEF GovInv
<1>2. UNCHANGED <<blockNumber, balances>>
  BY DEF DelegateTypes
<1>3. balances[delegator] \in Nat
  BY <1>1 DEF GovTypeOK
<1>4. ASSUME NEW t \in types
      PROVE  /\ GetDelegatee(t, delegator) \in Accounts
             /\ CanMoveDelegates(t, GetDelegatee(t, delegator), delegatee,
                                 balances[delegator])
             /\ delegates'[t] = [delegates[t] EXCEPT ![delegator] = delegatee]
             /\ snapshots'[t] = MoveDelegates(t, GetDelegatee(t, delegator),
                                              delegatee, balances[delegator])
             /\ \A a \in Accounts : delegates'[t][a] =
                    IF a = delegator THEN delegatee ELSE delegates[t][a]
             /\ t \in DelegationTypes
  <2>1. t \in DelegationTypes
    OBVIOUS
  <2>2. delegates[t] \in [Accounts -> Accounts \cup {ZeroAddress}]
    BY <1>1, <2>1 DEF GovTypeOK
  <2>3. delegates'[t] = [delegates[t] EXCEPT ![delegator] = delegatee]
    BY <2>1 DEF DelegateTypes
  <2>4. /\ GetDelegatee(t, delegator) \in Accounts
        /\ CanMoveDelegates(t, GetDelegatee(t, delegator), delegatee,
                            balances[delegator])
        /\ snapshots'[t] = MoveDelegates(t, GetDelegatee(t, delegator),
                                         delegatee, balances[delegator])
    BY <1>1, <2>1, GovTypes DEF DelegateTypes
  <2> QED
    BY <2>1, <2>2, <2>3, <2>4
<1>5. ASSUME NEW t \in DelegationTypes \ types
      PROVE  delegates'[t] = delegates[t] /\ snapshots'[t] = snapshots[t]
  BY DEF DelegateTypes
<1>6. GovTypeOK'
  <2>1. ASSUME NEW t \in DelegationTypes
        PROVE  /\ delegates'[t] \in [Accounts -> Accounts \cup {ZeroAddress}]
               /\ snapshots'[t] \in [Accounts -> Seq(Snapshot)]
    <3>1. /\ delegates[t] \in [Accounts -> Accounts \cup {ZeroAddress}]
          /\ snapshots[t] \in [Accounts -> Seq(Snapshot)]
      BY <1>1 DEF GovTypeOK
    <3>2. CASE t \in types
      <4>1. delegates'[t] \in [Accounts -> Accounts \cup {ZeroAddress}]
        <5>1. delegates'[t] = [delegates[t] EXCEPT ![delegator] = delegatee]
          BY <1>4, <3>2
        <5> QED
          BY <3>1, <5>1
      <4>2. GetDelegatee(t, delegator) \in Accounts \cup {ZeroAddress}
        BY <1>4, <3>2
      <4>3. MoveDelegates(t, GetDelegatee(t, delegator), delegatee, balances[delegator])
                \in [Accounts -> Seq(Snapshot)]
        BY <1>1, <1>3, <1>4, <3>2, <4>2, MoveTyped
      <4> QED
        BY <1>4, <3>2, <4>1, <4>3
    <3>3. CASE t \notin types
      BY <1>5, <3>1, <3>3
    <3> QED
      BY <3>2, <3>3
  <2>2. /\ delegates' = [t \in DelegationTypes |-> delegates'[t]]
        /\ snapshots' = [t \in DelegationTypes |-> snapshots'[t]]
    BY DEF DelegateTypes
  <2>3. /\ delegates' \in [DelegationTypes -> [Accounts -> Accounts \cup {ZeroAddress}]]
        /\ snapshots' \in [DelegationTypes -> [Accounts -> Seq(Snapshot)]]
    BY <2>1, <2>2
  <2> QED
    BY <1>1, <1>2, <2>3 DEF GovTypeOK
<1>7. ASSUME NEW t \in DelegationTypes \ types, NEW d \in Accounts
      PROVE  PreviousPower(t, d)' = Total(DelegatedTo(t, d))'
  <2>1. PreviousPower(t, d)' = PreviousPower(t, d)
    BY <1>2, <1>5 DEF PreviousPower
  <2>2. DelegatedTo(t, d)' = DelegatedTo(t, d)
    BY <1>2, <1>5 DEF DelegatedTo, GetDelegatee
  <2>3. Total(DelegatedTo(t, d))' = Total(DelegatedTo(t, d))
    BY <2>2
  <2> QED
    BY <1>1, <2>1, <2>3 DEF PowerIsDelegated
<1>8. ASSUME NEW t \in types, NEW d \in Accounts
      PROVE  PreviousPower(t, d)' = Total(DelegatedTo(t, d))'
  <2> DEFINE previous == GetDelegatee(t, delegator)
             amount == balances[delegator]
             before == PreviousPower(t, d)
             moved == snapshots'[t][d]
             f == DelegatedTo(t, d)
             g == DelegatedTo(t, d)'
  <2>1. before \in Nat /\ before = Total(f)
    BY <1>1, GovTypes DEF PowerIsDelegated
  <2>2. f \in [Accounts -> Nat] /\ g \in [Accounts -> Nat]
    BY <1>1, <1>6 DEF DelegatedTo, GovTypeOK
  <2>3. GetDelegatee(t, delegator)' = delegatee
    <3>1. delegates'[t][delegator] = delegatee
      BY <1>4
    <3> QED
      BY <3>1, GovernanceAssumption DEF GetDelegatee
  <2>4. \A a \in Accounts \ {delegator} : g[a] = f[a]
    <3>1. \A a \in Accounts \ {delegator} : delegates'[t][a] = delegates[t][a]
      BY <1>4
    <3> QED
      BY <1>2, <3>1 DEF DelegatedTo, GetDelegatee
  <2>5. f[delegator] = IF previous = d THEN amount ELSE 0
    BY DEF DelegatedTo
  <2>6. g[delegator] = IF delegatee = d THEN amount ELSE 0
    BY <1>2, <2>3 DEF DelegatedTo
  <2> HIDE DEF f, g
  <2>7. Total(g) = before - (IF previous = d THEN amount ELSE 0)
                          + (IF delegatee = d THEN amount ELSE 0)
    <3>1. Total(g) = Total(f) - f[delegator] + g[delegator]
      BY <2>2, <2>4, TotalChange, GovernanceAssumption
    <3> QED
      BY <2>1, <2>5, <2>6, <3>1
  <2>8. /\ previous = delegatee \/ d \notin {previous, delegatee}
                => moved = snapshots[t][d]
        /\ previous # delegatee /\ d = previous =>
                moved # <<>> /\ Latest(moved).value = before - amount
        /\ previous # delegatee /\ d = delegatee =>
                moved # <<>> /\ Latest(moved).value = before + amount
    <3>1. previous \in Accounts \cup {ZeroAddress} /\ t \in DelegationTypes
      BY <1>4
    <3>2. CanMoveDelegates(t, previous, delegatee, amount)
      BY <1>4
    <3>3. moved = MoveDelegates(t, previous, delegatee, amount)[d]
      BY <1>4
    <3> HIDE DEF previous, amount, moved
    <3> QED
      BY <1>1, <1>3, <3>1, <3>2, <3>3, MoveEffect DEF amount, before
  <2>9. PreviousPower(t, d)' = IF moved = <<>> THEN balances[d] ELSE Latest(moved).value
    BY <1>2 DEF PreviousPower
  <2>10. before = IF snapshots[t][d] = <<>> THEN balances[d]
                                            ELSE Latest(snapshots[t][d]).value
    BY DEF PreviousPower
  <2> HIDE DEF before, moved
  <2>11. PreviousPower(t, d)' = Total(g)
    BY <1>3, <2>1, <2>7, <2>8, <2>9, <2>10
  <2> QED
    BY <2>11 DEF g
<1>9. PowerIsDelegated'
  BY <1>7, <1>8 DEF PowerIsDelegated
<1>10. ASSUME NEW t \in DelegationTypes, NEW a \in Accounts,
              delegates'[t][a] \notin {ZeroAddress, a}
       PROVE  snapshots'[t][a] # <<>> /\ snapshots'[t][delegates'[t][a]] # <<>>
  <2>1. CASE t \notin types
    <3>1. /\ delegates[t][a] \notin {ZeroAddress, a}
          /\ delegates'[t] = delegates[t] /\ snapshots'[t] = snapshots[t]
      BY <1>5, <1>10, <2>1
    <3> QED
      BY <1>1, <3>1 DEF DelegationsHaveSnapshots
  <2>2. CASE t \in types
    <3> DEFINE previous == GetDelegatee(t, delegator)
               amount == balances[delegator]
    <3>1. ASSUME NEW d \in Accounts
          PROVE  /\ snapshots[t][d] # <<>> => snapshots'[t][d] # <<>>
                 /\ previous # delegatee /\ d \in {previous, delegatee}
                        => snapshots'[t][d] # <<>>
      <4>1. previous \in Accounts \cup {ZeroAddress}
        BY <1>4, <2>2
      <4>2. CanMoveDelegates(t, previous, delegatee, amount) /\ amount \in Nat
        BY <1>3, <1>4, <2>2
      <4> DEFINE moved == MoveDelegates(t, previous, delegatee, amount)[d]
      <4>3. snapshots'[t][d] = moved
        BY <1>4, <2>2
      <4> HIDE DEF previous, amount
      <4>4. /\ snapshots[t][d] # <<>> => moved # <<>>
            /\ previous # delegatee /\ d = previous => moved # <<>>
            /\ previous # delegatee /\ d = delegatee => moved # <<>>
        BY <1>1, <4>1, <4>2, MoveEffect, SMTT(30)
      <4> HIDE DEF moved
      <4> QED
        BY <4>3, <4>4
    <3>2. CASE a # delegator
      <4>1. delegates'[t][a] = delegates[t][a]
        BY <1>4, <2>2, <3>2
      <4>2. delegates[t][a] \in Accounts
        BY <1>1, <1>10, <4>1, GovTypes
      <4> QED
        BY <1>1, <1>10, <3>1, <4>1, <4>2 DEF DelegationsHaveSnapshots
    <3>3. CASE a = delegator
      <4>1. delegates'[t][a] = delegatee /\ delegatee # a
        BY <1>4, <1>10, <2>2, <3>3
      <4>2. CASE previous = delegator
        BY <3>1, <3>3, <4>1, <4>2
      <4>3. CASE previous # delegator
        <5>1. delegates[t][a] = previous /\ previous \notin {ZeroAddress, a}
          BY <3>3, <4>3, GovernanceAssumption DEF GetDelegatee
        <5>2. snapshots[t][a] # <<>> /\ snapshots[t][previous] # <<>>
          BY <1>1, <5>1 DEF DelegationsHaveSnapshots
        <5> QED
          BY <3>1, <4>1, <5>2
      <4> QED
        BY <4>2, <4>3
    <3> QED
      BY <3>2, <3>3
  <2> QED
    BY <2>1, <2>2
<1>11. DelegationsHaveSnapshots'
  BY <1>10 DEF DelegationsHaveSnapshots
<1> QED
  BY <1>6, <1>9, <1>11 DEF GovInv

-----------------------------------------------------------------------------
(* The specification. *)

\* The freshly initialised token has no snapshots and no delegation.
LEMMA GovInitInv == GovInit => GovInv
<1> SUFFICES ASSUME GovInit PROVE GovInv
  OBVIOUS
<1>1. GovTypeOK
  BY GovernanceAssumption DEF GovInit, GovTypeOK
<1>2. PowerIsDelegated
  <2>1. ASSUME NEW t \in DelegationTypes, NEW d \in Accounts
        PROVE  PreviousPower(t, d) = Total(DelegatedTo(t, d))
    <3>1. DelegatedTo(t, d) = [a \in Accounts |-> 0]
      BY DEF GovInit, DelegatedTo
    <3>2. PreviousPower(t, d) = 0
      BY DEF GovInit, PreviousPower
    <3> QED
      BY <3>1, <3>2, TotalZero
  <2> QED
    BY <2>1 DEF PowerIsDelegated
<1>3. DelegationsHaveSnapshots
  BY DEF GovInit, DelegationsHaveSnapshots
<1> QED
  BY <1>1, <1>2, <1>3 DEF GovInv

\* Every mint, burn, transfer, delegation and new block keeps the invariant.
\* A transfer, a mint or a burn: the hook, and the ledger after it.
GovMoves ==
    \E from, to \in Accounts \cup {ZeroAddress}, n \in Nat :
        /\ from \in Accounts => n <= balances[from]
        /\ BeforeTokenTransfer(from, to, n)
        /\ balances' = AfterTransfer(from, to, n)
        /\ UNCHANGED <<blockNumber, delegates>>

\* What a step can do.
LEMMA GovSteps ==
    ASSUME GovTypeOK, [GovNext]_govVars
    PROVE  \/ GovMoves
           \/ DelegateStep
           \/ /\ UNCHANGED <<balances, delegates, snapshots>>
              /\ blockNumber' \in {blockNumber, blockNumber + 1}
<1>1. ASSUME NEW a \in Accounts, NEW n \in Amounts, Mint(a, n) PROVE GovMoves
  <2>1. balances' = AfterTransfer(ZeroAddress, a, n)
    BY <1>1, GovernanceAssumption DEF Mint, AfterTransfer, GovTypeOK
  <2>2. n \in Nat /\ ZeroAddress \notin Accounts
    BY GovernanceAssumption
  <2> QED
    BY <1>1, <2>1, <2>2, GovernanceAssumption DEF Mint, GovMoves
<1>2. ASSUME NEW a \in Accounts, NEW n \in Amounts, Burn(a, n) PROVE GovMoves
  <2>1. balances' = AfterTransfer(a, ZeroAddress, n)
    BY <1>2, GovernanceAssumption DEF Burn, AfterTransfer, GovTypeOK
  <2>2. n \in Nat /\ ZeroAddress \notin Accounts
    BY GovernanceAssumption
  <2> QED
    BY <1>2, <2>1, <2>2, GovernanceAssumption DEF Burn, GovMoves
<1>3. ASSUME NEW from \in Accounts, NEW to \in Accounts, NEW n \in Amounts,
             Transfer(from, to, n)
      PROVE  GovMoves
  <2>1. n \in Nat
    BY GovernanceAssumption
  <2>2. balances' = AfterTransfer(from, to, n)
    <3>1. balances \in [Accounts -> Nat]
      BY DEF GovTypeOK
    <3>2. balances' = [[balances EXCEPT ![from] = @ - n] EXCEPT ![to] = @ + n]
      BY <1>3 DEF Transfer
    <3>3. CASE from = to
      <4> DEFINE paid == [balances EXCEPT ![from] = balances[from] - n]
      <4>1. DOMAIN paid = Accounts /\ paid[from] = balances[from] - n
        BY <3>1
      <4>2. balances' = [paid EXCEPT ![from] = paid[from] + n]
        BY <3>2, <3>3
      <4>3. paid[from] + n = balances[from]
        BY <2>1, <3>1, <4>1
      <4>4. balances' = balances
        BY <3>1, <4>2, <4>3
      <4> QED
        BY <3>1, <3>3, <4>4 DEF AfterTransfer
    <3>4. CASE from # to
      BY <2>1, <3>1, <3>2, <3>4 DEF AfterTransfer
    <3> QED
      BY <3>3, <3>4
  <2> QED
    BY <1>3, <2>1, <2>2, GovernanceAssumption DEF Transfer, GovMoves
<1>4. ASSUME NextBlock
      PROVE  /\ UNCHANGED <<balances, delegates, snapshots>>
             /\ blockNumber' = blockNumber + 1
  BY <1>4 DEF NextBlock
<1> QED
  BY <1>1, <1>2, <1>3, <1>4 DEF GovNext, MintStep, BurnStep, SendStep, govVars

LEMMA GovNextInv == GovInv /\ [GovNext]_govVars => GovInv'
<1> SUFFICES ASSUME GovInv, [GovNext]_govVars PROVE GovInv'
  OBVIOUS
<1>0. GovTypeOK
  BY DEF GovInv
<1>1. ASSUME GovMoves PROVE GovInv'
  BY <1>1, HookKeepsInv DEF GovMoves
<1>2. ASSUME DelegateStep PROVE GovInv'
  <2>1. PICK a \in Accounts, d \in Accounts, types \in SUBSET DelegationTypes :
            DelegateTypes(a, d, types)
    BY <1>2 DEF DelegateStep, Delegate, DelegateByType
  <2> QED
    BY <2>1, DelegateKeepsInv
<1>3. ASSUME UNCHANGED <<balances, delegates, snapshots>>,
             blockNumber' \in {blockNumber, blockNumber + 1}
      PROVE  GovInv'
  <2>1. GovTypeOK'
    BY <1>0, <1>3 DEF GovTypeOK
  <2>2. PowerIsDelegated'
    <3>1. ASSUME NEW t \in DelegationTypes, NEW d \in Accounts
          PROVE  /\ PreviousPower(t, d)' = PreviousPower(t, d)
                 /\ DelegatedTo(t, d)' = DelegatedTo(t, d)
      BY <1>3 DEF PreviousPower, DelegatedTo, GetDelegatee
    <3> QED
      BY <3>1 DEF PowerIsDelegated, GovInv
  <2>3. DelegationsHaveSnapshots'
    BY <1>3 DEF DelegationsHaveSnapshots, GovInv
  <2> QED
    BY <2>1, <2>2, <2>3 DEF GovInv
<1> QED
  BY <1>0, <1>1, <1>2, <1>3, GovSteps

\* The types, the power of every account and the snapshots behind every
\* delegation, in every reachable state.
THEOREM GovInvHolds == GovSpec => []GovInv
<1> QED
  BY GovInitInv, GovNextInv, PTL DEF GovSpec

(***************************************************************************)
(* One token, one vote, for any number of accounts, any history of mints,  *)
(* burns, transfers and delegations.                                       *)
(***************************************************************************)
THEOREM PowerAlwaysDelegated == GovSpec => []PowerIsDelegated
<1>1. GovInv => PowerIsDelegated
  BY DEF GovInv
<1> QED
  BY <1>1, GovInvHolds, PTL

-----------------------------------------------------------------------------
(* The order of the snapshots. *)

\* A list in order at a block is in order at the next.
LEMMA LaterBlockInOrder ==
    ASSUME NEW list, NEW block \in Nat, InBlockOrder(list, block),
           \A i \in 1 .. Len(list) : list[i].blockNumber \in Nat
    PROVE  InBlockOrder(list, block + 1)
<1>1. ASSUME NEW i \in 1 .. Len(list) PROVE list[i].blockNumber <= block + 1
  <2> DEFINE b == list[i].blockNumber
  <2>1. b \in Nat /\ b <= block
    BY DEF InBlockOrder
  <2> HIDE DEF b
  <2>2. b <= block + 1
    BY <2>1
  <2> QED
    BY <2>2 DEF b
<1> QED
  BY <1>1 DEF InBlockOrder

\* A write in the current block keeps the order.
LEMMA WriteSnapshotInOrder ==
    ASSUME NEW list \in Seq(Snapshot), NEW v, NEW block \in Nat,
           InBlockOrder(list, block)
    PROVE  InBlockOrder(WriteSnapshot(list, block, v), block)
<1>1. ASSUME NEW i \in 1 .. Len(list) PROVE list[i].blockNumber \in Nat
  <2>1. list[i] \in Snapshot
    OBVIOUS
  <2> QED
    BY <2>1 DEF Snapshot
<1>2. CASE list # <<>> /\ Latest(list).blockNumber = block
  <2> DEFINE written == WriteSnapshot(list, block, v)
  <2>1. Len(list) \in 1 .. Len(list)
    BY <1>2
  <2>2. /\ Len(written) = Len(list)
        /\ \A i \in 1 .. Len(list) : written[i].blockNumber = list[i].blockNumber
    <3> DEFINE new == [list[Len(list)] EXCEPT !.value = v]
    <3>1. written = [list EXCEPT ![Len(list)] = new]
      BY <1>2 DEF WriteSnapshot
    <3>2. new.blockNumber = list[Len(list)].blockNumber
      <4>1. list[Len(list)] \in Snapshot
        BY <2>1
      <4> QED
        BY <4>1 DEF Snapshot
    <3> HIDE DEF new, written
    <3> QED
      BY <2>1, <3>1, <3>2
  <2> HIDE DEF written
  <2>3. InBlockOrder(written, block)
    BY <2>2 DEF InBlockOrder
  <2> QED
    BY <2>3 DEF written
<1>3. CASE ~ (list # <<>> /\ Latest(list).blockNumber = block)
  <2> DEFINE entry == [blockNumber |-> block, value |-> v]
             written == Append(list, entry)
  <2>1. WriteSnapshot(list, block, v) = written
    BY <1>3 DEF WriteSnapshot
  <2>2. /\ Len(written) = Len(list) + 1
        /\ \A i \in 1 .. Len(list) : written[i] = list[i]
        /\ written[Len(list) + 1].blockNumber = block
    OBVIOUS
  <2>3. \A i \in 1 .. Len(list) : list[i].blockNumber < block
    <3>1. CASE list = <<>>
      BY <3>1
    <3>2. CASE list # <<>>
      <4>1. Len(list) \in 1 .. Len(list)
        BY <3>2
      <4>2. list[Len(list)].blockNumber < block
        BY <1>1, <1>3, <3>2, <4>1 DEF InBlockOrder, Latest
      <4>3. ASSUME NEW i \in 1 .. Len(list) PROVE list[i].blockNumber < block
        <5>1. CASE i = Len(list)
          BY <4>2, <5>1
        <5>2. CASE i # Len(list)
          <6>1. list[i].blockNumber < list[Len(list)].blockNumber
            BY <4>1, <5>2 DEF InBlockOrder
          <6> QED
            BY <1>1, <4>1, <4>2, <6>1
        <5> QED
          BY <5>1, <5>2
      <4> QED
        BY <4>3
    <3> QED
      BY <3>1, <3>2
  <2> HIDE DEF written
  <2>4. \A i \in 1 .. Len(written) : i \in 1 .. Len(list) \/ i = Len(list) + 1
    BY <2>2
  <2>5. InBlockOrder(written, block)
    BY <2>2, <2>3, <2>4 DEF InBlockOrder
  <2> QED
    BY <2>1, <2>5
<1> QED
  BY <1>2, <1>3

\* _moveDelegatesByType keeps every snapshot list in the order of its blocks.
LEMMA MoveInOrder ==
    ASSUME GovTypeOK, SnapshotsOrdered, NEW t \in DelegationTypes,
           NEW from, NEW to, NEW amount, NEW d \in Accounts
    PROVE  InBlockOrder(MoveDelegates(t, from, to, amount)[d], blockNumber)
<1>1. /\ snapshots[t][d] \in Seq(Snapshot)
      /\ InBlockOrder(snapshots[t][d], blockNumber)
      /\ blockNumber \in Nat
  BY GovTypes DEF SnapshotsOrdered
<1>2. \/ MoveDelegates(t, from, to, amount)[d] = snapshots[t][d]
      \/ \E v : MoveDelegates(t, from, to, amount)[d]
                    = WriteSnapshot(snapshots[t][d], blockNumber, v)
  BY DEF MoveDelegates
<1> QED
  BY <1>1, <1>2, WriteSnapshotInOrder

\* The hook of a transfer, mint or burn keeps the order.
LEMMA HookKeepsOrder ==
    ASSUME GovTypeOK, SnapshotsOrdered, NEW from, NEW to, NEW n,
           BeforeTokenTransfer(from, to, n), UNCHANGED blockNumber
    PROVE  SnapshotsOrdered'
<1>1. ASSUME NEW t \in DelegationTypes, NEW d \in Accounts
      PROVE  InBlockOrder(snapshots'[t][d], blockNumber')
  <2>1. snapshots'[t][d] = MoveDelegates(t, GetDelegatee(t, from),
                                         GetDelegatee(t, to), n)[d]
    BY DEF BeforeTokenTransfer
  <2>2. InBlockOrder(snapshots'[t][d], blockNumber)
    BY <2>1, MoveInOrder
  <2> QED
    BY <2>2
<1> QED
  BY <1>1 DEF SnapshotsOrdered

\* A delegation keeps the order.
LEMMA DelegateKeepsOrder ==
    ASSUME GovTypeOK, SnapshotsOrdered, NEW a \in Accounts, NEW e \in Accounts,
           NEW types \in SUBSET DelegationTypes, DelegateTypes(a, e, types)
    PROVE  SnapshotsOrdered'
<1>1. ASSUME NEW t \in DelegationTypes, NEW d \in Accounts
      PROVE  InBlockOrder(snapshots'[t][d], blockNumber')
  <2>1. \/ snapshots'[t][d] = snapshots[t][d]
        \/ snapshots'[t][d] = MoveDelegates(t, GetDelegatee(t, a), e, balances[a])[d]
    BY DEF DelegateTypes
  <2>2. InBlockOrder(snapshots'[t][d], blockNumber)
    BY <2>1, MoveInOrder DEF SnapshotsOrdered
  <2> QED
    BY <2>2 DEF DelegateTypes
<1> QED
  BY <1>1 DEF SnapshotsOrdered

\* The next block keeps the order.
LEMMA BlockKeepsOrder ==
    ASSUME GovTypeOK, SnapshotsOrdered, blockNumber' = blockNumber + 1,
           UNCHANGED snapshots
    PROVE  SnapshotsOrdered'
<1>1. blockNumber \in Nat
  BY DEF GovTypeOK
<1>2. ASSUME NEW t \in DelegationTypes, NEW d \in Accounts
      PROVE  InBlockOrder(snapshots[t][d], blockNumber')
  <2>1. snapshots[t][d] \in Seq(Snapshot) /\ InBlockOrder(snapshots[t][d], blockNumber)
    BY GovTypes DEF SnapshotsOrdered
  <2>2. ASSUME NEW i \in 1 .. Len(snapshots[t][d])
        PROVE  snapshots[t][d][i].blockNumber \in Nat
    <3>1. snapshots[t][d][i] \in Snapshot
      BY <2>1
    <3> QED
      BY <3>1 DEF Snapshot
  <2> QED
    BY <1>1, <2>1, <2>2, LaterBlockInOrder
<1> QED
  BY <1>2 DEF SnapshotsOrdered

(***************************************************************************)
(* At most one snapshot per block and all of them in order, for every      *)
(* history: the precondition of the binary search.                         *)
(***************************************************************************)
THEOREM SnapshotsAlwaysOrdered == GovSpec => []SnapshotsOrdered
<1>1. GovInit => SnapshotsOrdered
  BY DEF GovInit, SnapshotsOrdered, InBlockOrder
<1>2. GovInv /\ SnapshotsOrdered /\ [GovNext]_govVars => SnapshotsOrdered'
  <2> SUFFICES ASSUME GovInv, SnapshotsOrdered, [GovNext]_govVars
               PROVE  SnapshotsOrdered'
    OBVIOUS
  <2>0. GovTypeOK
    BY DEF GovInv
  <2>1. CASE MintStep
    BY <2>0, <2>1, HookKeepsOrder DEF MintStep, Mint
  <2>2. CASE BurnStep
    BY <2>0, <2>2, HookKeepsOrder DEF BurnStep, Burn
  <2>3. CASE SendStep
    BY <2>0, <2>3, HookKeepsOrder DEF SendStep, Transfer
  <2>4. CASE DelegateStep
    BY <2>0, <2>4, DelegateKeepsOrder DEF DelegateStep, Delegate, DelegateByType
  <2>5. CASE NextBlock
    BY <2>0, <2>5, BlockKeepsOrder DEF NextBlock
  <2>6. CASE UNCHANGED govVars
    BY <2>6 DEF SnapshotsOrdered, govVars
  <2> QED
    BY <2>1, <2>2, <2>3, <2>4, <2>5, <2>6 DEF GovNext
<1> QED
  BY <1>1, <1>2, GovInvHolds, PTL DEF GovSpec

-----------------------------------------------------------------------------
(* The binary search. *)

Ranges(list) == (1 .. Len(list)) \X (1 .. Len(list))

\* The function that the loop computes: what one round finds, given what the
\* next rounds find.
IsSearch(f, list, b) == f = [range \in Ranges(list) |-> SearchRound(list, b, f, range)]

\* A round looks only at smaller ranges.
LEMMA RoundNarrows ==
    ASSUME NEW list, Len(list) \in Nat, NEW b, NEW r \in Ranges(list), NEW f, NEW g,
           \A s \in Ranges(list) : s[2] - s[1] < r[2] - r[1] => f[s] = g[s]
    PROVE  SearchRound(list, b, f, r) = SearchRound(list, b, g, r)
<1> DEFINE lower == r[1]
           upper == r[2]
           center == upper - (upper - lower) \div 2
<1>1. lower \in 1 .. Len(list) /\ upper \in 1 .. Len(list)
  BY DEF Ranges
<1>2. CASE upper <= lower
  BY <1>2 DEF SearchRound
<1>3. CASE ~ (upper <= lower)
  <2>1. center \in (lower + 1) .. upper /\ upper - center < upper - lower
    <3>1. upper - lower \in Nat /\ upper - lower # 0
      BY <1>1, <1>3
    <3>2. (upper - lower) \div 2 \in 0 .. ((upper - lower) - 1)
      BY <3>1, HalfIsLess
    <3> DEFINE half == (upper - lower) \div 2
    <3> HIDE DEF half
    <3>3. center = upper - half /\ half \in 0 .. ((upper - lower) - 1)
      BY <3>2 DEF half
    <3> HIDE DEF center
    <3> QED
      BY <1>1, <3>3
  <2> HIDE DEF center
  <2>2. /\ <<center, upper>> \in Ranges(list)
        /\ <<lower, center - 1>> \in Ranges(list)
        /\ (center - 1) - lower < upper - lower
    BY <1>1, <2>1 DEF Ranges
  <2>3. f[<<center, upper>>] = g[<<center, upper>>]
    BY <2>1, <2>2
  <2>4. f[<<lower, center - 1>>] = g[<<lower, center - 1>>]
    BY <2>2
  <2> QED
    BY <2>3, <2>4 DEF SearchRound, center
<1> QED
  BY <1>2, <1>3

\* The loop ends: by induction on the width of a range, there is a function
\* that satisfies the recursive definition.
LEMMA SearchExists ==
    ASSUME NEW list, Len(list) \in Nat, NEW b
    PROVE  \E f : IsSearch(f, list, b)
<1> DEFINE Solves(f, n) == \A r \in Ranges(list) :
                r[2] - r[1] < n => f[r] = SearchRound(list, b, f, r)
           T == {n \in Nat : \E f : Solves(f, n)}
<1>0. \A r \in Ranges(list) : r[1] \in Int /\ r[2] \in Int
  BY DEF Ranges
<1>1. 0 \in T
  <2> DEFINE f == [r \in Ranges(list) |-> list[r[1]].value]
  <2>1. ASSUME NEW r \in Ranges(list), r[2] - r[1] < 0
        PROVE  f[r] = SearchRound(list, b, f, r)
    <3>1. r[2] <= r[1]
      BY <1>0, <2>1
    <3> QED
      BY <3>1 DEF SearchRound
  <2> QED
    BY <2>1
<1>2. ASSUME NEW n \in T PROVE n + 1 \in T
  <2>1. PICK f : Solves(f, n)
    OBVIOUS
  <2> DEFINE g == [r \in Ranges(list) |-> SearchRound(list, b, f, r)]
  <2>2. ASSUME NEW r \in Ranges(list), r[2] - r[1] < n + 1
        PROVE  g[r] = SearchRound(list, b, g, r)
    <3>1. ASSUME NEW s \in Ranges(list), s[2] - s[1] < r[2] - r[1]
          PROVE  f[s] = g[s]
      <4>1. s[2] - s[1] < n
        BY <1>0, <2>2, <3>1
      <4> QED
        BY <2>1, <4>1
    <3> HIDE DEF g
    <3>2. SearchRound(list, b, f, r) = SearchRound(list, b, g, r)
      BY <3>1, RoundNarrows
    <3> QED
      BY <3>2 DEF g
  <2> HIDE DEF g
  <2>3. Solves(g, n + 1)
    BY <2>2
  <2> QED
    BY <2>3
<1> HIDE DEF T
<1>3. T = Nat
  BY <1>1, <1>2, SetInduction DEF T
<1>4. PICK f : Solves(f, Len(list))
  BY <1>3 DEF T
<1> DEFINE g == [r \in Ranges(list) |-> SearchRound(list, b, f, r)]
<1>5. \A r \in Ranges(list) : f[r] = g[r]
  <2>1. \A r \in Ranges(list) : r[2] - r[1] < Len(list)
    BY DEF Ranges
  <2> QED
    BY <1>4, <2>1
<1>6. \A r \in Ranges(list) : SearchRound(list, b, f, r) = SearchRound(list, b, g, r)
  <2> HIDE DEF g
  <2> QED
    BY <1>5, RoundNarrows
<1>7. g = [r \in Ranges(list) |-> SearchRound(list, b, g, r)]
  <2> DEFINE h == [r \in Ranges(list) |-> SearchRound(list, b, g, r)]
  <2>1. g = h
    BY <1>6
  <2> QED
    BY <2>1
<1> HIDE DEF g
<1> QED
  BY <1>7 DEF IsSearch

\* What BinarySearch is.
LEMMA BinarySearchIsSearch ==
    ASSUME NEW list, Len(list) \in Nat, NEW b
    PROVE  \E f : IsSearch(f, list, b) /\ BinarySearch(list, b) = f[<<1, Len(list)>>]
<1> DEFINE f == CHOOSE search : search =
                    [range \in (1 .. Len(list)) \X (1 .. Len(list)) |->
                        SearchRound(list, b, search, range)]
<1>1. f = [range \in (1 .. Len(list)) \X (1 .. Len(list)) |->
                SearchRound(list, b, f, range)]
  BY SearchExists DEF IsSearch, Ranges
<1>2. BinarySearch(list, b) = f[<<1, Len(list)>>]
  BY DEF BinarySearch
<1> QED
  BY <1>1, <1>2 DEF IsSearch, Ranges

\* k is the latest snapshot of the list that is not after b.
IsLatestAt(k, list, b) ==
    /\ k \in 1 .. Len(list) /\ list[k].blockNumber <= b
    /\ \A j \in 1 .. Len(list) : list[j].blockNumber <= b => j <= k

\* The loop invariant of _searchByBlockNumber.
Brackets(r, list, b) ==
    /\ r[1] <= r[2]
    /\ list[r[1]].blockNumber <= b
    /\ r[2] # Len(list) => b < list[r[2] + 1].blockNumber

\* A round finds the latest snapshot not after the block, or narrows the range.
LEMMA RoundKeepsBrackets ==
    ASSUME NEW list \in Seq(Snapshot), NEW b \in Nat, NEW f, IsSearch(f, list, b),
           \A i, j \in 1 .. Len(list) : i < j => list[i].blockNumber < list[j].blockNumber,
           NEW r \in Ranges(list), Brackets(r, list, b)
    PROVE  \/ \E k : IsLatestAt(k, list, b) /\ f[r] = list[k].value
           \/ \E s \in Ranges(list) : /\ s[2] - s[1] < r[2] - r[1]
                                      /\ Brackets(s, list, b)
                                      /\ f[r] = f[s]
<1> DEFINE lower  == r[1]
           upper  == r[2]
           center == upper - (upper - lower) \div 2
           found  == list[center].blockNumber
<1>1. lower \in 1 .. Len(list) /\ upper \in 1 .. Len(list) /\ Len(list) \in Nat
  BY DEF Ranges
<1>2. \A i \in 1 .. Len(list) : list[i].blockNumber \in Nat
  <2>1. \A i \in 1 .. Len(list) : list[i] \in Snapshot
    OBVIOUS
  <2> QED
    BY <2>1 DEF Snapshot
<1>3. f[r] = SearchRound(list, b, f, r)
  <2> DEFINE round(s) == SearchRound(list, b, f, s)
  <2> HIDE DEF round
  <2>1. f = [s \in Ranges(list) |-> round(s)]
    BY DEF IsSearch, round
  <2>2. f[r] = round(r)
    BY <2>1
  <2> QED
    BY <2>2 DEF round
<1>4. CASE upper <= lower
  <2>1. upper = lower /\ f[r] = list[lower].value
    BY <1>1, <1>3, <1>4 DEF SearchRound, Brackets
  <2>2. ASSUME NEW j \in 1 .. Len(list), ~ (j <= lower)
        PROVE  ~ (list[j].blockNumber <= b)
    <3>1. upper + 1 \in 1 .. Len(list) /\ b < list[upper + 1].blockNumber
      BY <1>1, <2>1, <2>2 DEF Brackets
    <3>2. j = upper + 1 \/ list[upper + 1].blockNumber < list[j].blockNumber
      BY <1>1, <2>1, <2>2, <3>1
    <3> QED
      BY <1>2, <3>1, <3>2
  <2>3. IsLatestAt(lower, list, b)
    BY <1>1, <2>2 DEF IsLatestAt, Brackets
  <2> QED
    BY <2>1, <2>3
<1>5. CASE ~ (upper <= lower)
  <2>1. center \in (lower + 1) .. upper /\ upper - center < upper - lower
    <3>1. upper - lower \in Nat /\ upper - lower # 0
      BY <1>1, <1>5
    <3>2. (upper - lower) \div 2 \in 0 .. ((upper - lower) - 1)
      BY <3>1, HalfIsLess
    <3> DEFINE half == (upper - lower) \div 2
    <3> HIDE DEF half
    <3>3. center = upper - half /\ half \in 0 .. ((upper - lower) - 1)
      BY <3>2 DEF half
    <3> HIDE DEF center
    <3> QED
      BY <1>1, <3>3
  <2> HIDE DEF center
  <2>2. center \in 1 .. Len(list) /\ found \in Nat
    BY <1>1, <1>2, <2>1
  <2>3. CASE found = b
    <3>1. f[r] = list[center].value
      BY <1>3, <1>5, <2>3 DEF SearchRound, center
    <3>2. \A j \in 1 .. Len(list) : list[j].blockNumber <= b => j <= center
      BY <1>2, <2>2, <2>3
    <3>3. IsLatestAt(center, list, b)
      BY <2>2, <2>3, <3>2 DEF IsLatestAt
    <3> QED
      BY <3>1, <3>3
  <2>4. CASE found < b
    <3> DEFINE s == <<center, upper>>
    <3>1. f[r] = f[s]
      BY <1>3, <1>5, <2>2, <2>4 DEF SearchRound, center
    <3>2. s \in Ranges(list) /\ s[2] - s[1] < r[2] - r[1]
      BY <1>1, <2>1, <2>2 DEF Ranges
    <3>3. Brackets(s, list, b)
      BY <1>1, <2>1, <2>2, <2>4 DEF Brackets
    <3> QED
      BY <3>1, <3>2, <3>3
  <2>5. CASE b < found
    <3> DEFINE s == <<lower, center - 1>>
    <3>1. f[r] = f[s]
      BY <1>3, <1>5, <2>2, <2>5 DEF SearchRound, center
    <3>2. s \in Ranges(list) /\ s[2] - s[1] < r[2] - r[1]
      BY <1>1, <2>1, <2>2 DEF Ranges
    <3>3. Brackets(s, list, b)
      BY <1>1, <2>1, <2>2, <2>5 DEF Brackets
    <3> QED
      BY <3>1, <3>2, <3>3
  <2> QED
    BY <2>2, <2>3, <2>4, <2>5
<1> QED
  BY <1>4, <1>5

\* The loop finds the latest snapshot not after the block.
LEMMA BinarySearchFinds ==
    ASSUME NEW list \in Seq(Snapshot), NEW b \in Nat, list # <<>>,
           \A i, j \in 1 .. Len(list) : i < j => list[i].blockNumber < list[j].blockNumber,
           list[1].blockNumber <= b
    PROVE  \E k : IsLatestAt(k, list, b) /\ BinarySearch(list, b) = list[k].value
<1>1. Len(list) \in Nat /\ 1 \in 1 .. Len(list)
  OBVIOUS
<1>2. PICK f : IsSearch(f, list, b) /\ BinarySearch(list, b) = f[<<1, Len(list)>>]
  BY <1>1, BinarySearchIsSearch
<1> DEFINE Found(r) == \E k : IsLatestAt(k, list, b) /\ f[r] = list[k].value
           T == {n \in Nat : \A r \in Ranges(list) :
                    Brackets(r, list, b) /\ r[2] - r[1] < n => Found(r)}
<1>3. 0 \in T
  BY DEF Ranges, Brackets
<1>4. ASSUME NEW n \in T PROVE n + 1 \in T
  <2>1. ASSUME NEW r \in Ranges(list), Brackets(r, list, b), r[2] - r[1] < n + 1
        PROVE  Found(r)
    <3>1. CASE \E s \in Ranges(list) : /\ s[2] - s[1] < r[2] - r[1]
                                       /\ Brackets(s, list, b)
                                       /\ f[r] = f[s]
      <4>1. PICK s \in Ranges(list) : /\ s[2] - s[1] < r[2] - r[1]
                                      /\ Brackets(s, list, b)
                                      /\ f[r] = f[s]
        BY <3>1
      <4>2. s[2] - s[1] < n
        BY <2>1, <4>1 DEF Ranges
      <4>3. Found(s)
        BY <4>1, <4>2
      <4> QED
        BY <4>1, <4>3
    <3> QED
      BY <1>2, <2>1, <3>1, RoundKeepsBrackets
  <2> HIDE DEF Found
  <2> QED
    BY <2>1
<1> HIDE DEF T, Found
<1>5. T = Nat
  BY <1>3, <1>4, SetInduction DEF T
<1> DEFINE all == <<1, Len(list)>>
<1>6. all \in Ranges(list) /\ Brackets(all, list, b) /\ all[2] - all[1] < Len(list)
  BY <1>1 DEF Ranges, Brackets
<1>7. Found(all)
  BY <1>1, <1>5, <1>6 DEF T
<1> QED
  BY <1>2, <1>7 DEF Found

\* A list is in the order of the blocks.
Ordered(list) ==
    \A i, j \in 1 .. Len(list) : i < j => list[i].blockNumber < list[j].blockNumber

\* The whole of _searchByBlockNumber: the balance when there is no snapshot, 0
\* when all are later, else the value of the latest one not after the block.
AnswersTo(found, list, balance, b) ==
    /\ list = <<>> => found = balance
    /\ list # <<>> /\ (\A k \in 1 .. Len(list) : ~ (list[k].blockNumber <= b)) => found = 0
    /\ \A k : IsLatestAt(k, list, b) => found = list[k].value
    /\ list # <<>> /\ list[1].blockNumber <= b => \E k : IsLatestAt(k, list, b)

\* The answer for a list in order.
LEMMA SearchAnswers ==
    ASSUME NEW list \in Seq(Snapshot), Ordered(list), NEW balance, NEW b \in Nat
    PROVE  AnswersTo(SearchByBlockNumber(list, balance, b), list, balance, b)
<1> DEFINE found == SearchByBlockNumber(list, balance, b)
<1> SUFFICES /\ list = <<>> => found = balance
             /\ list # <<>> /\ (\A k \in 1 .. Len(list) : ~ (list[k].blockNumber <= b))
                  => found = 0
             /\ \A k : IsLatestAt(k, list, b) => found = list[k].value
             /\ list # <<>> /\ list[1].blockNumber <= b => \E k : IsLatestAt(k, list, b)
  BY DEF AnswersTo
<1>1. CASE list = <<>>
  <2>1. found = balance /\ \A k : k \notin 1 .. Len(list)
    BY <1>1 DEF SearchByBlockNumber
  <2> QED
    BY <1>1, <2>1 DEF IsLatestAt
<1>2. CASE list # <<>>
  <2>1. /\ Len(list) \in Nat /\ 1 \in 1 .. Len(list) /\ Len(list) \in 1 .. Len(list)
        /\ \A i \in 1 .. Len(list) : list[i] \in Snapshot
    BY <1>2
  <2>2. \A i \in 1 .. Len(list) : list[i].blockNumber \in Nat
    BY <2>1 DEF Snapshot
  <2>3. \A j, k : IsLatestAt(j, list, b) /\ IsLatestAt(k, list, b) => j = k
    BY DEF IsLatestAt
  <2>4. CASE Latest(list).blockNumber <= b
    <3>1. found = list[Len(list)].value
      BY <1>2, <2>4 DEF SearchByBlockNumber, Latest
    <3>2. IsLatestAt(Len(list), list, b)
      BY <2>1, <2>4 DEF IsLatestAt, Latest
    <3>3. \A k : IsLatestAt(k, list, b) => found = list[k].value
      BY <2>3, <3>1, <3>2
    <3>4. list[Len(list)].blockNumber <= b
      BY <2>4 DEF Latest
    <3> HIDE DEF found
    <3> QED
      BY <1>2, <2>1, <3>2, <3>3, <3>4 DEF found
  <2>5. CASE ~ (Latest(list).blockNumber <= b) /\ list[1].blockNumber > b
    <3>1. found = 0
      BY <1>2, <2>5 DEF SearchByBlockNumber
    <3>2. ASSUME NEW k \in 1 .. Len(list) PROVE ~ (list[k].blockNumber <= b)
      <4>1. k = 1 \/ list[1].blockNumber < list[k].blockNumber
        BY <2>1 DEF Ordered
      <4> QED
        BY <2>1, <2>2, <2>5, <4>1
    <3>3. ~ (list[1].blockNumber <= b)
      BY <2>1, <3>2
    <3> HIDE DEF found
    <3> QED
      BY <1>2, <3>1, <3>2, <3>3 DEF IsLatestAt, found
  <2>6. CASE ~ (Latest(list).blockNumber <= b) /\ ~ (list[1].blockNumber > b)
    <3>1. found = BinarySearch(list, b)
      BY <1>2, <2>6 DEF SearchByBlockNumber
    <3>2. list[1].blockNumber <= b
      BY <2>1, <2>2, <2>6
    <3>3. PICK k : IsLatestAt(k, list, b) /\ BinarySearch(list, b) = list[k].value
      BY <1>2, <3>2, BinarySearchFinds DEF Ordered
    <3>4. \A j : IsLatestAt(j, list, b) => found = list[j].value
      BY <2>3, <3>1, <3>3
    <3> HIDE DEF found
    <3> QED
      BY <1>2, <2>1, <3>2, <3>3, <3>4 DEF found
  <2> QED
    BY <2>4, <2>5, <2>6
<1> QED
  BY <1>1, <1>2

\* In order at a block, hence in order.
LEMMA InBlockOrderOrdered ==
    ASSUME GovTypeOK, SnapshotsOrdered, NEW t \in DelegationTypes, NEW d \in Accounts
    PROVE  /\ snapshots[t][d] \in Seq(Snapshot)
           /\ Ordered(snapshots[t][d])
           /\ InBlockOrder(snapshots[t][d], blockNumber)
  BY GovTypes DEF SnapshotsOrdered, InBlockOrder, Ordered

(***************************************************************************)
(* The binary search finds the latest snapshot that is not after the       *)
(* block, in lists of any length and for any block.  By induction on the   *)
(* width of the range that is left: each round keeps the snapshot it looks *)
(* for between lower and upper, and ends or halves the range.              *)
(* (_searchByBlockNumber)                                                  *)
(***************************************************************************)
THEOREM SearchAlwaysFindsLatest == GovSpec => []SearchFindsLatest
<1>1. GovInv /\ SnapshotsOrdered => SearchFindsLatest
  <2> SUFFICES ASSUME GovInv, SnapshotsOrdered,
                      NEW t \in DelegationTypes, NEW d \in Accounts,
                      NEW b \in 0 .. blockNumber
               PROVE  GetPowerAtBlock(d, b, t) = PowerAtBlock(d, b, t)
    BY DEF SearchFindsLatest
  <2> DEFINE list    == snapshots[t][d]
             found   == SearchByBlockNumber(list, balances[d], b)
             earlier == {i \in 1 .. Len(list) : list[i].blockNumber <= b}
             newest  == CHOOSE i \in earlier : \A j \in earlier : j <= i
  <2>1. GovTypeOK /\ b \in Nat
    BY DEF GovInv, GovTypeOK
  <2>2. list \in Seq(Snapshot) /\ Ordered(list)
    BY <2>1, InBlockOrderOrdered
  <2> HIDE DEF list
  <2>10. /\ list = <<>> => found = balances[d]
         /\ list # <<>> /\ (\A k \in 1 .. Len(list) : ~ (list[k].blockNumber <= b))
              => found = 0
         /\ \A k : IsLatestAt(k, list, b) => found = list[k].value
         /\ list # <<>> /\ list[1].blockNumber <= b => \E k : IsLatestAt(k, list, b)
    <3>1. AnswersTo(found, list, balances[d], b)
      BY <2>1, <2>2, SearchAnswers
    <3> HIDE DEF found
    <3> QED
      BY <3>1 DEF AnswersTo
  <2>11. earlier = {} => \A k \in 1 .. Len(list) : ~ (list[k].blockNumber <= b)
    OBVIOUS
  <2>3. /\ list = <<>> => found = balances[d]
        /\ list # <<>> /\ earlier = {} => found = 0
        /\ \A k : IsLatestAt(k, list, b) => found = list[k].value
        /\ list # <<>> /\ list[1].blockNumber <= b => \E k : IsLatestAt(k, list, b)
    <3> HIDE DEF found, earlier
    <3> QED
      BY <2>10, <2>11
  <2>4. ASSUME list # <<>>, earlier # {} PROVE IsLatestAt(newest, list, b)
    <3>1. PICK i \in 1 .. Len(list) : list[i].blockNumber <= b
      BY <2>4
    <3>2. 1 \in 1 .. Len(list) /\ \A j \in 1 .. Len(list) : list[j] \in Snapshot
      BY <2>2, <2>4
    <3>3. list[1].blockNumber \in Nat /\ list[i].blockNumber \in Nat
      BY <3>2 DEF Snapshot
    <3>4. i = 1 \/ list[1].blockNumber < list[i].blockNumber
      BY <2>2, <3>1, <3>2 DEF Ordered
    <3>5. list[1].blockNumber <= b
      BY <2>1, <3>1, <3>3, <3>4
    <3>6. \E k : IsLatestAt(k, list, b)
      BY <2>3, <2>4, <3>5
    <3>7. \E k \in earlier : \A j \in earlier : j <= k
      BY <3>6 DEF IsLatestAt
    <3>8. newest \in earlier /\ \A j \in earlier : j <= newest
      BY <3>7
    <3> HIDE DEF newest
    <3> QED
      BY <3>8 DEF IsLatestAt
  <2>5. GetPowerAtBlock(d, b, t) = found
    BY DEF GetPowerAtBlock, list
  <2>6. PowerAtBlock(d, b, t) = IF list = <<>> THEN balances[d]
                                ELSE IF earlier = {} THEN 0 ELSE list[newest].value
    BY DEF PowerAtBlock, list
  <2> HIDE DEF found, newest, earlier
  <2> QED
    BY <2>3, <2>4, <2>5, <2>6
<1> QED
  BY <1>1, GovInvHolds, SnapshotsAlwaysOrdered, PTL

-----------------------------------------------------------------------------
(* The past. *)

\* A write in the current block changes no answer about an earlier one.
LEMMA WriteKeepsPast ==
    ASSUME NEW list \in Seq(Snapshot), NEW block \in Nat, InBlockOrder(list, block),
           NEW v \in Nat, NEW b \in Nat, b < block,
           NEW before, NEW after, list = <<>> => before = 0
    PROVE  SearchByBlockNumber(WriteSnapshot(list, block, v), after, b)
                = SearchByBlockNumber(list, before, b)
<1> DEFINE new   == WriteSnapshot(list, block, v)
           entry == [blockNumber |-> block, value |-> v]
           found == SearchByBlockNumber(list, before, b)
           foundNew == SearchByBlockNumber(new, after, b)
<1>1. new \in Seq(Snapshot) /\ new # <<>>
  BY WriteSnapshotLatest
<1>2. Ordered(list) /\ Ordered(new)
  BY WriteSnapshotInOrder DEF InBlockOrder, Ordered
<1>3. /\ Len(list) <= Len(new)
      /\ \A k \in 1 .. Len(list) : list[k].blockNumber <= b => new[k] = list[k]
      /\ \A k \in 1 .. Len(new) : new[k].blockNumber <= b =>
            k \in 1 .. Len(list) /\ new[k] = list[k]
  <2>1. CASE list # <<>> /\ Latest(list).blockNumber = block
    <3>1. Len(list) \in 1 .. Len(list) /\ list[Len(list)] \in Snapshot
      BY <2>1
    <3> DEFINE last == [list[Len(list)] EXCEPT !.value = v]
    <3>2. last.blockNumber = block /\ list[Len(list)].blockNumber = block
      BY <2>1, <3>1 DEF Snapshot, Latest
    <3>3. new = [list EXCEPT ![Len(list)] = last]
      BY <2>1 DEF WriteSnapshot
    <3> HIDE DEF new, last
    <3>4. /\ Len(new) = Len(list)
          /\ \A k \in 1 .. Len(list) : new[k] = IF k = Len(list) THEN last ELSE list[k]
      BY <3>1, <3>3
    <3>5. ~ (block <= b)
      OBVIOUS
    <3> QED
      BY <3>2, <3>4, <3>5
  <2>2. CASE ~ (list # <<>> /\ Latest(list).blockNumber = block)
    <3>1. new = Append(list, entry)
      BY <2>2 DEF WriteSnapshot
    <3> HIDE DEF new
    <3>2. /\ Len(new) = Len(list) + 1
          /\ \A k \in 1 .. Len(list) : new[k] = list[k]
          /\ new[Len(list) + 1].blockNumber = block
      BY <3>1
    <3>3. ~ (block <= b)
      OBVIOUS
    <3>4. \A k \in 1 .. Len(new) : k \in 1 .. Len(list) \/ k = Len(list) + 1
      BY <3>2
    <3> QED
      BY <3>2, <3>3, <3>4
  <2> QED
    BY <2>1, <2>2
<1> HIDE DEF new
<1>4. AnswersTo(foundNew, new, after, b) /\ AnswersTo(found, list, before, b)
  BY <1>1, <1>2, SearchAnswers
<1> HIDE DEF found, foundNew
<1>5. /\ new # <<>> /\ (\A k \in 1 .. Len(new) : ~ (new[k].blockNumber <= b))
            => foundNew = 0
      /\ \A k : IsLatestAt(k, new, b) => foundNew = new[k].value
      /\ new # <<>> /\ new[1].blockNumber <= b => \E k : IsLatestAt(k, new, b)
      /\ list = <<>> => found = before
      /\ list # <<>> /\ (\A k \in 1 .. Len(list) : ~ (list[k].blockNumber <= b))
            => found = 0
      /\ \A k : IsLatestAt(k, list, b) => found = list[k].value
  BY <1>4 DEF AnswersTo
<1>6. CASE \E k : IsLatestAt(k, new, b)
  <2>1. PICK k : IsLatestAt(k, new, b)
    BY <1>6
  <2>2. k \in 1 .. Len(list) /\ new[k] = list[k]
    BY <1>3, <2>1 DEF IsLatestAt
  <2>3. IsLatestAt(k, list, b)
    BY <1>3, <2>1, <2>2 DEF IsLatestAt
  <2> QED
    BY <1>5, <2>1, <2>2, <2>3 DEF found, foundNew, new
<1>7. CASE ~ \E k : IsLatestAt(k, new, b)
  <2>1. ~ (new[1].blockNumber <= b)
    BY <1>1, <1>5, <1>7
  <2>2. ASSUME NEW k \in 1 .. Len(new) PROVE ~ (new[k].blockNumber <= b)
    <3>1. 1 \in 1 .. Len(new) /\ \A j \in 1 .. Len(new) : new[j] \in Snapshot
      BY <1>1
    <3>2. k = 1 \/ new[1].blockNumber < new[k].blockNumber
      BY <1>2, <3>1 DEF Ordered
    <3>3. new[1].blockNumber \in Nat /\ new[k].blockNumber \in Nat
      BY <3>1 DEF Snapshot
    <3> QED
      BY <2>1, <3>2, <3>3
  <2>3. foundNew = 0
    BY <1>1, <1>5, <2>2
  <2>4. \A k \in 1 .. Len(list) : ~ (list[k].blockNumber <= b)
    <3> SUFFICES ASSUME NEW k \in 1 .. Len(list), list[k].blockNumber <= b PROVE FALSE
      OBVIOUS
    <3>1. Len(list) \in Nat /\ Len(new) \in Nat
      BY <1>1
    <3>2. k \in 1 .. Len(new) /\ new[k] = list[k]
      BY <1>3, <3>1
    <3> QED
      BY <2>2, <3>2
  <2>5. found = 0
    BY <1>5, <2>4
  <2> QED
    BY <2>3, <2>5 DEF found, foundNew, new
<1> QED
  BY <1>6, <1>7

(***************************************************************************)
(* What makes the balance stand for the power of an account without a      *)
(* snapshot, at any block of the past: it never had anything.              *)
(***************************************************************************)
NothingUnrecorded(t) ==
    \A d \in Accounts : snapshots[t][d] = <<>> => balances[d] = 0

NothingWithoutSnapshot == \A t \in DelegationTypes : NothingUnrecorded(t)

\* A delegation, or a transfer, mint or burn: the snapshots of one type are
\* left alone, or moved from one delegate to another.
LEMMA MoveKeepsPast ==
    ASSUME GovInv, SnapshotsOrdered,
           NEW t \in DelegationTypes, NothingUnrecorded(t), NothingUnrecorded(t)',
           NEW d \in Accounts, NEW b \in Nat, b < blockNumber, NEW amount \in Nat,
           NEW from \in Accounts \cup {ZeroAddress},
           NEW to \in Accounts \cup {ZeroAddress},
           CanMoveDelegates(t, from, to, amount),
           \/ snapshots'[t][d] = snapshots[t][d]
           \/ snapshots'[t][d] = MoveDelegates(t, from, to, amount)[d]
    PROVE  GetPowerAtBlock(d, b, t)' = GetPowerAtBlock(d, b, t)
<1> DEFINE list == snapshots[t][d]
<1>1. /\ GovTypeOK /\ blockNumber \in Nat /\ PreviousPower(t, d) \in Nat
      /\ list \in Seq(Snapshot) /\ Ordered(list)
      /\ InBlockOrder(list, blockNumber)
      /\ (list = <<>> => balances[d] = 0)
      /\ (snapshots'[t][d] = <<>> => balances'[d] = 0)
  BY GovTypes, InBlockOrderOrdered DEF GovInv, NothingUnrecorded
<1>2. CASE snapshots'[t][d] = list
  <2>1. ASSUME list # <<>>
        PROVE  SearchByBlockNumber(list, balances'[d], b)
                    = SearchByBlockNumber(list, balances[d], b)
    BY <2>1 DEF SearchByBlockNumber
  <2>2. CASE list = <<>>
    BY <1>1, <1>2, <2>2 DEF GetPowerAtBlock
  <2>3. CASE list # <<>>
    BY <1>2, <2>1, <2>3 DEF GetPowerAtBlock
  <2> QED
    BY <2>2, <2>3
<1>3. CASE snapshots'[t][d] # list
  <2>1. from # to /\ snapshots'[t][d] = MoveDelegates(t, from, to, amount)[d]
    BY <1>3 DEF MoveDelegates
  <2>2. PICK v \in Nat : snapshots'[t][d] = WriteSnapshot(list, blockNumber, v)
    <3>1. CASE d = from
      <4>1. PreviousPower(t, d) - amount \in Nat
        BY <1>1, <2>1, <3>1, GovernanceAssumption DEF CanMoveDelegates
      <4> QED
        BY <2>1, <3>1, <4>1 DEF MoveDelegates
    <3>2. CASE d # from
      <4>1. PreviousPower(t, d) + amount \in Nat
        BY <1>1
      <4>2. d = to
        BY <1>3, <2>1, <3>2 DEF MoveDelegates
      <4> QED
        BY <2>1, <3>2, <4>1, <4>2 DEF MoveDelegates
    <3> QED
      BY <3>1, <3>2
  <2> HIDE DEF list
  <2>3. SearchByBlockNumber(WriteSnapshot(list, blockNumber, v), balances'[d], b)
            = SearchByBlockNumber(list, balances[d], b)
    BY <1>1, WriteKeepsPast
  <2> QED
    BY <2>2, <2>3 DEF GetPowerAtBlock, list
<1> QED
  BY <1>2, <1>3

\* What the hook of a transfer, mint or burn leaves of that: the delegate it
\* moves the power to gets a snapshot.
LEMMA HookKeepsNothing ==
    ASSUME GovInv, NEW t \in DelegationTypes, NothingUnrecorded(t),
           NEW amount \in Nat, NEW from \in Accounts \cup {ZeroAddress},
           NEW to \in Accounts \cup {ZeroAddress},
           from \in Accounts => amount <= balances[from],
           BeforeTokenTransfer(from, to, amount),
           balances' = AfterTransfer(from, to, amount)
    PROVE  NothingUnrecorded(t)'
<1> SUFFICES ASSUME NEW d \in Accounts, snapshots'[t][d] = <<>>
             PROVE  balances'[d] = 0
  BY DEF NothingUnrecorded
<1> DEFINE giver == GetDelegatee(t, from)
           taker == GetDelegatee(t, to)
           moved == MoveDelegates(t, giver, taker, amount)[d]
<1>1. GovTypeOK /\ DelegationsHaveSnapshots /\ balances[d] \in Nat
  BY GovTypes DEF GovInv
<1>2. /\ giver \in Accounts \cup {ZeroAddress}
      /\ taker \in Accounts \cup {ZeroAddress}
  BY <1>1, GovTypes DEF GetDelegatee
<1>3. CanMoveDelegates(t, giver, taker, amount) /\ moved = <<>>
  BY DEF BeforeTokenTransfer
<1>4. /\ snapshots[t][d] = <<>>
      /\ giver # taker => d # giver /\ d # taker
  <2> HIDE DEF giver, taker
  <2>1. moved # <<>> \/ (moved = snapshots[t][d] /\ (giver # taker => d # giver /\ d # taker))
    BY <1>1, <1>2, <1>3, MoveEffect
  <2> QED
    BY <1>3, <2>1
<1>5. balances[d] = 0
  BY <1>4 DEF NothingUnrecorded
\* d delegates to nobody: a delegator has a snapshot.
<1>6. GetDelegatee(t, d) = d
  BY <1>1, <1>4, GovernanceAssumption DEF GetDelegatee, DelegationsHaveSnapshots
<1>7. CASE d = from
  <2>1. amount = 0
    BY <1>5, <1>7
  <2> QED
    BY <1>5, <1>7, <2>1 DEF AfterTransfer
<1>8. CASE d # from /\ d = to /\ from # to
  <2>1. giver = taker
    BY <1>4, <1>6, <1>8
  <2>2. giver = d /\ from \in Accounts
    BY <1>6, <1>8, <2>1, GovernanceAssumption DEF GetDelegatee
  \* from delegates to d, which would have a snapshot.
  <2>3. delegates[t][from] = d
    BY <1>8, <2>2 DEF GetDelegatee
  <2>4. snapshots[t][d] # <<>>
    BY <1>1, <1>8, <2>2, <2>3, GovernanceAssumption DEF DelegationsHaveSnapshots
  <2> QED
    BY <1>4, <2>4
<1>9. CASE d # from /\ (d # to \/ from = to)
  BY <1>5, <1>9 DEF AfterTransfer
<1> QED
  BY <1>7, <1>8, <1>9

\* A delegation takes no snapshot away.
LEMMA DelegateKeepsNothing ==
    ASSUME GovInv, NEW t \in DelegationTypes, NothingUnrecorded(t),
           NEW a \in Accounts, NEW e \in Accounts,
           NEW types \in SUBSET DelegationTypes, DelegateTypes(a, e, types)
    PROVE  NothingUnrecorded(t)'
<1>1. ASSUME NEW d \in Accounts, snapshots[t][d] # <<>>
      PROVE  snapshots'[t][d] # <<>>
  <2>1. CASE t \notin types
    BY <1>1, <2>1 DEF DelegateTypes
  <2>2. CASE t \in types
    <3>1. /\ CanMoveDelegates(t, GetDelegatee(t, a), e, balances[a])
          /\ snapshots'[t] = MoveDelegates(t, GetDelegatee(t, a), e, balances[a])
      BY <2>2 DEF DelegateTypes
    <3>2. GetDelegatee(t, a) \in Accounts /\ balances[a] \in Nat /\ GovTypeOK
      BY GovTypes DEF GovInv
    <3> QED
      BY <1>1, <3>1, <3>2, MoveEffect
  <2> QED
    BY <2>1, <2>2
<1> QED
  BY <1>1 DEF NothingUnrecorded, DelegateTypes

(***************************************************************************)
(* An account without a snapshot has nothing, so that its balance of today *)
(* is also its power at every block of the past: the account that receives *)
(* a first token, or its delegate, always gets a snapshot.                 *)
(* (_beforeTokenTransfer, _searchByBlockNumber when snapshotsCount is 0)   *)
(***************************************************************************)
THEOREM NothingEverWithoutSnapshot == GovSpec => []NothingWithoutSnapshot
<1>1. GovInit => NothingWithoutSnapshot
  BY DEF GovInit, NothingWithoutSnapshot, NothingUnrecorded
<1>2. GovInv /\ NothingWithoutSnapshot /\ [GovNext]_govVars => NothingWithoutSnapshot'
  <2> SUFFICES ASSUME GovInv, [GovNext]_govVars,
                      NEW t \in DelegationTypes, NothingUnrecorded(t)
               PROVE  NothingUnrecorded(t)'
    BY DEF NothingWithoutSnapshot
  <2>1. ASSUME GovMoves PROVE NothingUnrecorded(t)'
    BY <2>1, HookKeepsNothing DEF GovMoves
  <2>2. ASSUME DelegateStep PROVE NothingUnrecorded(t)'
    BY <2>2, DelegateKeepsNothing DEF DelegateStep, Delegate, DelegateByType
  <2>3. ASSUME UNCHANGED <<balances, snapshots>> PROVE NothingUnrecorded(t)'
    BY <2>3 DEF NothingUnrecorded
  <2> QED
    BY <2>1, <2>2, <2>3, GovSteps DEF GovInv
<1> QED
  BY <1>1, <1>2, GovInvHolds, PTL DEF GovSpec

\* The hook of a transfer, mint or burn changes no answer about an earlier block.
LEMMA HookKeepsPast ==
    ASSUME GovInv, SnapshotsOrdered, NEW t \in DelegationTypes,
           NothingUnrecorded(t), NothingUnrecorded(t)',
           NEW d \in Accounts, NEW b \in Nat, b < blockNumber, NEW amount \in Nat,
           NEW from \in Accounts \cup {ZeroAddress},
           NEW to \in Accounts \cup {ZeroAddress},
           BeforeTokenTransfer(from, to, amount)
    PROVE  GetPowerAtBlock(d, b, t)' = GetPowerAtBlock(d, b, t)
<1>1. /\ CanMoveDelegates(t, GetDelegatee(t, from), GetDelegatee(t, to), amount)
      /\ snapshots'[t][d] = MoveDelegates(t, GetDelegatee(t, from),
                                          GetDelegatee(t, to), amount)[d]
  BY DEF BeforeTokenTransfer
<1>2. /\ GetDelegatee(t, from) \in Accounts \cup {ZeroAddress}
      /\ GetDelegatee(t, to) \in Accounts \cup {ZeroAddress}
  BY GovTypes DEF GetDelegatee, GovInv
<1> QED
  BY <1>1, <1>2, MoveKeepsPast

\* A delegation changes no answer about an earlier block.
LEMMA DelegateKeepsPast ==
    ASSUME GovInv, SnapshotsOrdered, NEW t \in DelegationTypes,
           NothingUnrecorded(t), NothingUnrecorded(t)',
           NEW d \in Accounts, NEW b \in Nat, b < blockNumber,
           NEW a \in Accounts, NEW e \in Accounts,
           NEW types \in SUBSET DelegationTypes, DelegateTypes(a, e, types)
    PROVE  GetPowerAtBlock(d, b, t)' = GetPowerAtBlock(d, b, t)
<1>1. CASE t \notin types
  <2>1. snapshots'[t] = snapshots[t] /\ balances' = balances
    BY <1>1 DEF DelegateTypes
  <2> QED
    BY <2>1 DEF GetPowerAtBlock
<1>2. CASE t \in types
  <2>1. /\ CanMoveDelegates(t, GetDelegatee(t, a), e, balances[a])
        /\ snapshots'[t][d] = MoveDelegates(t, GetDelegatee(t, a), e, balances[a])[d]
    BY <1>2 DEF DelegateTypes
  <2>2. GetDelegatee(t, a) \in Accounts /\ balances[a] \in Nat
    BY GovTypes DEF GovInv
  <2> QED
    BY <2>1, <2>2, MoveKeepsPast
<1> QED
  BY <1>1, <1>2

\* What no step changes: the answers about the blocks that end before its own.
PastKept ==
    \A t \in DelegationTypes, d \in Accounts, b \in 0 .. blockNumber :
        b < blockNumber' => GetPowerAtBlock(d, b, t)' = GetPowerAtBlock(d, b, t)

LEMMA NextKeepsPast ==
    GovInv /\ SnapshotsOrdered /\ NothingWithoutSnapshot /\ NothingWithoutSnapshot'
        /\ [GovNext]_govVars => PastKept
<1> SUFFICES ASSUME GovInv, SnapshotsOrdered, [GovNext]_govVars,
                    NEW t \in DelegationTypes,
                    NothingUnrecorded(t), NothingUnrecorded(t)',
                    NEW d \in Accounts, NEW b \in 0 .. blockNumber, b < blockNumber'
             PROVE  GetPowerAtBlock(d, b, t)' = GetPowerAtBlock(d, b, t)
  BY DEF NothingWithoutSnapshot, PastKept
<1>1. ASSUME GovMoves PROVE GetPowerAtBlock(d, b, t)' = GetPowerAtBlock(d, b, t)
  <2>1. PICK from \in Accounts \cup {ZeroAddress},
             to \in Accounts \cup {ZeroAddress}, n \in Nat :
            BeforeTokenTransfer(from, to, n) /\ UNCHANGED blockNumber
    BY <1>1 DEF GovMoves
  <2> QED
    BY <2>1, HookKeepsPast
<1>2. ASSUME DelegateStep PROVE GetPowerAtBlock(d, b, t)' = GetPowerAtBlock(d, b, t)
  <2>1. PICK a \in Accounts, e \in Accounts, types \in SUBSET DelegationTypes :
            DelegateTypes(a, e, types)
    BY <1>2 DEF DelegateStep, Delegate, DelegateByType
  <2>2. blockNumber' = blockNumber
    BY <2>1 DEF DelegateTypes
  <2> QED
    BY <2>1, <2>2, DelegateKeepsPast
<1>3. ASSUME UNCHANGED <<balances, snapshots>>
      PROVE  GetPowerAtBlock(d, b, t)' = GetPowerAtBlock(d, b, t)
  BY <1>3 DEF GetPowerAtBlock
<1> QED
  BY <1>1, <1>2, <1>3, GovSteps DEF GovInv

(***************************************************************************)
(* The past is fixed: whatever happens, the power an account had at the    *)
(* end of a block never changes again, for any list of snapshots, of any   *)
(* length.                                                                 *)
(***************************************************************************)
THEOREM PastPowerNeverChanges == GovSpec => PastPowerFixed
<1>1. PastKept => [PastKept]_govVars
  OBVIOUS
<1> QED
  BY <1>1, NextKeepsPast, GovInvHolds, SnapshotsAlwaysOrdered,
     NothingEverWithoutSnapshot, PTL
  DEF PastPowerFixed, GovSpec, PastKept

\* The types of the state of the delegation, in every reachable state.
THEOREM GovTypesAlwaysHold == GovSpec => []GovTypeOK
<1>1. GovInv => GovTypeOK
  BY DEF GovInv
<1> QED
  BY <1>1, GovInvHolds, PTL

-----------------------------------------------------------------------------
(* The register of votes. *)

\* The abstract specification's sums are the sums of this one.
LEMMA RegisterSums == ASSUME NEW f PROVE Register!Total(f) = Total(f)
<1>1. Register!Units(f) = Units(f)
  BY DEF Units, Register!Units
<1> QED
  BY <1>1, Zenon DEF Total, Register!Total, Cardinality, Register!Cardinality

\* What the register counts for an account is what its delegators own.
LEMMA CountIsDelegated ==
    ASSUME NEW t \in DelegationTypes, NEW d \in Accounts
    PROVE  Register!Count(t, d) = Total(DelegatedTo(t, d))
<1>1. ASSUME NEW a \in Accounts
      PROVE  Register!SpeaksFor(t, d, a) <=> GetDelegatee(t, a) = d
  BY GovernanceAssumption DEF Register!SpeaksFor, GetDelegatee
<1>2. [a \in Accounts |-> IF Register!SpeaksFor(t, d, a) THEN balances[a] ELSE 0]
        = DelegatedTo(t, d)
  BY <1>1 DEF DelegatedTo
<1> QED
  BY <1>2, RegisterSums DEF Register!Count

\* The answer about the present block is the latest snapshot.
LEMMA AnswerNow ==
    ASSUME GovTypeOK, SnapshotsOrdered, NEW t \in DelegationTypes, NEW d \in Accounts
    PROVE  GetPowerAtBlock(d, blockNumber, t) = PreviousPower(t, d)
<1> DEFINE list == snapshots[t][d]
<1>1. list \in Seq(Snapshot) /\ InBlockOrder(list, blockNumber)
  BY InBlockOrderOrdered
<1>2. CASE list = <<>>
  BY <1>2 DEF GetPowerAtBlock, SearchByBlockNumber, PreviousPower
<1>3. CASE list # <<>>
  <2>1. Len(list) \in 1 .. Len(list)
    BY <1>1, <1>3
  <2>2. Latest(list).blockNumber <= blockNumber
    BY <1>1, <2>1 DEF InBlockOrder, Latest
  <2> QED
    BY <1>3, <2>2 DEF GetPowerAtBlock, SearchByBlockNumber, PreviousPower
<1> QED
  BY <1>2, <1>3

\* The present block is counted: the answer about it is what is delegated now.
PresentCounted ==
    \A t \in DelegationTypes, d \in Accounts :
        GetPowerAtBlock(d, blockNumber, t) = Register!Count(t, d)

LEMMA PresentIsCounted == GovInv /\ SnapshotsOrdered => PresentCounted
<1> SUFFICES ASSUME GovInv, SnapshotsOrdered,
                    NEW t \in DelegationTypes, NEW d \in Accounts
             PROVE  GetPowerAtBlock(d, blockNumber, t) = Register!Count(t, d)
  BY DEF PresentCounted
<1>1. GovTypeOK /\ PowerIsDelegated
  BY DEF GovInv
<1> QED
  BY <1>1, AnswerNow, CountIsDelegated DEF PowerIsDelegated

\* What getPowerAtBlock answers about the blocks so far.
Answers ==
    [t \in DelegationTypes |-> [d \in Accounts |->
        [b \in 0 .. blockNumber |-> GetPowerAtBlock(d, b, t)]]]

\* A step within a block only counts the present block again.
LEMMA StepRecounts ==
    ASSUME PresentCounted', PastKept, blockNumber \in Nat, UNCHANGED blockNumber
    PROVE  Register!Recount
<1> DEFINE counted(t, d) ==
              [Answers[t][d] EXCEPT ![blockNumber] = Register!Count(t, d)']
<1>1. ASSUME NEW t \in DelegationTypes, NEW d \in Accounts, NEW b \in 0 .. blockNumber
      PROVE  GetPowerAtBlock(d, b, t)' = counted(t, d)[b]
  <2>1. Answers[t][d] = [c \in 0 .. blockNumber |-> GetPowerAtBlock(d, c, t)]
    BY DEF Answers
  <2>2. CASE b < blockNumber
    <3>1. GetPowerAtBlock(d, b, t)' = GetPowerAtBlock(d, b, t)
      BY <2>2 DEF PastKept
    <3> QED
      BY <2>1, <2>2, <3>1
  <2>3. CASE b = blockNumber
    <3>1. GetPowerAtBlock(d, b, t)' = GetPowerAtBlock(d, blockNumber, t)'
      BY <2>3
    <3>2. GetPowerAtBlock(d, blockNumber, t)' = Register!Count(t, d)'
      BY DEF PresentCounted
    <3> QED
      BY <2>1, <2>3, <3>1, <3>2
  <2> QED
    BY <2>2, <2>3
<1>2. Answers' = [t \in DelegationTypes |-> [d \in Accounts |-> counted(t, d)]]
  <2>1. ASSUME NEW t \in DelegationTypes, NEW d \in Accounts
        PROVE  counted(t, d) = [b \in 0 .. blockNumber |-> GetPowerAtBlock(d, b, t)']
    <3>1. DOMAIN counted(t, d) = 0 .. blockNumber
      BY DEF Answers
    <3>2. counted(t, d) = [b \in 0 .. blockNumber |-> counted(t, d)[b]]
      BY <3>1
    <3> HIDE DEF counted
    <3> QED
      BY <1>1, <3>2
  <2> HIDE DEF counted
  <2> QED
    BY <2>1 DEF Answers
<1> QED
  BY <1>2 DEF Register!Recount, Answers

(***************************************************************************)
(* The delegation implements the register of votes, for any accounts, any  *)
(* types and any number of blocks: what getPowerAtBlock answers for a      *)
(* block is what the accounts owned at its end that delegated to the one   *)
(* asked for, a delegation changes the record of its own block only, and a *)
(* new block starts from what the last one left.                           *)
(***************************************************************************)
THEOREM RegisterImplemented == GovSpec => ImplementsRegister
<1>1. GovInit => Register!RegisterInit
  <2> SUFFICES ASSUME GovInit PROVE Register!RegisterInit
    OBVIOUS
  <2>1. blockNumber \in Nat
    BY GovernanceAssumption DEF GovInit
  <2>2. ASSUME NEW t \in DelegationTypes, NEW d \in Accounts, NEW b \in 0 .. blockNumber
        PROVE  GetPowerAtBlock(d, b, t) = 0
    BY DEF GovInit, GetPowerAtBlock, SearchByBlockNumber
  <2> QED
    BY <2>1, <2>2 DEF GovInit, Register!RegisterInit
<1>2. GovInv /\ GovInv' /\ PresentCounted /\ PresentCounted' /\ PastKept
        /\ [GovNext]_govVars => [Register!RegisterNext]_Register!registerVars
  <2> SUFFICES ASSUME GovInv, GovInv', PresentCounted, PresentCounted', PastKept,
                      [GovNext]_govVars
               PROVE  [Register!RegisterNext]_Register!registerVars
    OBVIOUS
  <2>0. GovTypeOK /\ GovTypeOK' /\ blockNumber \in Nat
    BY DEF GovInv, GovTypeOK
  <2>1. ASSUME GovMoves PROVE Register!RegisterNext
    <3>1. UNCHANGED <<blockNumber, delegates>>
      BY <2>1 DEF GovMoves
    <3>2. Register!Recount
      BY <2>0, <3>1, StepRecounts
    <3> QED
      BY <2>0, <3>1, <3>2 DEF Register!RegisterNext, Register!Move, GovTypeOK
  <2>2. ASSUME DelegateStep PROVE Register!RegisterNext
    <3>1. PICK a \in Accounts, e \in Accounts, types \in SUBSET DelegationTypes :
              DelegateTypes(a, e, types)
      BY <2>2 DEF DelegateStep, Delegate, DelegateByType
    <3>2. /\ UNCHANGED <<blockNumber, balances>>
          /\ delegates' = [t \in DelegationTypes |->
                IF t \in types THEN [delegates[t] EXCEPT ![a] = e] ELSE delegates[t]]
      BY <3>1 DEF DelegateTypes
    <3>3. Register!Recount
      BY <2>0, <3>2, StepRecounts
    <3>4. Register!Appoint(a, e, types)
      BY <3>2, <3>3 DEF Register!Appoint
    <3> QED
      BY <3>4 DEF Register!RegisterNext
  <2>3. ASSUME UNCHANGED <<balances, delegates, snapshots>>, UNCHANGED blockNumber
        PROVE  UNCHANGED Register!registerVars
    BY <2>3 DEF Register!registerVars, GetPowerAtBlock
  <2>4. ASSUME UNCHANGED <<balances, delegates, snapshots>>,
               blockNumber' = blockNumber + 1
        PROVE  Register!RegisterNext
    <3>1. ASSUME NEW t \in DelegationTypes, NEW d \in Accounts,
                 NEW b \in 0 .. blockNumber + 1
          PROVE  GetPowerAtBlock(d, b, t)' =
                    Answers[t][d][IF b = blockNumber + 1 THEN blockNumber ELSE b]
      <4>1. CASE b # blockNumber + 1
        <5>1. b \in 0 .. blockNumber
          BY <2>0, <4>1
        <5>2. GetPowerAtBlock(d, b, t)' = GetPowerAtBlock(d, b, t)
          BY <2>4 DEF GetPowerAtBlock
        <5> QED
          BY <4>1, <5>1, <5>2 DEF Answers
      <4>2. CASE b = blockNumber + 1
        <5>1. GetPowerAtBlock(d, b, t)' = Register!Count(t, d)'
          BY <2>4, <4>2 DEF PresentCounted
        <5>2. Register!Count(t, d)' = Register!Count(t, d)
          BY <2>4 DEF Register!Count, Register!SpeaksFor
        <5> QED
          BY <2>0, <4>2, <5>1, <5>2 DEF Answers, PresentCounted
      <4> QED
        BY <4>1, <4>2
    <3> QED
      BY <2>0, <2>4, <3>1 DEF Register!RegisterNext, Register!NewBlock, Answers
  <2> QED
    BY <2>0, <2>1, <2>2, <2>3, <2>4, GovSteps
<1> QED
  BY <1>1, <1>2, PresentIsCounted, NextKeepsPast, GovInvHolds, SnapshotsAlwaysOrdered,
     NothingEverWithoutSnapshot, PTL
  DEF GovSpec, ImplementsRegister, Register!RegisterSpec

-----------------------------------------------------------------------------
(* The votes and the supply. *)

\* Everybody's power of type t, in all, is the supply.
LEMMA DelegatedAddsUp ==
    ASSUME GovTypeOK, NEW t \in DelegationTypes
    PROVE  Total([d \in Accounts |-> Total(DelegatedTo(t, d))]) = Total(balances)
<1> DEFINE share == [a \in Accounts |-> [d \in Accounts |->
                        IF GetDelegatee(t, a) = d THEN balances[a] ELSE 0]]
           nothing == [d \in Accounts |-> 0]
<1>1. balances \in [Accounts -> Nat] /\ IsFiniteSet(Accounts)
  BY GovernanceAssumption DEF GovTypeOK
<1>2. share \in [Accounts -> [Accounts -> Nat]]
  BY <1>1
<1>3. \A d \in Accounts : DelegatedTo(t, d) = [a \in Accounts |-> share[a][d]]
  BY DEF DelegatedTo
<1>4. ASSUME NEW a \in Accounts PROVE Total(share[a]) = balances[a]
  <2> DEFINE own == share[a]
             e   == GetDelegatee(t, a)
  <2>1. e \in Accounts
    BY GovTypes
  <2>2. /\ own \in [Accounts -> Nat] /\ own[e] = balances[a]
        /\ \A d \in Accounts \ {e} : own[d] = 0
    BY <1>1, <1>2, <2>1
  <2>3. /\ nothing \in [Accounts -> Nat]
        /\ \A d \in Accounts : nothing[d] = 0
        /\ Total(nothing) = 0
    BY TotalZero
  <2> HIDE DEF own, e, nothing
  <2>4. \A d \in Accounts \ {e} : own[d] = nothing[d]
    BY <2>2, <2>3
  <2>5. Total(own) = Total(nothing) - nothing[e] + own[e]
    BY <1>1, <2>1, <2>2, <2>3, <2>4, TotalChange
  <2>6. nothing[e] = 0 /\ balances[a] \in Nat
    BY <1>1, <2>1, <2>3
  <2> QED
    BY <2>2, <2>3, <2>5, <2>6 DEF own
<1> HIDE DEF share
<1>5. Total([d \in Accounts |-> Total([a \in Accounts |-> share[a][d]])])
        = Total([a \in Accounts |-> Total(share[a])])
  BY <1>1, <1>2, TotalSwap
<1>6. [a \in Accounts |-> Total(share[a])] = balances
  BY <1>1, <1>4
<1>7. [d \in Accounts |-> Total([a \in Accounts |-> share[a][d]])]
        = [d \in Accounts |-> Total(DelegatedTo(t, d))]
  BY <1>3
<1> QED
  BY <1>5, <1>6, <1>7

(***************************************************************************)
(* The votes add up: the powers of each type that getPowerCurrent answers  *)
(* for all accounts are together the supply, so that no delegation makes a *)
(* vote and none loses one.  As past answers stay, the powers at a block   *)
(* are together what the supply was at its end.  (getPowerCurrent)         *)
(***************************************************************************)
VotesAddUp ==
    \A t \in DelegationTypes :
        Total([d \in Accounts |-> GetPowerAtBlock(d, blockNumber, t)]) = Total(balances)

THEOREM VotesAlwaysAddUp == GovSpec => []VotesAddUp
<1>1. GovInv /\ SnapshotsOrdered => VotesAddUp
  <2> SUFFICES ASSUME GovInv, SnapshotsOrdered, NEW t \in DelegationTypes
               PROVE  Total([d \in Accounts |-> GetPowerAtBlock(d, blockNumber, t)])
                        = Total(balances)
    BY DEF VotesAddUp
  <2>1. GovTypeOK /\ PowerIsDelegated
    BY DEF GovInv
  <2>2. \A d \in Accounts : GetPowerAtBlock(d, blockNumber, t) = Total(DelegatedTo(t, d))
    BY <2>1, AnswerNow DEF PowerIsDelegated
  <2>3. [d \in Accounts |-> GetPowerAtBlock(d, blockNumber, t)]
          = [d \in Accounts |-> Total(DelegatedTo(t, d))]
    BY <2>2
  <2> QED
    BY <2>1, <2>3, DelegatedAddsUp
<1> QED
  BY <1>1, GovInvHolds, SnapshotsAlwaysOrdered, PTL

=============================================================================
