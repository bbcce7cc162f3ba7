----------------------------- MODULE StakedToken -----------------------------
(***************************************************************************)
(* The staked token: the state and the handlers that StakedPSYS            *)
(* (revision 1) and StakedPSYSV3 (revision 2) have in common, line by      *)
(* line, with the ERC20 they inherit.  Source lines are those of           *)
(* contracts/stake/StakedPSYSV3.sol.                                       *)
(*                                                                         *)
(* One step is one transaction; "now" is the timestamp of the block it is  *)
(* in, and several transactions may fall in one block.  A transaction that *)
(* reverts changes nothing, so a require that fails is a guard.            *)
(*                                                                         *)
(* External code, modelled from how the contract uses it: the PSYS token   *)
(* (staked and reward token), whose balances are "psys", and the rewards   *)
(* vault, an account whose PSYS the contract may pull.  psys[RewardsVault] *)
(* stands for the smaller of the vault's balance and its approval.  A PSYS *)
(* transfer fails exactly when the payer has too little.                   *)
(***************************************************************************)
EXTENDS PegasysDistributionManager, FiniteSets

CONSTANTS
    Users,              \* the accounts that send transactions
    StakeContract,      \* the address of the contract itself
    RewardsVault,       \* REWARDS_VAULT
    COOLDOWN_SECONDS,
    UNSTAKE_WINDOW,
    MAX_UINT256,        \* type(uint256).max, "everything" for claimRewards
    Amounts,            \* amounts a caller passes
    Emissions,          \* values of emissionPerSecond the manager configures
    Misreports,         \* totalStaked the manager reports besides 0 and the truth
    InitialPSYS,        \* PSYS of every user before the first stake
    VaultPSYS,          \* PSYS the vault lets the contract pull
    StartTime,          \* the timestamp of the first block
    MaxTime             \* bound: the last timestamp the model reaches

Accounts    == Users \cup {StakeContract}
PsysHolders == Accounts \cup {RewardsVault}

(***************************************************************************)
(* A block's timestamp is decades past the epoch, so it exceeds the        *)
(* cooldown and the window together; the code relies on this when it       *)
(* subtracts both and when it takes a stamp of 0 for an expired one.       *)
(***************************************************************************)
ASSUME StakedTokenAssumption ==
    /\ IsFiniteSet(Users)
    /\ StakeContract \notin Users
    /\ RewardsVault \notin Accounts
    /\ COOLDOWN_SECONDS \in Nat
    /\ UNSTAKE_WINDOW \in Nat
    /\ StartTime \in Nat
    /\ StartTime > COOLDOWN_SECONDS + UNSTAKE_WINDOW
    /\ MaxTime \in Nat
    /\ MAX_UINT256 \in Nat
    /\ Amounts \subseteq Nat
    /\ Emissions \subseteq Nat
    /\ Misreports \subseteq Nat
    /\ InitialPSYS \in Nat
    /\ VaultPSYS \in Nat

VARIABLES
    now,                    \* block.timestamp
    asset,                  \* assets[address(this)]
    balances,               \* ERC20._balances
    totalSupply,            \* ERC20._totalSupply
    stakerRewardsToClaim,
    stakersCooldowns,
    psys                    \* balances of the PSYS token

vars == <<now, asset, balances, totalSupply, stakerRewardsToClaim,
          stakersCooldowns, psys>>

TypeOK ==
    /\ now \in Nat
    /\ asset \in AssetData(Accounts)
    /\ balances \in [Accounts -> Nat]
    /\ totalSupply \in Nat
    /\ stakerRewardsToClaim \in [Accounts -> Nat]
    /\ stakersCooldowns \in [Accounts -> Nat]
    /\ psys \in [PsysHolders -> Nat]

Init ==
    /\ now = StartTime
    /\ asset = EmptyAsset(Accounts)
    /\ balances = [a \in Accounts |-> 0]
    /\ totalSupply = 0
    /\ stakerRewardsToClaim = [a \in Accounts |-> 0]
    /\ stakersCooldowns = [a \in Accounts |-> 0]
    /\ psys = [h \in PsysHolders |-> IF h \in Users THEN InitialPSYS
                                     ELSE IF h = RewardsVault THEN VaultPSYS
                                     ELSE 0]

-----------------------------------------------------------------------------
(* Helpers of the handlers. *)

\* Mutant of Moved: the payer is not debited.
MovedWithoutDebit(ledger, from, to, amount) ==
    [ledger EXCEPT ![to] = @ + amount]

\* The two writes of an ERC20 transfer; from = to leaves the ledger alone.
Moved(ledger, from, to, amount) ==
    [[ledger EXCEPT ![from] = @ - amount] EXCEPT ![to] = @ + amount]

\* What u accrues when the distribution is settled now, and when that reverts.
CanAccrue(u) == RewardsDefined(asset, u, balances[u], totalSupply, now)
Accrued(u)   == AccruedRewards(asset, u, balances[u], totalSupply, now)
Settled(u)   == UpdateUserAsset(asset, u, totalSupply, now)

\* Mutant of UpdateCurrentUnclaimedRewards: updateStorage is ignored.
SettleWithoutStoring(u) ==
    /\ CanAccrue(u)
    /\ asset' = Settled(u)
    /\ UNCHANGED stakerRewardsToClaim

\* _updateCurrentUnclaimedRewards(u, balanceOf(u), true): settle and store.
UpdateCurrentUnclaimedRewards(u) ==
    /\ CanAccrue(u)
    /\ asset' = Settled(u)
    /\ stakerRewardsToClaim' = [stakerRewardsToClaim EXCEPT ![u] = @ + Accrued(u)]

minimalValidCooldownTimestamp == now - COOLDOWN_SECONDS - UNSTAKE_WINDOW

\* Mutants of GetNextCooldownTimestamp: an expired receiver is averaged like a
\* valid one; a receiver that is not waiting inherits the sender's stamp; the
\* sender's stamp is used as it is, also when it is 0 or expired.
NextStampExpiredKept(fromStamp, amount, to) ==
    LET toStamp   == stakersCooldowns[to]
        effective == IF minimalValidCooldownTimestamp > fromStamp
                     THEN now ELSE fromStamp
    IN  IF toStamp = 0 THEN 0
        ELSE IF effective < toStamp THEN toStamp
        ELSE (amount * effective + balances[to] * toStamp)
                \div (amount + balances[to])

NextStampInherited(fromStamp, amount, to) ==
    IF stakersCooldowns[to] = 0 THEN fromStamp ELSE stakersCooldowns[to]

NextStampRawSender(fromStamp, amount, to) ==
    LET toStamp == stakersCooldowns[to]
    IN  IF toStamp = 0 \/ minimalValidCooldownTimestamp > toStamp THEN 0
        ELSE IF fromStamp < toStamp THEN toStamp
        ELSE (amount * fromStamp + balances[to] * toStamp)
                \div (amount + balances[to])

\* Mutant: the later stamp instead of the average of both.
NextStampLater(fromStamp, amount, to) ==
    LET toStamp   == stakersCooldowns[to]
        effective == IF minimalValidCooldownTimestamp > fromStamp
                     THEN now ELSE fromStamp
    IN  IF toStamp = 0 \/ minimalValidCooldownTimestamp > toStamp THEN 0
        ELSE IF effective < toStamp THEN toStamp ELSE effective

(***************************************************************************)
(* getNextCooldownTimestamp: the stamp of "to" once it has received        *)
(* "amount" from a sender with the stamp "fromStamp" (0 for new tokens).   *)
(* The shadowed fromCooldownTimestamp of the code reads the parameter.     *)
(* The division reverts when amount and balance are both 0;                *)
(* NoStaleCooldown shows that it is not reached then.                      *)
(***************************************************************************)
GetNextCooldownTimestamp(fromStamp, amount, to) ==
    LET toStamp   == stakersCooldowns[to]
        effective == IF minimalValidCooldownTimestamp > fromStamp
                     THEN now ELSE fromStamp
    IN  IF toStamp = 0 \/ minimalValidCooldownTimestamp > toStamp THEN 0
        ELSE IF effective < toStamp THEN toStamp
        ELSE (amount * effective + balances[to] * toStamp)
                \div (amount + balances[to])

\* Mutant of StampAfter: an emptied account keeps its stamp.
StampNeverCleared(u, amount) == stakersCooldowns[u]

\* The stamp of u once "amount" has left: none if that was everything.
StampAfter(u, amount) ==
    IF balances[u] = amount THEN 0 ELSE stakersCooldowns[u]

-----------------------------------------------------------------------------
(* The transactions. *)

\* stake(onBehalfOf, amount), sent by sender, who pays for it.
Stake(sender, onBehalfOf, amount) ==
    /\ amount # 0
    /\ UpdateCurrentUnclaimedRewards(onBehalfOf)
    /\ stakersCooldowns' = [stakersCooldowns EXCEPT
            ![onBehalfOf] = GetNextCooldownTimestamp(0, amount, onBehalfOf)]
    /\ balances' = [balances EXCEPT ![onBehalfOf] = @ + amount]
    /\ totalSupply' = totalSupply + amount
    /\ amount <= psys[sender]
    /\ psys' = Moved(psys, sender, StakeContract, amount)
    /\ UNCHANGED now

\* Mutant of InUnstakeWindow: the window opens one second early.
InUnstakeWindowEarly(u) ==
    /\ now >= stakersCooldowns[u] + COOLDOWN_SECONDS
    /\ now - (stakersCooldowns[u] + COOLDOWN_SECONDS) <= UNSTAKE_WINDOW

\* The two requires of redeem on the caller's stamp.
InUnstakeWindow(u) ==
    /\ now > stakersCooldowns[u] + COOLDOWN_SECONDS
    /\ now - (stakersCooldowns[u] + COOLDOWN_SECONDS) <= UNSTAKE_WINDOW

\* Mutant of AmountToRedeem: the amount is not capped by the balance.
AmountToRedeemUncapped(u, amount) == amount

AmountToRedeem(u, amount) ==
    IF amount > balances[u] THEN balances[u] ELSE amount

\* Mutant of Redeem: the rewards are pulled from the vault on the way out.
RedeemWithRewards(u, to, amount) ==
    /\ amount # 0
    /\ InUnstakeWindow(u)
    /\ CanAccrue(u)
    /\ asset' = Settled(u)
    /\ LET amountToRedeem == AmountToRedeem(u, amount)
           rewards        == stakerRewardsToClaim[u] + Accrued(u)
           paid           == Moved(psys, StakeContract, to, amountToRedeem)
       IN  /\ stakerRewardsToClaim' = [stakerRewardsToClaim EXCEPT ![u] = 0]
           /\ balances' = [balances EXCEPT ![u] = @ - amountToRedeem]
           /\ totalSupply' = totalSupply - amountToRedeem
           /\ stakersCooldowns' = [stakersCooldowns EXCEPT
                                        ![u] = StampAfter(u, amountToRedeem)]
           /\ rewards <= paid[RewardsVault]
           /\ psys' = Moved(paid, RewardsVault, to, rewards)
    /\ UNCHANGED now

\* redeem(to, amount), sent by u.
Redeem(u, to, amount) ==
    /\ amount # 0
    /\ InUnstakeWindow(u)
    /\ UpdateCurrentUnclaimedRewards(u)
    /\ LET amountToRedeem == AmountToRedeem(u, amount)
       IN  /\ balances' = [balances EXCEPT ![u] = @ - amountToRedeem]
           /\ totalSupply' = totalSupply - amountToRedeem
           /\ stakersCooldowns' = [stakersCooldowns EXCEPT
                                        ![u] = StampAfter(u, amountToRedeem)]
           /\ amountToRedeem <= totalSupply
           /\ amountToRedeem <= psys[StakeContract]
           /\ psys' = Moved(psys, StakeContract, to, amountToRedeem)
    /\ UNCHANGED now

\* cooldown(), sent by u.
Cooldown(u) ==
    /\ balances[u] # 0
    /\ stakersCooldowns' = [stakersCooldowns EXCEPT ![u] = now]
    /\ UNCHANGED <<now, asset, balances, totalSupply, stakerRewardsToClaim, psys>>

AmountToClaim(u, amount) ==
    IF amount = MAX_UINT256 THEN stakerRewardsToClaim[u] + Accrued(u) ELSE amount

\* claimRewards(to, amount), sent by u.
ClaimRewards(u, to, amount) ==
    /\ CanAccrue(u)
    /\ asset' = Settled(u)
    /\ LET newTotalRewards == stakerRewardsToClaim[u] + Accrued(u)
           amountToClaim   == AmountToClaim(u, amount)
       IN  /\ amountToClaim <= newTotalRewards
           /\ stakerRewardsToClaim' = [stakerRewardsToClaim EXCEPT
                                        ![u] = newTotalRewards - amountToClaim]
           /\ amountToClaim <= psys[RewardsVault]
           /\ psys' = Moved(psys, RewardsVault, to, amountToClaim)
    /\ UNCHANGED <<now, balances, totalSupply, stakersCooldowns>>

(***************************************************************************)
(* _transfer, which transfer(to, amount) and transferFrom(from, to,        *)
(* amount) end in.  The allowance that transferFrom spends is not part of  *)
(* this module: whoever sends the transaction, "from" has agreed to it.    *)
(***************************************************************************)
TransferToSelf(from, amount) ==
    /\ UpdateCurrentUnclaimedRewards(from)
    /\ amount <= balances[from]
    /\ UNCHANGED <<now, balances, totalSupply, stakersCooldowns, psys>>

TransferToOther(from, to, amount) ==
    /\ from # to
    /\ CanAccrue(from)
    /\ CanAccrue(to)
    /\ asset' = UpdateUserAsset(Settled(from), to, totalSupply, now)
    /\ stakerRewardsToClaim' = [stakerRewardsToClaim EXCEPT
            ![from] = @ + Accrued(from), ![to] = @ + Accrued(to)]
    /\ stakersCooldowns' = [stakersCooldowns EXCEPT
            ![to]   = GetNextCooldownTimestamp(stakersCooldowns[from], amount, to),
            ![from] = StampAfter(from, amount)]
    /\ amount <= balances[from]
    /\ balances' = Moved(balances, from, to, amount)
    /\ UNCHANGED <<now, totalSupply, psys>>

(***************************************************************************)
(* configureAssets, sent by EMISSION_MANAGER for this contract's own       *)
(* distribution.  The stake is what the manager reports: the code does not *)
(* compare it with totalSupply.                                            *)
(***************************************************************************)
ConfigureAssets(emissionPerSecond, totalStaked) ==
    /\ asset' = ConfigureAsset(asset, emissionPerSecond, totalStaked, now)
    /\ UNCHANGED <<now, balances, totalSupply, stakerRewardsToClaim,
                   stakersCooldowns, psys>>

\* The next transaction is in a later block.
Tick ==
    /\ now < MaxTime
    /\ now' = now + 1
    /\ UNCHANGED <<asset, balances, totalSupply, stakerRewardsToClaim,
                   stakersCooldowns, psys>>

-----------------------------------------------------------------------------
Limits == Amounts \cup {MAX_UINT256}    \* amounts that may also say "everything"

StakeStep     == \E u \in Users, a \in Accounts, n \in Amounts : Stake(u, a, n)
RedeemStep    == \E u \in Users, a \in Accounts, n \in Limits : Redeem(u, a, n)
CooldownStep  == \E u \in Users : Cooldown(u)
ClaimStep     == \E u \in Users, a \in Accounts, n \in Limits : ClaimRewards(u, a, n)
TransferStep  == \E u \in Users, n \in Amounts \cup {0} :
                    \/ TransferToSelf(u, n)
                    \/ \E a \in Accounts : TransferToOther(u, a, n)
ConfigureStep == \E e \in Emissions, s \in {0, totalSupply} \cup Misreports :
                    ConfigureAssets(e, s)

Next == \/ StakeStep
        \/ RedeemStep
        \/ CooldownStep
        \/ ClaimStep
        \/ TransferStep
        \/ ConfigureStep
        \/ Tick

Spec == Init /\ [][Next]_vars

=============================================================================
