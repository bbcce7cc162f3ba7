--------------------- MODULE PegasysIncentivesController ---------------------
(***************************************************************************)
(* The incentives of the lending protocol's users: contracts/stake/        *)
(* PegasysIncentivesController.sol.  Every asset of the protocol, an       *)
(* aToken, is a distribution of its own; the rewards a user accrues in any *)
(* of them are stored in one number and paid from the rewards vault.       *)
(*                                                                         *)
(* One step is one transaction, with the timestamp "now".  External code,  *)
(* modelled from how the contract uses it:                                 *)
(*   - the aTokens: "lent" holds the balances that                         *)
(*     getScaledUserBalanceAndSupply answers with.  A listed asset reports *)
(*     every change of a balance with handleAction, giving the balance and *)
(*     the supply before the change;                                       *)
(*   - Impostors: other contracts at addresses the manager never listed.   *)
(*     Any of them may call handleAction or be named in a claim, and       *)
(*     answers what it likes (a stake of Reports);                         *)
(*   - the PSYS token, whose balances are "psys", and PSM, the staked      *)
(*     token, which takes the PSYS from the controller and credits the     *)
(*     receiver with as many stkPSYS, "staked".                            *)
(***************************************************************************)
EXTENDS PegasysDistributionManager, LedgerTotal, SequencesExt

CONSTANTS
    Users,              \* the users of the lending protocol
    Recipients,         \* the accounts rewards are paid to
    ListedAssets,       \* the aTokens the manager configures
    Impostors,          \* further addresses that act as assets
    Controller,         \* the address of the contract itself
    PSM,                \* the staked token
    RewardsVault,       \* REWARDS_VAULT
    EXTRA_PSM_REWARD,   \* per cent added to rewards that are staked
    Moves,              \* deposits and withdrawals: <<asset, user, new balance>>
    Reports,            \* stakes and supplies an impostor reports
    Amounts,            \* amounts a caller asks for
    AssetLists,         \* the lists of assets a caller passes
    EmissionLists,      \* the lists of <<asset, emission>> the manager passes
    VaultPSYS,          \* PSYS the vault lets the controller pull
    StartTime,          \* the timestamp of the first block
    MaxTime             \* bound: the last timestamp the model reaches

Assets == ListedAssets \cup Impostors

ASSUME ControllerAssumption ==
    /\ IsFiniteSet(Users) /\ IsFiniteSet(Assets)
    /\ ListedAssets \cap Impostors = {}
    /\ Controller # PSM /\ RewardsVault \notin {Controller, PSM}
    /\ {EXTRA_PSM_REWARD, VaultPSYS, StartTime, MaxTime} \subseteq Nat
    /\ Moves \subseteq ListedAssets \X Users \X Nat
    /\ Reports \cup Amounts \subseteq Nat
    /\ AssetLists \subseteq Seq(Assets)
    /\ EmissionLists \subseteq Seq(ListedAssets \X Nat)

VARIABLES
    now,                    \* block.timestamp
    assets,                 \* assets
    usersUnclaimedRewards,  \* _usersUnclaimedRewards
    lent,                   \* balances in the lending protocol
    psys,                   \* balances of the PSYS token
    staked                  \* stkPSYS of the recipients

controllerVars == <<now, assets, usersUnclaimedRewards, lent, psys, staked>>

ControllerInit ==
    /\ now = StartTime
    /\ assets = [a \in Assets |-> EmptyAsset(Users)]
    /\ usersUnclaimedRewards = [u \in Users |-> 0]
    /\ lent = [a \in ListedAssets |-> [u \in Users |-> 0]]
    /\ psys = [h \in {Controller, PSM, RewardsVault} \cup Recipients |->
                    IF h = RewardsVault THEN VaultPSYS ELSE 0]
    /\ staked = [r \in Recipients |-> 0]

-----------------------------------------------------------------------------
(* Settlement. *)

\* Mutant of HandleAction: the accrued rewards replace the stored ones.
HandleActionOverwriting(sender, user, userBalance, totalSupply) ==
    LET accruedRewards ==
            AccruedRewards(assets[sender], user, userBalance, totalSupply, now)
    IN  /\ RewardsDefined(assets[sender], user, userBalance, totalSupply, now)
        /\ assets' = [assets EXCEPT
                        ![sender] = UpdateUserAsset(@, user, totalSupply, now)]
        /\ usersUnclaimedRewards' = [usersUnclaimedRewards EXCEPT
                        ![user] = IF accruedRewards = 0 THEN @ ELSE accruedRewards]

\* Mutant of HandleAction: a newcomer, who has accrued nothing, keeps its index.
HandleActionNewcomer(sender, user, userBalance, totalSupply) ==
    LET accruedRewards ==
            AccruedRewards(assets[sender], user, userBalance, totalSupply, now)
    IN  /\ RewardsDefined(assets[sender], user, userBalance, totalSupply, now)
        /\ assets' = [assets EXCEPT
                        ![sender] = IF userBalance = 0
                                    THEN UpdateAssetState(@, totalSupply, now)
                                    ELSE UpdateUserAsset(@, user, totalSupply, now)]
        /\ usersUnclaimedRewards' = [usersUnclaimedRewards EXCEPT
                        ![user] = @ + accruedRewards]

(***************************************************************************)
(* handleAction(user, userBalance, totalSupply): the distribution is that  *)
(* of the sender, whoever it is; there is no other check.                  *)
(***************************************************************************)
HandleAction(sender, user, userBalance, totalSupply) ==
    LET accruedRewards ==
            AccruedRewards(assets[sender], user, userBalance, totalSupply, now)
    IN  /\ RewardsDefined(assets[sender], user, userBalance, totalSupply, now)
        /\ assets' = [assets EXCEPT
                        ![sender] = UpdateUserAsset(@, user, totalSupply, now)]
        /\ usersUnclaimedRewards' = [usersUnclaimedRewards EXCEPT
                        ![user] = @ + accruedRewards]

\* getScaledUserBalanceAndSupply of a listed asset, or of an impostor that
\* reports the stake "report".
StakeOf(user, report) ==
    [a \in Assets |-> IF a \in Impostors THEN report
                      ELSE [stakedByUser |-> lent[a][user],
                            totalStaked  |-> Total(lent[a])]]

\* Mutant of ClaimedNext: every entry of the list is settled against the
\* records from before the loop.
ClaimedNextCached(done, user, a, stake) ==
    [accruedRewards |-> done.accruedRewards + AccruedRewards(assets[a],
            user, stake.stakedByUser, stake.totalStaked, now),
     assets |-> [done.assets EXCEPT ![a] =
            UpdateUserAsset(@, user, stake.totalStaked, now)]]

\* One round of the loop of _claimRewards, for the asset a: "done" is what the
\* rounds before it left.
ClaimedNext(done, user, a, stake) ==
    [accruedRewards |-> done.accruedRewards + AccruedRewards(done.assets[a],
            user, stake.stakedByUser, stake.totalStaked, now),
     assets |-> [done.assets EXCEPT ![a] =
            UpdateUserAsset(@, user, stake.totalStaked, now)]]

(***************************************************************************)
(* _claimRewards: settle the user in one asset after the other.  An asset  *)
(* that occurs twice is already settled the second time.                   *)
(***************************************************************************)
ClaimedAssets(user, list, stakeOf) ==
    LET done[i \in 0 .. Len(list)] ==
            IF i = 0 THEN [accruedRewards |-> 0, assets |-> assets]
            ELSE ClaimedNext(done[i - 1], user, list[i], stakeOf[list[i]])
    IN  done[Len(list)]

\* Mutant of Unclaimed: the index as it is stored, not as of now.
UnclaimedStored(user, a, stake) ==
    GetRewards(stake.stakedByUser, assets[a].index, assets[a].users[user])

\* What the asset a adds in the view _getUnclaimedRewards: nothing is settled.
Unclaimed(user, a, stake) ==
    GetRewards(stake.stakedByUser,
               GetAssetIndex(assets[a], stake.totalStaked, now),
               assets[a].users[user])

\* _getUnclaimedRewards: an asset that occurs twice counts twice.
GetUnclaimedRewards(user, list, stakeOf) ==
    LET sum[i \in 0 .. Len(list)] ==
            IF i = 0 THEN 0
            ELSE sum[i - 1] + Unclaimed(user, list[i], stakeOf[list[i]])
    IN  sum[Len(list)]

GetRewardsBalance(list, user, report) ==
    usersUnclaimedRewards[user] + GetUnclaimedRewards(user, list, StakeOf(user, report))

-----------------------------------------------------------------------------
(* Payment. *)

\* transferFrom and transfer of the PSYS token.
Paid(ledger, from, to, amount) ==
    [[ledger EXCEPT ![from] = @ - amount] EXCEPT ![to] = @ + amount]

\* What is paid for amountToClaim rewards.
Payout(amountToClaim, stake) ==
    IF stake THEN amountToClaim + (amountToClaim * EXTRA_PSM_REWARD) \div 100
             ELSE amountToClaim

(***************************************************************************)
(* transferFrom(REWARDS_VAULT, ...), straight to the recipient or, to be   *)
(* staked for it, to the controller, from which PSM.stake takes it.        *)
(***************************************************************************)
PayRewards(to, amount, stake) ==
    /\ amount <= psys[RewardsVault]
    /\ IF stake
       THEN /\ psys' = Paid(Paid(psys, RewardsVault, Controller, amount),
                            Controller, PSM, amount)
            /\ staked' = [staked EXCEPT ![to] = @ + amount]
       ELSE /\ psys' = Paid(psys, RewardsVault, to, amount)
            /\ UNCHANGED staked

\* Mutant of AmountToClaim: the caller is given what it asks for.
AmountToClaimUncapped(amount, unclaimedRewards) == amount

AmountToClaim(amount, unclaimedRewards) ==
    IF amount > unclaimedRewards THEN unclaimedRewards ELSE amount

-----------------------------------------------------------------------------
(* The transactions. *)

\* A deposit or a withdrawal changes the balance of u in asset a to n; the
\* aToken reports the balance and supply before it.
LendingAction(a, u, n) ==
    /\ n # lent[a][u]
    /\ HandleAction(a, u, lent[a][u], Total(lent[a]))
    /\ lent' = [lent EXCEPT ![a][u] = n]
    /\ UNCHANGED <<now, psys, staked>>

ImpostorAction(a, u, userBalance, totalSupply) ==
    /\ HandleAction(a, u, userBalance, totalSupply)
    /\ UNCHANGED <<now, lent, psys, staked>>

(***************************************************************************)
(* claimRewards(list, amount, to, stake), sent by u.  An amount of 0 is    *)
(* answered before anything is touched; if there is nothing to claim the   *)
(* assets stay settled.  The contract reads the stakes in a loop of its    *)
(* own before it settles.                                                  *)
(***************************************************************************)
ClaimRewards(u, list, amount, to, stake, report) ==
    LET stakeOf          == StakeOf(u, report)
        claimed          == ClaimedAssets(u, list, stakeOf)
        unclaimedRewards == usersUnclaimedRewards[u] + claimed.accruedRewards
        amountToClaim    == AmountToClaim(amount, unclaimedRewards)
    IN  /\ amount # 0
        /\ \A a \in ToSet(list) : RewardsDefined(assets[a], u,
                stakeOf[a].stakedByUser, stakeOf[a].totalStaked, now)
        /\ assets' = claimed.assets
        /\ usersUnclaimedRewards' = [usersUnclaimedRewards EXCEPT
                                        ![u] = unclaimedRewards - amountToClaim]
        /\ IF unclaimedRewards = 0
           THEN UNCHANGED <<psys, staked>>
           ELSE PayRewards(to, Payout(amountToClaim, stake), stake)
        /\ UNCHANGED <<now, lent>>

\* The loop of configureAssets.
Configured(list) ==
    LET done[i \in 0 .. Len(list)] ==
            IF i = 0 THEN assets
            ELSE [done[i - 1] EXCEPT ![list[i][1]] =
                    ConfigureAsset(@, list[i][2], Total(lent[list[i][1]]), now)]
    IN  done[Len(list)]

\* configureAssets, sent by EMISSION_MANAGER with the true supplies.
ConfigureAssets(list) ==
    /\ assets' = Configured(list)
    /\ UNCHANGED <<now, usersUnclaimedRewards, lent, psys, staked>>

\* The next transaction is in a later block.
NextBlock ==
    /\ now < MaxTime
    /\ now' = now + 1
    /\ UNCHANGED <<assets, usersUnclaimedRewards, lent, psys, staked>>

-----------------------------------------------------------------------------
StakeReport == [stakedByUser : Reports, totalStaked : Reports]

LendingStep == \E move \in Moves : LendingAction(move[1], move[2], move[3])
ImpostorStep == \E a \in Impostors, u \in Users, b, s \in Reports :
                    ImpostorAction(a, u, b, s)
ClaimStep == \E u \in Users, list \in AssetLists, n \in Amounts,
                to \in Recipients, stake \in BOOLEAN, report \in StakeReport :
                    ClaimRewards(u, list, n, to, stake, report)
ConfigureStep == \E list \in EmissionLists : ConfigureAssets(list)

ControllerNext ==
    \/ LendingStep
    \/ ImpostorStep
    \/ ClaimStep
    \/ ConfigureStep
    \/ NextBlock

ControllerSpec == ControllerInit /\ [][ControllerNext]_controllerVars

=============================================================================
