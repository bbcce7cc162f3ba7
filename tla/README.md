# Verification of the staked PSYS contracts

TLA+ models of the contracts under `contracts/` and of the tasks and helpers
that deploy them (`tasks/`, `helpers/`), TLC runs that check them on small
instances, and TLAPS proofs for every value of the constants. Source
lines are those of this repository; "V3" is `contracts/stake/StakedPSYSV3.sol`,
"V1" `contracts/stake/StakedPSYS.sol`, "DM"
`contracts/stake/PegasysDistributionManager.sol`, and "FL"
`contracts/proposals/extend-stkaave-distribution/StakedTokenV2Rev3.sol`, which
carries a flattened copy of the `@aave` packages that V3 imports; "accessors",
"helpers" and "verification" are `helpers/contracts-accessors.ts`,
`contracts-helpers.ts` and `etherscan-verification.ts`.

## 1. The system

A user stakes PSYS and receives as many stkPSYS. stkPSYS earn rewards, carry
voting and proposition power, can be transferred, and can be turned back into
PSYS only in a window that opens after a cooldown.

| Part | State | Operations |
|---|---|---|
| **PegasysDistributionManager** | one `AssetData` per asset: emission per second, time of the last update, index, the index of every user | `configureAssets`, `_updateAssetStateInternal`, `_updateUserAssetInternal`, `_claimRewards`, `_getUnclaimedRewards` |
| **StakedPSYS** (revision 1), **StakedPSYSV3** (revision 2) | `stakerRewardsToClaim`, `stakersCooldowns`, the ERC20 ledger, the asset of the contract itself | `stake`, `redeem`, `cooldown`, `claimRewards`, `transfer`/`transferFrom`; V3 also `permit`, `delegate*BySig` |
| **ERC20** | balances, supply, allowances | `_mint`, `_burn`, `_transfer`, approvals; each move of a balance runs the hook `_beforeTokenTransfer` |
| **ERC20WithSnapshot** (revision 1) | per account a list of (block, balance) | the hook writes the balances of the two sides |
| **GovernancePowerDelegationERC20** (revision 2) | per type of power: delegates, per account a list of (block, power) | `delegate`, `delegateByType`, `getPowerAtBlock`, `totalSupplyAt`; the hook moves power between delegates |
| **StakedTokenV3Rev3, StakedTokenBptV2Rev2** | as revision 2 | revision 3 of the proposal, adds `stakeWithPermit` |
| **PegasysIncentivesController** | `_usersUnclaimedRewards`, assets of the lending protocol | `handleAction`, `claimRewards`, which may stake the rewards |
| **Proxies, VersionedInitializable** | admin, implementation, last initialized revision | `upgradeTo`, `upgradeToAndCall`, `initialize` |
| **PegasysStakingHelper** | none | `stake`: permit, pull, stake for the user given |
| **StakeUIHelper, StakedTokenDataProvider** | none | views |
| **Tasks** (`tasks/`) | none of their own | `deploy-*`, `initialize-StakedPSYSV3`, `common-deployment`, `propose-*`, `proposal-*`, `set-dre`, `verify-sc` |
| **Helpers** (`helpers/`) | `DRE`, `deployed-contracts.json` | `deployContract` and the accessors, `registerContractInJsonDb`, `verifyContract` with its retries, `checkVerification`, builders of signed messages |

How they interact. All calls are synchronous, inside one transaction. A handler
of the staked token settles the rewards of the accounts it touches (calls into
DM), adjusts their cooldown stamps, and then calls the ERC20 ledger, which calls
back into the hook of the revision that runs; stakes and redeems end with a
transfer of PSYS, claims with a pull from the rewards vault. The proxy keeps one
storage under all revisions: revision 2 finds the balance snapshots of revision
1 where its own voting snapshots lie (`GovernancePowerWithSnapshot.sol:17-24`).

The tasks are chains of awaits in one hardhat process. They send transactions,
wait for them or not, write the addresses into `deployed-contracts.json`, ask the
block explorer to verify the source, and at last create governance proposals that
upgrade the live proxies. The process can die at any await; chain, registry,
explorer and proposals stay as they are then.

What is hard in the contracts. Nothing runs concurrently within a transaction, and a failed
one leaves no trace. The difficulty is in the *order and number of legal
calls*: any user may stake for and transfer to anybody; several transactions
share a timestamp and a block; the weighted average of cooldowns, the lazy
settlement of rewards and the delegated powers are each a summary of a history,
and must be right after every history; and an upgrade changes the code under
the data. What must be true:

- *staked token*: every stkPSYS is backed; nobody leaves without having waited;
  nobody can be kept from leaving in the window; waiting cannot be lent;
- *rewards*: never more than was emitted, nobody more than the part its balance
  earned, no transaction moves earnings from one to another;
- *governance*: one token, one vote; what a past block's power was never
  changes; the search finds it; the hook's arithmetic never blocks a holder;
- *signed operations*: a signature counts once, in its owner's order, whoever
  submits it; nobody spends more than was granted; a permit that somebody else
  submits first does not cost the stake.

What is hard in the tasks: a crash between two registrations, a contract that is
registered or passed on before it is mined, late and lost answers of the explorer,
and proposals executed at any later time. What must be true: a deployment that
completes has registered its own, mined contracts; gas is not spent when the
verification cannot work; a proxy runs its own token's code, initialized once per
revision; every task ends.

## 2. Modules

One step is one transaction. A `require` or a `SafeMath` underflow that fails is
a guard, since the transaction then changes nothing. Names are the code's.

| Module | Models | State and actions |
|---|---|---|
| `PegasysDistributionManager` | DM | no variables: operators from an `AssetData` record to a record (`UpdateAssetState`, `UpdateUserAsset`, `ConfigureAsset`, ...) |
| `StakedToken` | V1 and V3 handlers (the same text in both), ERC20 ledger | `now`, `asset`, `balances`, `totalSupply`, `stakerRewardsToClaim`, `stakersCooldowns`, `psys`; `Stake`, `Redeem`, `Cooldown`, `ClaimRewards`, `TransferToSelf`/`TransferToOther`, `ConfigureAssets`, `Tick` |
| `StakedTokenProperties` | | invariants and action properties on that state; the instance of `ExitGate` |
| `ExitGate` | abstract specification | what the cooldown promises: `Ask`, `Enter`, `Leave`, `Pass`, `Wait` on shares and stamps only |
| `CooldownHistory` | | the token with the memory of who called `cooldown()` when |
| `RewardHistory` | | the token with exact counts of what was emitted, each account's part of it, and what was claimed |
| `Snapshots` | ERC20WithSnapshot and FL 1264-1351 | a list of snapshots: `WriteSnapshot`, `SearchByBlockNumber` with its binary search |
| `GovernancePowerDelegation` | FL 1097-1255, V3 401-441 | `blockNumber`, `balances`, `delegates`, `snapshots`; `Mint`, `Burn`, `Transfer`, `Delegate`, `DelegateByType`, `NextBlock` |
| `GovernancePowerProperties` | | its properties; `GetPowerAtBlock`, `TotalSupplyAt`; the instance of `VoteRegister` |
| `VoteRegister` | abstract specification | what delegation promises to those who count votes: representatives, and how much power everybody had at the end of every block; `Move`, `Appoint`, `NewBlock`, no snapshots, hooks or searches |
| `PegasysIncentivesController` | `contracts/stake/PegasysIncentivesController.sol` ("IC") | `now`, `assets`, `usersUnclaimedRewards`, the balances `lent` in the lending protocol, `psys`, `staked`; `LendingAction` and `ImpostorAction` (both `HandleAction`), `ClaimRewards`, `ConfigureAssets`, `NextBlock` |
| `IncentivesHistory` | | the controller with exact counts of what was emitted, each user's part of it and what was claimed, and its properties |
| `StakedPSYSV3` | the whole token, revisions 1 and 2 | composes `StakedToken` with the hooks: every handler conjoined with `BeforeTokenTransfer` of the revision that runs, `DelegateV3`, `Upgrade`; the delegation is an `INSTANCE` of `GovernancePowerProperties` on the token's own `balances`, with `now` for the block; a second instance of `VoteRegister` for the votes across the upgrade |
| `SignedOperations` | V3 102-119, 366-390, 476-521; ERC20 94-149; FL 1780-1804; `PegasysStakingHelper`; helpers 129-248 | `now`, `nonces`, `allowances`, `balances`, `delegates` of PSYS and of the staked token; `permit`, `delegateByTypeBySig`, `delegateBySig`, `approve`, `increaseAllowance`, `decreaseAllowance`, `transferFrom`, `stake`, `stakeWithPermit`, `HelperStake`, `Tick` |
| `SignedHistory` | | the same with the memory of the signatures used, of what was granted and what was spent, of what the helper staked by whose permit (`signed`), what all other operations moved (`moved`), and of the permits submitted on their own that still stand (`standing`); its properties |
| `DeploymentTasks` | `tasks/`, accessors, `deployContract` | no variables: every task and accessor as the sequence of its steps, a step being what happens up to the next await; a call is the sequence of the callee |
| `Deployment` | what each step does; verification, registry, `set-dre`; the proposals | `environment`, `dre`, `task`, `contracts`, `registry`, `verified`, `proxies`, `approvals`, `proposals`; `StartTask`, `Crash`, one action per kind of step (`Send`, `RegisterStep`, `WaitStep`, `VerifyStep`, `VerificationRetries`, `Propose`, ...), `Rejected`, `Mine`, `ExecuteProposal` |
| `DeploymentProperties` | | what the tasks promise, and the one description they do not keep |
| `LedgerTotal` | | the sum of a ledger |
| `MC*` | | instances for TLC: symmetry sets, the signatures of the instance, the contracts that are there before |
| `ArithmeticLemmas` | | lemmas on division and averages, on the index, on sums |
| `StakedTokenTheorems`, `HistoryTheorems`, `GovernancePowerTheorems`, `StakedPSYSV3Theorems`, `SignedOperationsTheorems`, `IncentivesTheorems`, `DeploymentTheorems` | | the theorems of section 5 |

### Abstractions

- **Time.** `now` is `block.timestamp`; any number of transactions may carry the
  same one. In `StakedPSYSV3` a new timestamp is a new block. Real blocks may be
  several seconds apart: several `Tick`s without a transaction in between.
- **PSYS and the vault** are external. `psys` holds their balances; the vault's
  entry is the smaller of its balance and its approval. A transfer fails exactly
  when the payer has too little.
- **Allowances.** In `StakedToken` a transfer stands for `transfer` and for an
  allowed `transferFrom`. `SignedOperations` keeps the allowances of both tokens and
  leaves out what these operations do to cooldowns, rewards and powers; it has the
  stakes but not the redeems. A recipient of `transferFrom` is a user.
- **Signatures.** A signature is the signer and the typed data; for other data
  `ecrecover` answers somebody who owns nothing (`"nobody"`). Hashes do not collide.
  Submitting passes on what the message says: other arguments do not recover the
  signer. A deadline of `MaxTime + 1` stands for `type(uint256).max`.
- **Domain.** `initialize` (V3:113) hashes `name()` of the storage it runs on, which
  only revision 1 writes, so the model takes a token that was upgraded from it, as
  the client's fixed name 'Staked PSYS' (helpers:155) does. On a proxy that starts
  with revision 2 the name is empty and no signature built by the client is valid.
- **PSYS** has a permit of its own with its own nonces, modelled like V3's.
- **Tasks.** A task is the steps between its awaits. Console output, constructor
  arguments and the choice of the signer are left out. An operator passes addresses
  of contracts of the right kind, that exist or are on their way, or leaves the
  parameter out. Its other parameters are valid but for those that
  `deploy-StakedTokenDataProvider` checks.
- **Network.** `main` and `hardhat` are the two that `hardhat.config.ts` defines. The
  explorer answers anything to a verification, but it accepts only what is mined; an
  answer can be lost. The proposals' default addresses (Ethereum's) are taken to be
  on `main`, on `hardhat` a proposal has no effect.
- **Governance** executes all calls of a proposal or none, at any time, once.
- **Widths.** Integers are unbounded. The narrow ones in the code (`uint128`
  emissions, snapshots and blocks, 40- and 128-bit times) are out of reach for a
  supply of PSYS below 2^128 and an index that grows by less than
  2^128 * 2^32 * 10^18.
- **The manager.** `configureAssets` believes the `totalStaked` it is given.
  The model lets the manager report 0 (before anything is staked) or the true
  supply, and in one run (`Misreports`) something else.
- **Lists of assets.** The controller's loops are recursive functions over the positions
  of the list the caller passes, one settlement after the other, so a repeated asset is
  met again as the first settlement left it.
- **aTokens** are external: a listed one calls `handleAction` at every change of a
  balance, with balance and supply from before it. A transfer between two users is
  two such calls with the same timestamp. `handleAction` checks nothing about its
  sender (`README.md:95` calls it whitelisted), and a claim may name any address;
  `Impostors` are such contracts, which answer with any stake.
- **The staked token**, to the controller, is external too: `stake` takes the PSYS
  and credits the receiver; it cannot fail, as IC:142 passes a positive amount the
  controller has just received and approved.
- **The clock starts late.** `StartTime > COOLDOWN_SECONDS + UNSTAKE_WINDOW`, as
  for any deployment measured in seconds since 1970. The code subtracts both from
  the timestamp and takes a stamp of 0 for one long expired.
- **The governance hook** `onTransfer` is external and, by the comment at
  `ERC20WithSnapshot.sol:24-26`, trusted; it is taken to be absent.
- **Powers.** A delegation type is a value of `DelegationTypes`. No operation
  reads one type to write another, so the runs of the whole token follow one
  type each; the proofs hold for both together.

### Fairness

Nothing in the contracts runs by itself, and no scheduler promises that a user's
transaction comes: their specifications have no fairness, and what a user must *be
able* to do at a moment is stated with `ENABLED` (`HolderCanExit`) or with the guard and
the outcome of the transaction (`SubmittedPermitStillStakes`).

`Deployment` has two weak fairness conditions. `WF_vars(Answered)`: a process that
lives goes on; timers fire, and the node, the signer and the explorer answer or fail.
A `wait()` for a transaction is the exception: it need not throw, and lasts until the
transaction is mined or has failed. `WF_vars(MineStep)`: a transaction that was sent
is mined or dropped. Nobody has to start a task or execute a proposal, and no
process has to crash. `TaskEnds` needs both: without the second, a `wait()` may last
for ever; that the retries end is the code's own doing (verification:90).

## 3. Runs

| Run | Module, configuration | What it shows |
|---|---|---|
| `staked_token` | `MCStakedToken` | ledger backed (`SupplyBacked`); an emptied account stops waiting (`NoStaleCooldown`); whoever is in the window can take everything out, whatever others did (`HolderCanExit`); a running cooldown is never ahead of its owner's last activation (`CooldownRespected`); burns only after it (`WithdrawalAfterCooldown`); receipts do not lend waiting to new shares (`WaitingNotCreated`), nor take it away but by dilution (`WaitingNotLost`); the token refines the gate (`ImplementsExitGate`) |
| `rewards` | `MCRewards` | owed plus paid never exceeds the emission (`RewardsWithinEmission`), nor anybody's part of it (`FairShareBound`); both also when the manager changes the emission at any moment; indexes in order; no transaction changes what anybody has earned, to the unit (`EarningsSettledExactly`); whatever is owed, and the vault cannot pay, the stake comes out (`HolderCanExit`) |
| `governance_power` | `MCGovernancePower` | one token, one vote (`PowerIsDelegated`); one snapshot per block, in order (`SnapshotsOrdered`); the binary search returns the latest snapshot not after the block (`SearchFindsLatest`); past power is fixed (`PastPowerFixed`); snapshots, hook and search implement the register of votes (`ImplementsRegister`) |
| `voting_upgrade`, `proposition_upgrade` | `MCStakedPSYSV3` | the whole token deployed as revision 1 and upgraded at any moment: power is what the delegators own in both revisions (`PowerIsDelegatedV3`), the hook never blocks an exit (`HolderCanExitV3`), the voting power of past blocks survives the upgrade (`PastVotesFixed`), and the token of both revisions implements one register of votes (`ImplementsVotes`) |
| `incentives` | `MCIncentives` | paid and owed together stay within the emission of the listed assets and the bonus (`PaidAndOwedWithinEmission`); nobody earns more than the part its balances had (`EarnedWithinShare`); no transaction changes what anybody has earned (`OnlyTimeEarns`); the view and the claim agree on lists without repetition (`BalanceIsClaimable`); every settlement is defined (`ControllerTypeOK`) |
| `signed_operations` | `MCSignedOperations` | each signature takes effect once, in the order of its signer's nonces (`SignaturesOnceInOrder`); nobody spends more than he was granted (`SpentWithinGrants`); what the helper stakes comes from the one who signed and is credited to no one else, nothing stays with the helper, and every stake has its PSYS (`HelperStakesForSigner`); a permit that somebody submits first costs its owner nothing, `stakeWithPermit` still stakes all of it (`SubmittedPermitStillStakes`) |
| `deployment` | `MCDeployment` | a completed deployment has registered its own mined contracts, also after an earlier one that died (`CompletedMeansRegistered`); when verification cannot work, nothing is spent with the verify flag, and one contract at most by the two tasks that verify without it (`CheckedBeforeSpending`); a live proxy runs its own token's mined code, initialized by it (`ProxyRunsItsOwnToken`); one initializer per revision (`InitializedOnce`); every task ends (`TaskEnds`) |
| `common_deployment`, `stale_stake_report`, `proposition_history`, `votes_within_supply` | | each violates one sentence of a document or comment; section 4 |

### Bounds

- *staked_token*: two users, the contract's own address as a third account (an
  account that can own and receive but sends nothing), stakes of 1 and 2, two
  PSYS each, cooldown and window of 2 seconds, 7 seconds. Seven seconds hold a
  cooldown, its window, its expiry and a second cooldown; amounts 1 and 2 make
  the weighted average round; two givers and a receiver are all that a receipt
  involves. "Everything" is `MAX_UINT256 = 99`.
- *rewards*: cooldown 0, window 1, one PSYS each and one more in the vault, so
  that a claim can be short, or be paid to the contract; emissions 0 and 3 on
  supplies 1 to 3 with `Scale` 5 makes every division round; the distribution ends at 4,
  within the run. The vault runs dry while rewards are owed, so that exits are checked
  when claims fail. `FairScale` 6 is a multiple of every supply, so the reference
  is exact.
- *governance_power*: two accounts, amounts 1 and 2, supply 2, four blocks:
  lists of up to four snapshots with and without gaps, which take the binary
  search through both branches more than once. One delegation type.
- *incentives*: two lending assets, one of them used by two users and one by one
  of them, and one impostor; claims over a list with a repetition and over a list
  with the impostor and both assets; emissions 3 and 2, two seconds, `Scale` 5, a
  bonus of 150 % (so that it rounds, and shows on one unit of reward), a vault of 2
  that can run dry. The distribution ends at 4, with the run; settlement across the
  end is in *rewards*. `FairScale` 2 is a multiple of both supplies. `BalanceIsClaimable` needs the condition on the list: the
  view (DM:174) counts a repeated asset twice, a claim does not.
- *signed_operations*: ann, who signs, and bob; seven signatures: three permits of
  PSYS, for the helper and for the staked token, two of them with one nonce and one
  that expires at once; two permits of stkPSYS, one for another chain, and a
  delegation of each kind, all with nonces 0 and 1. Amounts 1 and 2, three PSYS each,
  grants of at most 3 to a spender (`MaxGranted`), two timestamps: enough for a
  signature that is late, early, repeated, overtaken by one with the same nonce,
  or submitted between an approval and its use.
- *deployment*: two tasks of fifteen kinds, with and without flags, and five
  contracts at most: the largest task sends two, two more are there before the first
  (an implementation of each token, `EarlierContracts`), so that two proposals of one
  revision take two tasks. Four attempts of verification, as in the code.
  `CHECK_DEADLOCK FALSE`: the operator stops after the last task. *common_deployment*
  is on `main`.
- *upgrades*: two users and the contract's address, one PSYS each, two blocks,
  the upgrade anywhere.

User symmetry is used where users differ in name only; every property treats
them alike.

## 4. Where documents and code differ

Shown by a run:

1. `README.md:28-29` describes the emission as distribution-wide. DM:56 settles
   with the stake the manager reports; if it has grown since it was read, more is
   given out than emitted. (`stale_stake_report`)
2. FL:1142: `getPowerAtBlock` "returns the delegated power of a user at a certain
   block". For an account without a snapshot it returns the present balance. An
   account that owned stkPSYS before the upgrade has no proposition snapshot: at
   a past block it is first answered with the balance, and with 0 after its first
   snapshot. (`proposition_history`)
3. FL:1160-1162: `totalSupplyAt` "returns the total supply at a certain block
   number", for quorums, and justifies returning the present one with "no PSYS
   minting". stkPSYS are minted and burnt: after a redeem the votes of a past
   block exceed the supply reported for it. (`votes_within_supply`)
4. `common-deployment.ts:8`: "Deployment in for Main, Kovan and Ropsten networks".
   The task deploys, registers and then throws: `initialize-StakedPSYSV3` looks the
   implementation up under `StakedPSYSImpl` (accessors:296), a key that no task
   writes. If it were there, encoding four arguments for `initialize()`, which
   takes none, would throw next. (`common_deployment`)

Read in the code, and modelled as the code has it:

5. `README.md:74`: "If the user redeems AAVE, the cooldown timestamp is set to 0."
   `redeem` (V3:169) clears it only when nothing is left; one activation serves
   several redeems in its window.
6. `README.md:77`, of a transfer: "The cooldown timestamp of the sender remains
   as it is." `_transfer` (V3:246) clears it when the whole balance is sent.
7. `deploy-StakedPSYSV3.ts:58` passes `true` with the comment "disable verify due not
   supported by current buidler etherscan plugin": the implementation is verified
   whatever the flag says. The key is checked "to prevent loss of gas in failed
   deployments" (line 32) with the flag only, so a run without flag and key pays
   for the implementation and then throws. `deploy-staked-psys-rev3` always verifies,
   too, and checks nothing before. `CheckedBeforeSpending` says what is left of the
   promise: nothing is lost with the flag, and without it that one contract, never the
   proxy.
8. `dev-deployment` runs `deploy-StakedPSYS`, `verify-sc` runs `set-DRE`, and
   `proposal-stk-extensions` without `stkbptimpl` runs `deploy-staked-bpt-rev2`: tasks
   that are not defined, the last one because its file is commented out.
9. `set-dre` returns nothing when `DRE` is set, and `common-deployment` and
   `dev-deployment` go on with what it returns: they throw in a process that has run
   another task.

Not modelled: when the explorer reports that the source is verified already, or a
fatal error, `runTaskWithRetry` returns without removing its temporary file
(verification:93-103). "has no bytecode" is one of the fatal errors, so a contract
that is not mined yet is not tried again.

## 5. Proofs

Every safety invariant and action property of the passing runs is a theorem, but for
the two that use `ENABLED`. The assumptions are the named `ASSUME`s of the modules,
which TLC evaluates on every run: finite sets of accounts, natural amounts,
`address(0)` not an account, the late start of the clock, `FairScale` a multiple of
every supply (it only measures: no part of the code knows it), and for the tasks that a request names a task or an accessor that
exists. Users, amounts, cooldown, window, emissions, scale, end of distribution,
stakes misreported by the manager and the length of the run are arbitrary. Two theorems
need one assumption more: `RewardsAlwaysWithinEmission` and `EarningsAlwaysFair` take
`Misreports = {}`, and the run `stale_stake_report` shows that without it the first is
false.

**Staked token** (`StakedTokenTheorems`). Inductive invariant `IndInv`:
`TypeOK`, `IndexesOrdered`, `NoStaleCooldown`, `StampsPast`. None is inductive
alone. Rewards stay natural numbers only if no index is ahead of the
distribution's; the weighted average is defined only if amount and balance are
not both 0, which a receiver that is still waiting has a balance against; and the
average of two stamps is a stamp between them (`AverageBetween`), in the past if
both are. One lemma per action (`StakeKeeps`, `RedeemKeeps`, ...).
From it: `TypeCorrect`, `StaleCooldownsCleared`, `IndexesStayOrdered`.

- `StakedTokenImplementsExitGate`: `Spec => ImplementsExitGate`. Stakes are
  `Enter`, redeems `Leave`, transfers `Pass`, with the stamp of the receiver
  bounded by `NextStampPostponed`.
- `SupplyStaysBacked`: with sums as cardinalities of sets of units
  (`LedgerTotal`), a sum changes by what one entry changes (`TotalUpdate`).
- `WaitingNeverCreated`: the stamp is a quotient rounded down, so a receipt can
  make it earlier than the exact average by a fraction of a second;
  `AverageHasWaited` bounds what that gives to less than a second per share.
- `WaitingNeverLost`: the other side. The rounding is towards more waiting
  (`AverageKeepsWaiting`), and the stamp of a receiver that has waited less than the
  sender stays. So a stake for somebody, or a transfer to it, postpones its exit by
  dilution only. Both follow from `GainsAreReceipts`: whoever has more shares
  after a step has received them, newly staked or from one giver.
- `NothingElseBlocksExit`: the accrual is defined, and the supply and the
  contract's PSYS cover the amount, for every account and amount, at any moment.
- `WholeStakeComesOut`: in the window, and for an amount that is at least the
  balance, the redeem is the step to `ExitOutcome`, which says what every variable becomes:
  nothing left of the balance, its PSYS with the receiver, the stamp cleared. A step
  to a given state can be taken, so this is `HolderCanExit` without the word
  `ENABLED`. What it starts from, `ExitInv`, is invariant (`ExitInvHolds`).

**Histories** (`HistoryTheorems`). *Cooldowns:* `CooldownsRespected` and
`WithdrawalsAfterCooldown`, from `IndInv` and `CooldownRespected` itself: the
stamp of a redeemer is one its owner once set or a later one.

*Rewards.* Roundings make the obvious sum no invariant: what an account is shown to have
earned is rounded at every accrual, the index at every settlement. The
invariants therefore count in units of 1/`Scale`. `Recorded(a)` is what is paid, stored and
accrued up to the stored index; `AsOfNow(a)` the same up to the index of the moment; and
`Pending` what was emitted since the last settlement, before it is divided by
the supply.

- `EarningsAlwaysSettledExactly`: every handler settles an account before it
  touches its balance, and settling moves from accrued to stored what it takes (`AccruedExactly`).
  It needs no assumption on the manager, who changes what comes, never what was.
- `RewardsAlwaysWithinEmission`: `EmissionInv` says that the sum of `Recorded`
  and `Pending * Scale` are at most `emitted * Scale`. Sharing `Pending` out over the
  balances loses only, if the supply it is divided by is the sum of the balances.
- `EarningsAlwaysFair`: `FairInv` bounds each account's record, and its part
  of what is pending, by its `fairShare`. That `FairScale` divides by the supply exactly
  (`PortionExact`) needs a bound on the supply: `PsysConserved`, no PSYS are made.

**Governance power** (`GovernancePowerTheorems`). Inductive invariant `GovInv`:
types, `PowerIsDelegated`, and `DelegationsHaveSnapshots`. The last one is what
makes the first move of an account right: without a snapshot its power is taken
to be its balance, which is so only if nobody delegates to it and it delegates
to nobody else. `TransferTotal` says what a transfer changes in the balances
delegated to one account; `MoveEffect` that the hook writes just that; the hook
lemma `HookKeepsInv` covers mint, burn and transfer alike, `DelegateKeepsInv` the
delegations. Results: `PowerAlwaysDelegated`, `GovTypesAlwaysHold`, `SnapshotsAlwaysOrdered`, the
last being the precondition of the binary search.

- `SearchAlwaysFindsLatest`: by induction on the width of the range. Every round
  (`SearchRound`) keeps the latest snapshot not after the block between its bounds and
  narrows the range.
- `PastPowerNeverChanges`: a move writes only the entry of the present block or a
  new one, so the latest snapshot before it stays. That leaves the accounts without a
  snapshot, which are answered with their balance: `NothingEverWithoutSnapshot`
  shows that it is 0 as long as they have none.
- `RegisterImplemented`: `GovSpec => ImplementsRegister`. The register's entry for a
  block is what `getPowerAtBlock` answers. For the present block that is the
  power, hence by `PowerIsDelegated` the count of the tokens delegated; earlier entries
  stay by the facts of the item before; a block that begins answers like the
  one that ended, as no snapshot carries its number yet.
- `VotesAlwaysAddUp`: every owner counts for exactly one account, so the sum over all
  accounts of what is delegated to them is the sum of the balances.

**The whole token** (`StakedPSYSV3Theorems`). `V3ImplementsToken`: the hook only
restricts, so `V3Spec => Spec` and everything proved about `StakedToken` holds of
both revisions. `TokensAreVotes`: `PowerIsDelegatedV3` through an upgrade at any
moment. Its invariant `V3Inv` adds `RevisionOne`: before the upgrade nobody has
delegated and proposition power has no snapshot, so the balance snapshots are
already correct votes. `PastVotesNeverChange` adds `PastInv`, that the voting
snapshots are in order and no holder is without one, in either revision; for proposition
power it is false (section 4, item 2). `HookNeverBlocksExit`: the power of a
delegate covers what the hook takes from it, for any amount a holder can redeem.

- `WholeStakeComesOutV3` puts the two together: in the window the whole stake
  comes out under the hook of either revision, with the outcome given. It starts from
  `V3ExitInv` (`V3ExitInvHolds`).
- `V3KeepsTokenPromises`: `ImplementsExitGate` and the properties of `StakedToken` for
  the whole token, through `V3ImplementsToken`.
- `VotesImplemented`: `V3Spec => ImplementsVotes`. The upgrade is a stutter of the
  register: the balance snapshots of revision 1 already answer as its votes.
- `VotesAlwaysBacked`: the votes of all accounts together are the supply, and the
  contract holds as much PSYS.

**Signed operations** (`SignedOperationsTheorems`). Inductive invariant
`HistoryInv`: types, `SignaturesOnceInOrder`, and two facts that make the properties
last. `NoncesAhead`: a signature that took effect has a nonce below the next one of
its signer, which only grows; `PermitIsSigned` shows that a permit that passes
carries exactly that next nonce. `AllowancesGranted`: spent and still spendable
together are at most what was granted, as every step that spends takes as much from
the allowance. Results: `SignaturesOnceInOrderAlways`, `SpentWithinGrantsAlways`,
for any users, signatures, amounts and bounds.

- `HelperAlwaysStakesForSigner` follows the amount through the helper's three calls.
  The accounts of each user (`Accounted`) close only if the user the helper credits and
  the amount it pulls are those that were signed, which is what `PermitIsSigned` gives: for
  other data the permit does not recover the user. The backing uses the lemmas on sums.
- `SubmittedPermitAlwaysStakes` rests on `StandingInv`: while a permit stands, its owner's
  nonce is past it and the allowance is the one it gave. So the permit inside
  `stakeWithPermit` is refused, the refusal is caught, and the allowance left by the first
  submission pays for the stake.

**Incentives controller** (`IncentivesTheorems`). The handlers are loops, so the
facts are about loops: `Claiming`, `Configuring` and `Summing` relate the state a loop
began in to what it left, and one induction on the positions of the list
(`LoopInduction`) serves all three. `Debt` is what a distribution may still cost, in
units of 1/`Scale`. Settling an asset for a user gives him no more than the debt falls by
(`Paying`), of an impostor nothing at all, since it never had an emission. Inductive
invariant `IncentivesInv`: every record is settled in the past, what was
given and the debts together are within the emission, and the vault lost no more than
the claims with their bonus. Results: `ControllerTypesAlwaysHold`,
`VaultPaysWithinEmission`, `OnlyTimeEverEarns`, `BalanceAlwaysClaimable`, for any lists,
with repetitions where the property allows them.

- `SharesAlwaysRespected`: `Part` is what one asset may still give to one user: what
  its index lags behind, and its portion of what was emitted since the asset was
  settled. A settlement takes what it pays off the settled user's part and adds to
  nobody's (`SettledPart`); a balance changes only when nothing is pending and its owner is
  up to date, so a deposit brings no part in the past. `FairInv` carries this through
  the same loops, user by user.

**Deployment** (`DeploymentTheorems`). A task is a sequence of steps that is fixed when
it starts, so the invariant says what the steps done so far left behind, for any
sequence: the instance is what was sent last, mined if a wait came after it
(`InstanceSent`); a key holds what was the instance when it was registered last (`KeysRegistered`);
the checks that were made passed (`ChecksPassed`); before the first send nothing was
sent (`NothingSentBefore`), and two contracts took two sends (`SentApart`); and the implementations for the proposal are known contracts
(`ImplementationsKnown`). What the properties need besides are lemmas about each task's own
sequence, for instance that `deploy-StakedPSYSV3` registers the proxy after the
implementation and waits for both, and that without the flag no check comes after two
sends (`ProgramThrifty`). On the side of the chain, a proposal names both
proxies or none (`ProposalsSound`), and both proxies are as they were or
both upgraded (`ProxiesSound`), which with the revision check of `initializer` lets one
extension through. Crashes, lost answers, failed transactions and executions at any time
are steps like any other. Results: `CompletedTasksAreRegistered`, `NothingSpentUnchecked`,
`ProxiesRunTheirOwnToken`, `ExtensionsInitializeOnce`.

- `TasksUseTheirOwnContracts`: whatever is waited for, registered, verified or kept was
  sent by this run of the task. Every task's sequence sends before it uses
  (`ProgramSendsFirst`), and what is left of a sequence keeps that.
- `TasksMakeProgress`: `Effort` counts the steps left, each with room for the retries of
  a verification. Every step of the process that does not end the task takes from it,
  and no other step of the system adds to it.
- `ProcessNeverStuck`: for every kind of step, `TaskOn`, `DreOn` and `RegistryOn` name
  an outcome, and the step to it is one that fairness covers. A wait needs its
  transaction mined or failed; `TransactionsNeverStuck` says that it can be.

**Only model-checked.**

- `HolderCanExit` and `HolderCanExitV3`, which use `ENABLED`. What they say is
  proved with the outcome of the step in the place of `ENABLED`: `WholeStakeComesOut`
  and `WholeStakeComesOutV3`.
- `TaskEnds`, liveness under fairness. The three facts it rests on are proved: there is
  always a step that fairness covers, it makes progress, and progress is bounded.
  What remains is the rule that draws the conclusion.
- The properties of the runs that expect a violation: they are false.

What a recursive definition computes is not proved by the library's induction
theorems, which take an operator as a parameter that the installed provers cannot
instantiate, but from the smallest counterexample: every nonempty set of naturals
has a least element (`SetInduction`, from the library's `WFMin`). The recursive
functions of the model are shown to exist the same way (`LoopExists`, `SearchExists`).

## 6. Plan

Done, in this order: distribution arithmetic; staked token with its cooldown and
rewards; the exit gate and the refinement; delegation and snapshots; the whole
token over two revisions; the incentives controller; signed operations, allowances
and the staking helper; the register of votes and its refinements; the deployment tasks with crashes, retries and proposals;
the proofs above.

Next, by importance:

1. *Incentives controller*: `PSM.stake` as the staked token's own `Stake` instead of
   an external credit, and its theorems over the composition.
2. *Revision 3*: the timestamp that its initializer brings up to date.

## 7. Not modelled

- The proxies' `upgradeTo`, `changeAdmin` and own `initialize`: the only task that
  calls one of them throws before (section 4, item 4).
- `StakeUIHelper`, `StakedTokenDataProvider` and `previewRedeem` only read. Names,
  symbols, decimals and events change nothing a property is about, but for the name
  in the domain of signatures.
- `deploy-bpt.ts` and `deploy-staked-bpt-rev2.ts` are commented out as a whole.
  `helpers/constants.ts`, `types.ts`, `coverters.ts` and `hardhat.config.ts` are data and
  conversions. The getters of the accessors that only tests use read the registry.
- Prices, oracles, balancer pools, the governance contracts, mocks and tests
  (`test-fork/helpers.ts` too) lie outside the program's own logic.
