SPECIFICATION IncentivesSpec
CONSTANTS
    DISTRIBUTION_END = 4
    Scale = 5
    dai = dai
    eth = eth
    fake = fake
    u1 = u1
    u2 = u2
    Users = {u1, u2}
    Recipients = {payee}
    ListedAssets = {dai, eth}
    Impostors = {fake}
    Controller = controller
    PSM = stkPSYS
    RewardsVault = vault
    EXTRA_PSM_REWARD = 150
    Moves <- MCMoves
    Reports = {2}
    Amounts = {1, 99}
    AssetLists <- MCAssetLists
    EmissionLists <- MCEmissionLists
    VaultPSYS = 2
    StartTime = 2
    MaxTime = 4
    FairScale = 2
CHECK_DEADLOCK FALSE
INVARIANTS ControllerTypeOK PaidAndOwedWithinEmission EarnedWithinShare BalanceIsClaimable
PROPERTIES OnlyTimeEarns
