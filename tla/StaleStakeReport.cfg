SPECIFICATION RewardSpec
CONSTANTS
    DISTRIBUTION_END = 4
    FairScale = 6
    Scale = 5
    Users = {u1, u2}
    StakeContract = stkPSYS
    RewardsVault = vault
    COOLDOWN_SECONDS = 0
    UNSTAKE_WINDOW = 1
    MAX_UINT256 = 99
    Amounts = {1}
    Emissions = {1, 3}
    Misreports = {1}
    InitialPSYS = 1
    VaultPSYS = 0
    StartTime = 2
    MaxTime = 5
INVARIANT RewardsWithinEmission
