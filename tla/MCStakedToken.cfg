SPECIFICATION HistorySpec
CONSTANTS
    DISTRIBUTION_END = 5
    Scale = 2
    Users = {u1, u2}
    StakeContract = stkPSYS
    RewardsVault = vault
    COOLDOWN_SECONDS = 2
    UNSTAKE_WINDOW = 2
    MAX_UINT256 = 99
    Amounts = {1, 2}
    Emissions = {0}
    Misreports = {}
    InitialPSYS = 2
    VaultPSYS = 0
    StartTime = 5
    MaxTime = 11
SYMMETRY UserSymmetry
INVARIANTS TypeOK SupplyBacked NoStaleCooldown HolderCanExit CooldownRespected
PROPERTIES ImplementsExitGate WaitingNotCreated WaitingNotLost WithdrawalAfterCooldown
