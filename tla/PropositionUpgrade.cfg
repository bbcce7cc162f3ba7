SPECIFICATION V3Spec
CONSTANTS
    DISTRIBUTION_END = 5
    Scale = 2
    Users = {u1, u2}
    StakeContract = stkPSYS
    RewardsVault = vault
    ZeroAddress = zero
    VOTING_POWER = voting
    PROPOSITION_POWER = proposition
    DelegationTypes = {proposition}
    FirstRevision = 1
    COOLDOWN_SECONDS = 0
    UNSTAKE_WINDOW = 1
    MAX_UINT256 = 99
    Amounts = {1}
    Emissions = {0}
    Misreports = {}
    InitialPSYS = 1
    VaultPSYS = 0
    StartTime = 2
    MaxTime = 3
SYMMETRY UserSymmetry
INVARIANTS HolderCanExitV3 PowerIsDelegatedV3
