SPECIFICATION Spec
CONSTANTS
    Networks = {"main", "hardhat"}
    Requests = {"deploy-StakedPSYSV3", "initialize-StakedPSYSV3",
        "common-deployment", "dev-deployment", "verify-sc",
        "deploy-PegasysStakingHelper", "deploy-StakeUIHelper",
        "deploy-StakedTokenDataProvider", "deploy-staked-psys-rev3",
        "propose-extension", "proposal-stk-extensions",
        "propose-vault-approval", "proposal-vault-approval",
        "StakedTokenBptRev2", "PegasysIncentivesController"}
    MaxTasks = 2
    MaxContracts = 5
    EarlierContracts <- MCEarlierContracts
CHECK_DEADLOCK FALSE
INVARIANTS CompletedMeansRegistered CheckedBeforeSpending
    ProxyRunsItsOwnToken InitializedOnce
PROPERTY TaskEnds
