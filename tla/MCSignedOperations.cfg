SPECIFICATION HistorySpec
CONSTANTS
    Users = {"ann", "bob"}
    Chain = 1
    Signatures <- MCSignatures
    Approvals <- MCApprovals
    Amounts = {1, 2}
    Endowment = 3
    MaxTime = 1
    MaxGranted = 3
CHECK_DEADLOCK FALSE
INVARIANTS SignaturesOnceInOrder SpentWithinGrants HelperStakesForSigner
    SubmittedPermitStillStakes
