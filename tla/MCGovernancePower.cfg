SPECIFICATION GovSpec
CONSTANTS
    Accounts = {a1, a2}
    ZeroAddress = zero
    DelegationTypes = {voting}
    Amounts = {1, 2}
    FirstBlock = 1
    MaxSupply = 2
    MaxBlock = 4
SYMMETRY AccountSymmetry
INVARIANTS GovTypeOK PowerIsDelegated SnapshotsOrdered SearchFindsLatest
PROPERTIES PastPowerFixed ImplementsRegister
