SPECIFICATION GovSpec
CONSTANTS
    Accounts = {a1, a2}
    ZeroAddress = zero
    DelegationTypes = {voting, proposition}
    Amounts = {1, 2}
    FirstBlock = 1
    MaxSupply = 2
    MaxBlock = 2
SYMMETRY AccountSymmetry
INVARIANT VotesWithinSupply
