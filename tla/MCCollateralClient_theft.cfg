CONSTANTS
    ExecutorIds = {1, 2}
    MinerAccounts = {a1, a2}
    Trustee = trustee
    NoOwner = noOwner
    MinCollateralIncrease = 1
    DecisionTimeout = 1
    Amounts = {1, 2}
    MaxDeposited = 4
    MaxRequests = 3
    MaxTime = 5
    MaxCalls = 0
    MaxSends = 0

SPECIFICATION ContractSpec
SYMMETRY MCSymmetry


INVARIANT NoPayoutBeyondDeposits
