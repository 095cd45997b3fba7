CONSTANTS
    ExecutorIds = {1, 300}
    MinerAccounts = {a1, a2}
    Trustee = trustee
    NoOwner = noOwner
    MinCollateralIncrease = 1
    DecisionTimeout = 1
    Amounts = {1, 2}
    MaxDeposited = 1
    MaxRequests = 1
    MaxTime = 0
    MaxCalls = 0
    MaxSends = 0

SPECIFICATION ContractSpec

INVARIANT ReclaimNamesItsExecutor
