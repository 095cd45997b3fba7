CONSTANTS
    ExecutorIds = {1}
    MinerAccounts = {a1}
    Trustee = trustee
    NoOwner = noOwner
    MinCollateralIncrease = 1
    DecisionTimeout = 1
    Amounts = {1}
    MaxDeposited = 3
    MaxRequests = 1
    MaxTime = 2
    MaxCalls = 4
    MaxSends = 4

SPECIFICATION CallerSpec

INVARIANT TypeOK
INVARIANT PendingMatchesReclaims
INVARIANT DecisionCallsTakeEffectOnce
