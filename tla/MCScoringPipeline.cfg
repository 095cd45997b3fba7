CONSTANTS
    Miners <- MCMiners
    RawGpuModels <- MCRawGpuModels
    GpuModelCategory <- MCGpuModelCategory
    MaxGpuCount = 8
    GpuCountBits = 4
    OverflowChecks = TRUE
    Batches <- MCBatches
    Metagraphs <- MCMetagraphs
    CutoffHours = 1
    MaxTime = 2
    MaxInFlight = 1
    OneRoundPerMiner = TRUE
    TotalWeight = 65535
    BurnPercentage = 10
    CategoryShare <- MCCategoryShare
    BurnUid = 999

SPECIFICATION Spec

INVARIANT TypeOK
INVARIANT EligibleIffQualified
INVARIANT ShareMatchesDevices
INVARIANT BudgetNeverExceeded
INVARIANT NoPoolDropped
INVARIANT EligibleScorePositive
