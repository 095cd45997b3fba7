CONSTANTS
    Miners <- MCMiners
    RawGpuModels <- MCRawGpuModels
    GpuModelCategory <- MCGpuModelCategory
    MaxGpuCount = 8
    GpuCountBits = 4
    OverflowChecks = FALSE
    Batches <- MCBatches
    Metagraphs <- MCMetagraphs
    CutoffHours = 1
    MaxTime = 2
    MaxInFlight = 1
    OneRoundPerMiner = FALSE
    TotalWeight = 65535
    BurnPercentage = 10
    CategoryShare <- MCCategoryShare
    BurnUid = 999

SPECIFICATION Spec

INVARIANT ShareMatchesDevices
