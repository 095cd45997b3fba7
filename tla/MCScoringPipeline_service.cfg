CONSTANTS
    Miners <- MCMiners
    RawGpuModels <- MCRawGpuModels
    GpuModelCategory <- MCGpuModelCategory
    MaxGpuCount = 8
    GpuCountBits = 4
    OverflowChecks = TRUE
    Batches <- MCServiceBatches
    Metagraphs <- MCMetagraphs
    CutoffHours = 1
    MaxTime = 2
    MaxInFlight = 2
    OneRoundPerMiner = TRUE
    TotalWeight = 65535
    BurnPercentage = 10
    CategoryShare <- MCCategoryShare
    BurnUid = 999

SPECIFICATION FairSpec

PROPERTY ImplementsScoringService
PROPERTY QualifiedMinerRewarded
