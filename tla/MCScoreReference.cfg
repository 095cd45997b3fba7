CONSTANTS
    Miners = {1, 2, 3}
    RawGpuModels <- MCRawGpuModels
    GpuModelCategory <- MCGpuModelCategory
    MaxGpuCount = 8
    GpuCountBits = 6
    OverflowChecks = TRUE
    ResultCounts = {0, 1, 2, 3, 4, 5, 6, 7, 8, 9, 16}
    ResultModels <- MCResultModels
    MaxBatchLen = 3

SPECIFICATION Spec

INVARIANT ScoreMatchesReference
INVARIANT ScoreMatchesTests
