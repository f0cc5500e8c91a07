\* Three vaults share one execution slot and two read slots.  One of them has
\* two readers for three users, so that its readers may fill the read slots.
CONSTANTS
    Vaults = {v1, v2, v3}
    JobLimit = 1
    Large = v1
    New = v3
    Rows <- SmallRows
    Concurrency = 2
    ReadLimit = 2
    ReadAttempts = 2

SPECIFICATION FairScansSpec

INVARIANTS
    LimitsHold
    ScanIsWhole

PROPERTIES
    EveryVaultProceeds

CHECK_DEADLOCK FALSE
