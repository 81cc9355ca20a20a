CONSTANTS
    PAGE_SIZE <- MC_PAGE_SIZE
    SECTOR_SIZE <- MC_SECTOR_SIZE
    SECTOR_PER_CLUSTER <- MC_SECTOR_PER_CLUSTER
    MaxLen <- MC_MaxLen
    MaxIo <- MC_MaxIo
    MaxClusters <- MC_MaxClusters
    Values = {a}
    Hole = Hole
    Junk = Junk
    NoWrite = NoWrite

SPECIFICATION Spec

INVARIANT TypeOK
INVARIANT WrittenBytesPersist
INVARIANT ReadReturnsFile
INVARIANT SyncedPagesHoldFileBytes
