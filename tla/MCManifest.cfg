SPECIFICATION Spec
CONSTANTS
    Nodes = {n1, n2}
    Workloads <- MCWorkloads
    MaxOps <- MCMaxOps
    MaxCasRetries = 2
    SnapshotInterval = 1
    MaxSeq = 2
SYMMETRY NodeSymmetry
INVARIANTS TypeOK AckedFlushesLive
PROPERTIES ImplementsAtomicManifest FlushKeepsEpoch TwoSnapshotsRetained LatestNeverRegresses
CHECK_DEADLOCK FALSE
