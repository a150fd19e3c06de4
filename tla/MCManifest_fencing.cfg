SPECIFICATION Spec
CONSTANTS
    Nodes = {n1, n2}
    Workloads <- FencingWorkloads
    MaxOps <- FencingMaxOps
    MaxCasRetries = 2
    SnapshotInterval = 2
    MaxSeq = 1
SYMMETRY NodeSymmetry
PROPERTIES FencedFlush
CHECK_DEADLOCK FALSE
