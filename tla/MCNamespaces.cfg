SPECIFICATION FairSpec
CONSTANTS
    a = a
    r0 = r0
    r1 = r1
    rx = rx
    NoKey = NoKey
    Names = {a}
    DefaultNames <- MCDefaults
    DefaultCount = 2
    Counts = {1, 2, 3}
    Records = {r0, r1, rx}
    Hash <- MCHash
    Clients = {1, 2}
    Scenarios <- MCScenarios
    MaxOpens = 4
INVARIANTS OneWriter AckedDurable ServesAcked CleanStop
PROPERTIES RequestsEnd ShutdownEnds
CHECK_DEADLOCK FALSE
