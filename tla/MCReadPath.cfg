SPECIFICATION FairSpec
CONSTANTS
    Items = {1, 2, 3}
    Tokens = {t1}
    NoToken = NoToken
    PageSize = 1
    Budget = 1
    Ranges <- MCRanges
    Cuts <- MCCuts
    KeySets = {{2}, {1, 3}}
    Clients = {"scans", "retries"}
    MaxWrites = 3
    MaxTables = 2
INVARIANTS PointReadsFresh ScanSound ScanComplete
PROPERTIES ScanEnds
CHECK_DEADLOCK FALSE
