SPECIFICATION Spec
CONSTANTS
    Records <- MCRecords
    Items <- MCItems
    Seqs = {1, 2}
    NoToken = NoToken
    Targets = {1, 5, 99}
    BitsPerKey = 10
    Hash <- MCHash
    KeyPrefix = 2
    MaxEntries = 4
    MaxFetches = 2
INVARIANTS GetFindsKey ScanExact RecordScan FetchedAsWritten
CHECK_DEADLOCK FALSE
