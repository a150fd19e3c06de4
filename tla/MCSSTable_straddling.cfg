SPECIFICATION Spec
CONSTANTS
    Records <- MCRecords
    Items <- MCItems
    Seqs = {1, 2}
    NoToken = NoToken
    Targets = {1}
    BitsPerKey = 10
    Hash <- MCHash
    KeyPrefix = 2
    MaxEntries = 2
    MaxFetches = 0
INVARIANT GetNewest
CHECK_DEADLOCK FALSE
