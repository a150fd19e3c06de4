SPECIFICATION FairSpec
CONSTANTS
    Keys = {k1, k2}
    Scenarios <- AllScenarios
INVARIANTS FreshReads AckedSurviveCrash AckedRetained
PROPERTIES OperationsEnd
CHECK_DEADLOCK FALSE
