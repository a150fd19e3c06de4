SPECIFICATION FairSpec
CONSTANTS
    r1 = r1  r2 = r2  r3 = r3  r4 = r4
    Requests = {r1, r2, r3, r4}
    Size <- Sizes
    Capacity = 2
    MaxBytes = 3
    Modes = {"Sync", "BatchSync"}
    SyncInterval = 2
    Failures = TRUE
INVARIANTS AckedAreSynced LogInSubmissionOrder NoAckAfterFailure RecoversAcked
PROPERTIES EveryoneAnswered EventuallySynced
CHECK_DEADLOCK FALSE
