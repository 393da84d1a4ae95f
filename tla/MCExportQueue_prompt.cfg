\* Workers crash and fail but never outlive a lock.
SPECIFICATION FairSpec
CONSTANTS
    NumJobs = 2
    Workers = {w1, w2}
    Callers = {r1}
    MaxAttempts = 2
    MaxHalts = 1
    MaxSlow = 0
    MaxErrors = 1
    MaxChanges = 0
PROPERTIES
    EveryJobSettles
    KeepsLifecycle
