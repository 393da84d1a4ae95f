\* One worker that ends once, in the middle of its first attempt.
SPECIFICATION Spec
CONSTANTS
    NumJobs = 1
    Workers = {w1}
    Callers = {r1}
    MaxAttempts = 3
    MaxHalts = 1
    MaxSlow = 0
    MaxErrors = 0
    MaxChanges = 0
INVARIANT RecoversFromWorkerFailure
