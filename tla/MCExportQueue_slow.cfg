\* Two workers, one of them may outlive its lock, one crash, storage errors,
\* a user downloading while the job is worked on.
SPECIFICATION Spec
CONSTANTS
    NumJobs = 1
    Workers = {w1, w2}
    Callers = {r1}
    MaxAttempts = 3
    MaxHalts = 1
    MaxSlow = 2
    MaxErrors = 2
    MaxChanges = 3
SYMMETRY Symmetry
INVARIANTS
    CompletedHasItsFile
    DownloadsAreWhole
    OneWorkerPerJob
    FailedOnlyAfterLastAttempt
    RevocationBlocksDownload
