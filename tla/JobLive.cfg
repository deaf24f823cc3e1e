CONSTANTS
    Jobs = {j1, j2}
    Workers = {w1, w2}
    Clients = {c1}
    Poller = poller
    Recoverer = recoverer
    Nobody = nobody
    MaxAttempts = 2
    ChanCap = 1
    FailingJobs = {j1, j2}
    HasRepo = TRUE
    MaxFault = 0
    MaxCrash = 0
    MaxLease = 0
    MaxTtl = 0
    MaxCancel = 0
    MaxDelete = 1
    MaxStop = 0
    MaxExecs = 3
    MaxUses <- MCMaxUses
SPECIFICATION FairSpec
PROPERTY EveryJobFinishes
PROPERTY CompletedIsFinal
INVARIANTS FailedOnlyWhenExhausted DbAgreesOnCompleted CancelFnsOwned
