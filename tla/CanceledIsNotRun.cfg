CONSTANTS
    Jobs = {j1}
    Workers = {w1, w2}
    Clients = {c1}
    Poller = poller
    Recoverer = recoverer
    Nobody = nobody
    MaxAttempts = 1
    ChanCap = 2
    FailingJobs = {}
    HasRepo = TRUE
    MaxFault = 0
    MaxCrash = 0
    MaxLease = 0
    MaxTtl = 0
    MaxCancel = 1
    MaxDelete = 0
    MaxStop = 0
    MaxExecs = 2
    MaxUses <- MCMaxUses
SPECIFICATION Spec
PROPERTY CanceledIsNotRun
