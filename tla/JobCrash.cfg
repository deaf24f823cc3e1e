CONSTANTS
    Jobs = {j1, j2}
    Workers = {w1}
    Clients = {c1}
    Poller = poller
    Recoverer = recoverer
    Nobody = nobody
    MaxAttempts = 2
    ChanCap = 1
    FailingJobs = {j1, j2}
    HasRepo = TRUE
    MaxFault = 0
    MaxCrash = 1
    MaxLease = 0
    MaxTtl = 0
    MaxCancel = 0
    MaxDelete = 0
    MaxStop = 1
    MaxExecs = 5
    MaxUses <- MCMaxUses
SPECIFICATION Spec
SYMMETRY Symmetry
VIEW View
INVARIANTS NoLostJob LeasedWhileInPool RetryBudget
