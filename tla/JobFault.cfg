CONSTANTS
    Jobs = {j1}
    Workers = {w1}
    Clients = {c1, c2}
    Poller = poller
    Recoverer = recoverer
    Nobody = nobody
    MaxAttempts = 2
    ChanCap = 1
    FailingJobs = {j1}
    HasRepo = TRUE
    MaxFault = 2
    MaxCrash = 0
    MaxLease = 1
    MaxTtl = 1
    MaxCancel = 1
    MaxDelete = 0
    MaxStop = 0
    MaxExecs = 3
    MaxUses <- MCMaxUses
SPECIFICATION Spec
CONSTRAINT OneTrouble
INVARIANTS NoLostJob TypeOK EntryHasData
