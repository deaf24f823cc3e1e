CONSTANTS
    Requests = {p1, p2}
    First = first
    Service = service
    Versions = {v1, v2}
    None = none
    MaxConcurrent = 1
    MaxRefused = 0
    MaxLost = 0
    MaxSick = 0
    MaxCancel = 0
    MaxCrash = 0
    MaxOverlap = 0
    MaxStray = 0
    MaxRollback = 1
    MaxUses <- MCMaxUses
SPECIFICATION Spec
INVARIANT RollbackRestores
CHECK_DEADLOCK FALSE
