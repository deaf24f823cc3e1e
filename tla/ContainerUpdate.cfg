CONSTANTS
    Requests = {p1, p2, p3}
    First = first
    Service = service
    Versions = {v1, v2}
    None = none
    MaxConcurrent = 2
    MaxRefused = 2
    MaxLost = 1
    MaxSick = 2
    MaxCancel = 1
    MaxCrash = 1
    MaxOverlap = 2
    MaxStray = 1
    MaxRollback = 1
    MaxUses <- MCMaxUses
SPECIFICATION Spec
SYMMETRY Symmetry
CONSTRAINT FewMishaps
INVARIANTS TypeOK LeftoverPerMishap OverlapKeepsOneUp OneOverlapKeepsOneUp NeverTwoRun ServiceSurvives
CHECK_DEADLOCK FALSE
