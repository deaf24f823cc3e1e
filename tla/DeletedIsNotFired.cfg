CONSTANTS
    Ids = {i1}
    Clients = {c1, c2}
    NoId = noid
    Schedules = {daily}
    Registrable = {daily}
    MaxRequests = 3
    MaxFaults = 0
    MaxStarts = 0
SPECIFICATION Spec
INVARIANT DeletedIsNotFired
CHECK_DEADLOCK FALSE
