CONSTANTS
    Ids = {i1, i2}
    Clients = {c1, c2}
    NoId = noid
    Schedules = {daily, hourly, odd}
    Registrable = {daily, hourly}
    MaxRequests = 4
    MaxFaults = 1
    MaxStarts = 1
SPECIFICATION Spec
SYMMETRY Symmetry
INVARIANTS TypeOK EntriesTracked RegistryAgrees
CHECK_DEADLOCK FALSE
