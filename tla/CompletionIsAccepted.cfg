CONSTANTS
    Workers = {w1, w2}
    Recs = {r1, r2, r3}
    None = none
    MaxChecks = 2
    MaxCrash = 1
    MaxFault = 1
    MaxLost = 1
    MaxUses <- MCMaxUses
CHECK_DEADLOCK FALSE
SPECIFICATION Spec
INVARIANT CompletionIsAccepted
