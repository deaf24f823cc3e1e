CONSTANTS
    Agents = {a1, a2}
    Hosts = {h1, h2}
    None = none
    Cmds = {c1}
    MaxLate = 1
    MaxFault = 0
    MaxDisconnect = 1
    MaxStart = 2
    MaxDrop = 1
    MaxMove = 1
    MaxUses <- MCMaxUses
SPECIFICATION Spec
SYMMETRY Symmetry
VIEW View
CONSTRAINT FewEvents
PROPERTY AtMostOnceCall
INVARIANTS TypeOK AgentsAreIndexed IndexIsLiveOtherwise RunsOnItsHost
