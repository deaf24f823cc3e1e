CONSTANTS
    Agents = {a1}
    Hosts = {h1}
    None = none
    MaxLate = 1
    MaxFault = 1
    MaxDisconnect = 1
    MaxStart = 2
    MaxDrop = 1
    MaxMove = 0
    MaxUses <- MCMaxUses
SPECIFICATION FairSpecRegistry
PROPERTY ConnectedIsOnline
PROPERTY GoneIsNotOnline
INVARIANT TypeOKRegistry
