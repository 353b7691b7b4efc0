SPECIFICATION FairLifecycle
CONSTANTS
    disk = disk
    h1 = h1
    h2 = h2
    Rules = {disk}
    Hosts = {h1, h2}
    Cycles = {c1, c2}
    c1 = c1
    c2 = c2
    MaxEvents <- MCMaxEvents
    Consecutive = 2
    MaxFaults = 1
INVARIANTS
    TypeOK
    EveryAlertTold
PROPERTIES
    ImplementsAlertBoard
    NoticesInOrder
    AlertsFollowSamples
CHECK_DEADLOCK FALSE
