SPECIFICATION FairSpec
CONSTANTS
    None = None
    loop = loop
    admin = admin
    h1 = h1
    h2 = h2
    Hosts = {h1, h2}
    Callers = {loop, admin}
    Loop = loop
    Values <- MCValues
    Threshold = 2
    MaxDrift = 1
    MaxManual = 1
    MaxFaults = 1
INVARIANTS
    TypeOK
    AlertMatchesLastScan
    RunningIsHeld
PROPERTIES
    SuccessMeansScanned
    UpdatesHeal
CHECK_DEADLOCK FALSE
