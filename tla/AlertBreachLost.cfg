SPECIFICATION FairSpec
CONSTANTS
    disk = disk
    h1 = h1
    h2 = h2
    None = None
    Rules = {disk}
    Hosts = {h1, h2}
    MaxEvents <- MCMaxEvents
    MaxFaults = 0
    MaxReminders = 2
INVARIANTS
    EscalationsRecorded
CHECK_DEADLOCK FALSE
