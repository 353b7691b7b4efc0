SPECIFICATION FairSpec
CONSTANTS
    None = None
    Tasks = {t1, t2}
    Hosts = {h1}
    Users = {ann}
    Runbooks = {look}
    Mutating = {}
    Risk <- MCRisk
    Alerts = {}
    AlertHost <- MCAlertHost
    AlertRunbooks <- MCAlertRunbooks
    Workers = {w1, w2}
    Concurrency = 1
    MaxFaults = 1
PROPERTIES
    RunningSettles
    QueueDrains
CHECK_DEADLOCK FALSE
