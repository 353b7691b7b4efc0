SPECIFICATION Spec
SYMMETRY MCSymmetry
CONSTANTS
    None = None
    Tasks = {t1, t2}
    Hosts = {h1}
    Users = {ann, bob}
    Runbooks = {fix}
    Mutating = {fix}
    Risk <- MCRisk
    Alerts = {}
    AlertHost <- MCAlertHost
    AlertRunbooks <- MCAlertRunbooks
    Workers = {w1, w2}
    Concurrency = 1
    MaxFaults = 1
INVARIANTS
    TypeOK
    OneRunningRowPerHost
    OverlapOnlyWithAbandoned
PROPERTIES
    QueuedUnderLiveApproval
    SettledStays
    CommandsRunOnce
    CancelStopsCommands
CHECK_DEADLOCK FALSE
