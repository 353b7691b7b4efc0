SPECIFICATION Spec
SYMMETRY MCSymmetry
CONSTANTS
    None = None
    Tasks = {t1, t2}
    Hosts = {h1}
    Users = {ann, bob}
    Runbooks = {fix, look}
    Mutating = {fix}
    Risk <- MCRisk
    Alerts = {disk}
    AlertHost <- MCAlertHost
    AlertRunbooks <- MCAlertRunbooks
    Workers = {w1}
    Concurrency = 2
    MaxFaults = 0
INVARIANTS
    SucceededRanEverything
PROPERTIES
    ImplementsApprovalGate
CHECK_DEADLOCK FALSE
