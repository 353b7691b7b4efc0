SPECIFICATION FairSpec
CONSTANTS
    line = line
    webhook = webhook
    alert = alert
    None = None
    Notices = {line, webhook}
    Batches = {alert}
    BatchOf <- OneAlert
    MaxAttempts = 4
    MaxFaults = 2
    MaxReplays = 1
INVARIANTS
    TypeOK
    AttemptsExplained
    NothingForgotten
PROPERTIES
    ImplementsDeliveryPromise
    JobsSettle
CHECK_DEADLOCK FALSE
