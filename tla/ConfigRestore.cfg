SPECIFICATION Spec
CONSTANTS
    None = None
    a1 = a1
    a2 = a2
    r1 = r1
    Admins = {a1, a2}
    Requests = {r1}
    Sections <- MCSections
    MaxEdits = 2
    MaxFaults = 1
SYMMETRY MCSymmetry
INVARIANTS
    TypeOK
    LatestIsCurrent
PROPERTIES
    ImplementsRestorePromise
CHECK_DEADLOCK FALSE
