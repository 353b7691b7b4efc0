SPECIFICATION Spec
SYMMETRY MCSymmetry
CONSTANTS
    None = None
    h1 = h1
    h2 = h2
    r1 = r1
    r2 = r2
    ann = ann
    bob = bob
    file = file
    Hosts = {h1}
    Rotations = {r1, r2}
    FileKey = file
    Users = {ann, bob}
    MaxFaults = 2
INVARIANTS
    TypeOK
    VerifiedIsInstalled
    EnabledHostsReachable
CHECK_DEADLOCK FALSE
