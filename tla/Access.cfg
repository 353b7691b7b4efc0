SPECIFICATION Spec
SYMMETRY MCSymmetry
CONSTANTS
    None = None
    administrators = administrators
    root = root
    ann = ann
    bob = bob
    c1 = c1
    c2 = c2
    s1 = s1
    s2 = s2
    k1 = k1
    crew = crew
    Users = {root, ann, bob}
    Seed = root
    Groups = {administrators, crew}
    OwnGroups = {administrators}
    Administrators = administrators
    Clients = {c1, c2}
    Slots = {s1, s2}
    Codes = {k1}
    Watched = {root}
    Limits = {1, 2}
    Windows = {1, 2}
    Limit = 1
    Window = 1
    MaxAged = 1
    MaxChanges = 2
INVARIANTS
    TypeOK
    SessionsEndWithCredentials
    AdministratorsRemain
    FailuresBounded
    CodesSpentOnce
CHECK_DEADLOCK FALSE
