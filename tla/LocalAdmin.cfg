SPECIFICATION Spec
CONSTANTS
    Requests = {r1, r2}
    Envs = {e1, e2}
    MustRotate = {e1}
    MaxHashes = 2
    MaxSessions = 2
    MaxRestarts = 2
    None = None
SYMMETRY RequestSymmetry
INVARIANTS
    TypeOK
    DashboardNeedsRotation
    ChangeEndsSessions
CHECK_DEADLOCK FALSE
