SPECIFICATION Spec
CONSTANTS
    Requests = {r1, r2}
    TicksPerSecond = 2
    AccessTtl = 1
    RefreshTtl = 2
    Window = 3
    MaxLogins = 1
    MaxTick = 4
    MaxTokens = 6
    MaxSends = 3
    None = None
SYMMETRY RequestSymmetry
INVARIANTS
    TypeOK
    RevokedIsRefused
    RefreshCookieIsLive
    AuthTimeIsALogin
    LoginsBounded
    NoTicketLeft
CHECK_DEADLOCK FALSE
