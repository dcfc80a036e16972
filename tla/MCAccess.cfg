\* Three requests of any kind, or four logins from two peers of which one can be
\* tracked, with a window of two ticks out of three.
SPECIFICATION MCSpec
CONSTANTS
    u1 = u1
    c1 = c1
    c2 = c2
    p1 = p1
    n1 = n1
    None = None
    MaxRequests = 4
    Kinds = {"login", "work", "switch", "logout"}
    Users = {u1}
    Names = {u1, n1}
    Companies = {c1, c2}
    Peers = {p1, p2}
    Limit = 2
    Window = 2
    MaxTracked = 1
    Slots = 1
    TTL = 1
    MaxTime = 3
    MaxChanges = 1
    FirstGrants <- TheFirstGrants
INVARIANTS
    LimitHolds
PROPERTIES
    ServedFreshly
    SessionsOnlyMoveOrGo
    EveryRequestEnds
