CONSTANTS
    c1 = c1
    c2 = c2
    c3 = c3
    r1 = r1
    r2 = r2
    r3 = r3
    a = a
    b = b
    u1 = u1
    u2 = u2
    Client = {c1, c2}
    Real = {r1, r2}
    Url = {u1}
    User = {a, b}
    MaxActive = 1
    MaxIdle = 1
    Tolerance = 1
    PingEnabled = TRUE
    AutoCommit = FALSE
    Faults = {"connect", "getAutoCommit", "rollback", "close", "isClosed", "drop"}
    NoReal = NoReal
    NoClient = NoClient

SPECIFICATION FairSpec
INVARIANTS
    TypeOK
    Exclusive
    ActiveIsHeld
    IdleLimited
PROPERTIES
    CleanHandover
    RevokedForCause
    NoWedge
    ImplementsLease
