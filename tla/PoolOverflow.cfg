CONSTANTS
    c1 = c1
    c2 = c2
    c3 = c3
    r1 = r1
    r2 = r2
    r3 = r3
    a = a
    b = b
    u1 = u1
    u2 = u2
    Client = {c1, c2, c3}
    Real = {r1, r2}
    Url = {u1}
    User = {a, b}
    MaxActive = 1
    MaxIdle = 1
    Tolerance = 0
    PingEnabled = FALSE
    AutoCommit = TRUE
    Faults = {"rollback"}
    NoReal = NoReal
    NoClient = NoClient

SPECIFICATION Spec
SYMMETRY Symmetric
INVARIANTS
    ActiveLimited
