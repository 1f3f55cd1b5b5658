CONSTANTS
    s1 = s1
    s2 = s2
    k1 = k1
    k2 = k2
    w1 = w1
    w2 = w2
    w3 = w3
    Session = {s1, s2}
    Key = {k1, k2}
    Write = {w1, w2, w3}
    Faults = {"connect", "statement", "commit", "reset", "drop"}

SPECIFICATION Spec
SYMMETRY Symmetric
INVARIANTS
    TypeOK
    PendingIsDirty
    CacheHonest
PROPERTIES
    ImplementsUnitOfWork
