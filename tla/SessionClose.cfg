CONSTANTS
    s1 = s1
    s2 = s2
    k1 = k1
    k2 = k2
    w1 = w1
    w2 = w2
    w3 = w3
    Session = {s1, s2}
    Key = {k1, k2}
    Write = {w1, w2, w3}
    Faults = {"rollback"}

SPECIFICATION Spec
SYMMETRY Symmetric
PROPERTIES
    CloseCommitsNothing
