SPECIFICATION Spec
SYMMETRY Symmetry
CONSTANTS
    t1 = t1
    t2 = t2
    f1 = f1
    f2 = f2
    noFile = noFile
    Thread = {t1, t2}
    Path = {f1, f2}
    NoPath = noFile
    Size = {1, 2}
    Limit = {2, 3}
    MaxVersions = 2
    MaxCalls = 2
INVARIANTS
    InvalidatedOnChange
CHECK_DEADLOCK FALSE
