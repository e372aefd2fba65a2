SPECIFICATION Spec
CONSTANTS
    a = a
    b = b
    Task = {a, b}
    MaxUpdates = 1
    MaxSettings = 1
    MaxSends = 2
SYMMETRY Symmetry
INVARIANT
    HeadersReplaced
CHECK_DEADLOCK FALSE
