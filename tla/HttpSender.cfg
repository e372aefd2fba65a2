SPECIFICATION Spec
CONSTANTS
    a = a
    b = b
    Task = {a, b}
    MaxUpdates = 2
    MaxSettings = 1
    MaxSends = 2
SYMMETRY Symmetry
INVARIANTS
    TokenOnlyHec
    EncodingTruthful
    HeadersCurrent
    ChunksInOrder
CHECK_DEADLOCK FALSE
