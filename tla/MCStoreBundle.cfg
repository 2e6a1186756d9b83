SPECIFICATION Spec
CONSTANTS
    Posts = {p1, p2}
    Runs = {r1, r2}
    NoPost = NoPost
    Durables = {"file", "mongo"}
    Backends = {"memstore", "redis"}
    Capacity = 1
    MaxFaults = 1
    MaxResets = 1
    MaxRestarts = 1
    MaxMishaps = 2
    MaxClosing = 0
SYMMETRY BundleSymmetry
INVARIANTS BundleInv ListedIsDurable ResetForgets CompletedHasRecord
PROPERTY RerunStartsClean
CHECK_DEADLOCK FALSE
