CONSTANTS
    Docs = {d1, d2, d3}
    Uploads = {u1, u2}
    Workers = {w1, w2}
    None = None
    Cap = 3
    MaxFiles = 2
    Overlapping = FALSE
    Manual = FALSE
    Faults = {}
    MaxCrashes = 0
SPECIFICATION Spec
CHECK_DEADLOCK FALSE
SYMMETRY Symmetry
INVARIANT LastBatchIsChecked
