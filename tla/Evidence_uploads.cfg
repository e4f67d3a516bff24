CONSTANTS
    Docs = {d1, d2, d3}
    Uploads = {u1, u2, u3}
    Workers = {w1, w2}
    None = None
    Cap = 2
    MaxFiles = 2
    Overlapping = FALSE
    Manual = TRUE
    Faults = {"exception", "outage"}
    MaxCrashes = 1
SPECIFICATION Spec
CHECK_DEADLOCK FALSE
SYMMETRY Symmetry
INVARIANTS TypeOK ClaimsAreExact UploadsAreKept
PROPERTY DocumentsUnderClaim
