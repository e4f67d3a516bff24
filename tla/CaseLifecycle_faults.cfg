CONSTANTS
    Cases = {c1}
    Requests = {r1}
    Workers = {w1}
    Submissions = {s1}
    Reviewers = {v1}
    None = None
    Ops <- UncontestedOps
    Faults = {"exception", "outage"}
    MaxCrashes = 1
SPECIFICATION Spec
CHECK_DEADLOCK FALSE
SYMMETRY Symmetry
INVARIANTS TypeOK
PROPERTY ImplementsAgentRuns
