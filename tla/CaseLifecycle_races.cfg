CONSTANTS
    Cases = {c1}
    Requests = {r1, r2}
    Workers = {w1}
    Submissions = {s1}
    Reviewers = {v1}
    None = None
    Ops <- RacingOps
    Faults = {}
    MaxCrashes = 0
SPECIFICATION Spec
SYMMETRY Symmetry
INVARIANTS ClaimIsExact OrderRestsOnProposal EscalationIsExplained
PROPERTY AgentsWriteUnderClaim
