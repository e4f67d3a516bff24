CONSTANTS
    Cases = {c1}
    Requests = {r1, r2}
    Workers = {w1, w2}
    Submissions = {s1}
    Reviewers = {v1}
    None = None
    Ops <- RacingOps
    Faults = {}
    MaxCrashes = 0
SPECIFICATION Spec
INVARIANT EscalatedIsQueued
