CONSTANTS
    c1 = c1
    c2 = c2
    r1 = r1
    w1 = w1
    a = a
    o1 = o1
    p1 = p1
    d1 = d1
    d2 = d2
    u1 = u1
    u2 = u2
    w2 = w2
    None = None
SPECIFICATION FairSpec
CHECK_DEADLOCK FALSE
PROPERTIES JobsSettle StreamEnds WorkEnds
