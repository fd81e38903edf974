SPECIFICATION Spec
CONSTANTS
    b1 = b1
    b2 = b2
    b3 = b3
    j1 = j1
    j2 = j2
    Builds = {b1, b2}
    Jobs = {j1, j2}
    JobOf <- TwoJobOf
    MaxActive = 2
    Faults = {}
INVARIANT NeverAnothersIso
CHECK_DEADLOCK FALSE
