SPECIFICATION Spec
CONSTANTS
    b1 = b1
    b2 = b2
    b3 = b3
    j1 = j1
    j2 = j2
    Builds = {b1, b2, b3}
    Jobs = {j1, j2}
    JobOf <- RetryJobOf
    MaxActive = 2
    Faults = {"compose", "step", "crash"}
INVARIANTS
    TypeOK
    LoneBuildIsTailored
    LoneBuildFindsItsFiles
SYMMETRY RetrySymmetry
CHECK_DEADLOCK FALSE
