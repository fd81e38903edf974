SPECIFICATION Spec
CONSTANTS
    j1 = j1
    j2 = j2
    j3 = j3
    Jobs = {j1, j2, j3}
    Threads = {t1, t2}
    Occurs <- Named
    HookStages = {}
    MaxAttempts = 0
    Faults = {}
INVARIANTS
    DeliveredIsRecorded
SYMMETRY ThreadSymmetry
