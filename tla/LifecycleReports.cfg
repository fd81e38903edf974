SPECIFICATION Spec
CONSTANTS
    j1 = j1
    j2 = j2
    j3 = j3
    Jobs = {j1, j2}
    Threads = {t1, t2}
    Occurs <- NamedFirst
    HookStages = {}
    MaxAttempts = 0
    Faults = {"phone", "launch", "timeout", "restart"}
INVARIANTS
    CompletedIsExact
PROPERTIES
    ResultKept
SYMMETRY ThreadSymmetry
