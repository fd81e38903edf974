SPECIFICATION FairSpec
CONSTANTS
    j1 = j1
    j2 = j2
    j3 = j3
    Jobs = {j1, j2}
    Threads = {t1, t2}
    Occurs <- Anonymous
    HookStages = {}
    MaxAttempts = 0
    Faults = {}
PROPERTIES
    OutcomeReported
