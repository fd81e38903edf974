SPECIFICATION FairSpec
CONSTANTS
    j1 = j1
    j2 = j2
    j3 = j3
    Jobs = {j1}
    Threads = {t1, t2}
    Occurs <- Named
    HookStages = {}
    MaxAttempts = 1
    Faults = {"spawn", "phone", "launch"}
INVARIANTS
    DeliveredIsRecorded
PROPERTIES
    OutcomeReported
