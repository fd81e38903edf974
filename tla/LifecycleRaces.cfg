SPECIFICATION Spec
CONSTANTS
    j1 = j1
    j2 = j2
    j3 = j3
    Jobs = {j1}
    Threads = {t1, t2}
    Occurs <- Anonymous
    HookStages = {"COMPLETED", "STAGING_FAILED"}
    MaxAttempts = 2
    Faults = {"spawn", "phone", "launch", "timeout", "restart", "reprovision"}
INVARIANTS
    TypeOK
PROPERTIES
    StatusNeverRegresses
SYMMETRY ThreadSymmetry
