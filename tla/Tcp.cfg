SPECIFICATION Spec
CONSTANTS
    Request = 1
    Reply = 3
    M = 25
    Reach = 5
    PeerWindows <- OneWindow
    AppWindows <- MCAppWindows
    PathMtu = 2
    MaxQueue = 2
INVARIANTS
    TypeOK
    Asserts
    PendingExact
    SackTruthful
    QueueBehindGap
    NeverStalls
    NoLostWakeup
PROPERTIES
    StreamSpec
