SPECIFICATION FairSpec
CONSTANTS
    Request = 2
    Reply = 1
    M = 21
    Reach = 4
    PeerWindows <- OneWindow
    AppWindows <- MCAppWindows
    PathMtu = 2
    MaxQueue = 2
PROPERTIES
    EventuallyAcked
    EventuallyDeleted
