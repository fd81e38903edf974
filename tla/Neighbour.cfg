SPECIFICATION FairSpec
CONSTANTS
    e1 = e1
    e2 = e2
    net0 = net0
    net1 = net1
    gw = gw
    peer = peer
    NULL = NULL
    Entries = {e1, e2}
    Devs = {net0, net1}
    Dests = {gw, peer}
    DevOf <- MCDevOf
    MaxPackets = 3
    MinTimeout = 1
    MaxTimeout = 3
INVARIANTS TypeOK RefsExact OneEntryEach NoOrphans OnePlace
PROPERTIES InOrder EventuallyOut
