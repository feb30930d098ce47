SPECIFICATION Spec
CONSTANTS
    a1 = a1  a2 = a2  b1 = b1  b2 = b2
    A = A  B = B
    e1 = e1  e2 = e2  e3 = e3
    Gateways = {a1, b1, b2}
    Eips = {e1, e2, e3}
    V4 = {e1, e2}
    OddEips = {e1, e3}
    Cluster <- MCCluster
    SharedBwVip <- MCToB
    DlOwner <- MCDlOwner
    NoShared = NoShared
    Entries <- MCAgreedEntries
    Tables <- MCAgreedTables
    MaxPackets = 3
    MaxUpdates = 0
    NoPacket = NoPacket
INVARIANTS
    OneMeter
CHECK_DEADLOCK FALSE
