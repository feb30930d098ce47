SPECIFICATION FairSpec
CONSTANTS
    a1 = a1  a2 = a2  b1 = b1  b2 = b2
    A = A  B = B
    e1 = e1  e2 = e2  e3 = e3
    Gateways = {a1, b1}
    Eips = {e1, e3}
    V4 = {e1}
    OddEips = {e1}
    Cluster <- MCCluster
    SharedBwVip <- MCCrossed
    DlOwner <- MCDlOwner
    NoShared = NoShared
    Entries <- MCEntries
    Tables <- MCAnyTables
    MaxPackets = 1
    MaxUpdates = 1
    NoPacket = NoPacket
INVARIANTS
    PipelineTypeOK
    RedirectOnce
    DroppedNeverLeaves
    MeteredOnce
PROPERTIES
    Terminates
CHECK_DEADLOCK FALSE
