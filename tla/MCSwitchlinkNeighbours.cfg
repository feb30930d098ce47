SPECIFICATION FairSpec
CONSTANTS
    h17 = h17
    h33 = h33
    g17 = g17
    g18 = g18
    g33 = g33
    other = other
    pipe0 = pipe0
    pipe2 = pipe2
    m1 = m1
    m2 = m2
    ma1 = ma1
    mcast = mcast
    Hostif = {h17}
    Gateway = {g17}
    Pipe = {pipe0}
    GwOf <- OneGwOf
    PipeOf <- OnePipeOf
    Ip = {g17, other}
    Mac = {m1, m2}
    MaxHops = 0
    MaxMoves = 2
    MaxCloses = 1
    Starts = {0}
    QueueCap = 2
    OtherIntf = {ma1}
    BadMac = {mcast}
    OtherNeigh <- EveryOtherNeigh
    OtherGw = {}
    NoAttr = NoAttr
    NoMac = NoMac
    MaxGateway = 2
INVARIANTS TypeOK CacheMatchesHardware OnlyGatewayAddresses
PROPERTY GatewayAddressConverges
