SPECIFICATION Spec
CONSTANTS
    h17 = h17
    h33 = h33
    g17 = g17
    g18 = g18
    g33 = g33
    other = other
    pipe0 = pipe0
    pipe2 = pipe2
    m1 = m1
    m2 = m2
    ma1 = ma1
    mcast = mcast
    Hostif = {h17}
    Gateway = {g17, g18, g33}
    Pipe = {pipe0, pipe2}
    GwOf <- OneGwOf
    PipeOf <- MCPipeOf
    Ip = {g17}
    Mac = {}
    MaxHops = 2
    MaxMoves = 0
    MaxCloses = 0
    Starts = {0, 1}
    QueueCap = 1
    OtherIntf = {}
    BadMac = {}
    OtherNeigh <- Unresolved
    OtherGw = {}
    NoAttr = NoAttr
    NoMac = NoMac
    MaxGateway = 3
INVARIANT ExactOnUsedPipes
