SPECIFICATION RouteSpec
CONSTANTS
    g17 = g17
    g18 = g18
    g33 = g33
    ma1gw = ma1gw
    pipe0 = pipe0
    pipe2 = pipe2
    Gateway = {g17, g18, g33}
    OtherGw = {ma1gw}
    Pipe = {pipe0, pipe2}
    PipeOf <- MCPipeOf
    MaxGateway = 2
    MaxHops = 3
    Starts = {0, 1, 2}
INVARIANTS RouteTypeOK MembersWereAnnounced
PROPERTIES NeverBlackholed ImplementsSelector
