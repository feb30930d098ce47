SPECIFICATION FairSpec
CONSTANTS
    e17 = e17
    e18 = e18
    e33 = e33
    pipe0 = pipe0
    pipe2 = pipe2
    Pipe = {pipe0, pipe2}
    PortSeq <- MCPortSeq
    PortPipe <- MCPortPipe
    MaxDownCount = 2
    FaultyPort = {e18}
    MaxReadFails = 0
    MayFail = {}
    MaxRestarts = 0
    WatchesPorts = TRUE
PROPERTY DownPipeWithdraws
