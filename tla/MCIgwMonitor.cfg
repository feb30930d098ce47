SPECIFICATION FairSpec
CONSTANTS
    e17 = e17
    e18 = e18
    e33 = e33
    pipe0 = pipe0
    pipe2 = pipe2
    Pipe = {pipe0, pipe2}
    PortSeq <- MCPortSeq
    PortPipe <- MCPortPipe
    MaxDownCount = 2
    FaultyPort = {}
    MaxReadFails = 1
    MayFail = {"seg4", "seg6", "fip"}
    MaxRestarts = 1
    WatchesPorts = TRUE
INVARIANTS TypeOK CountersAgree AnnouncementsAgree
PROPERTIES DownPipeWithdraws HealthyIsAnnounced
