SPECIFICATION FairSpec
CONSTANTS
    e4 = e4
    o4 = o4
    e6 = e6
    o6 = o6
    Eips = {e4, o4, e6, o6}
    V4 = {e4, o4}
    OddEips = {o4, o6}
    Ports = {1, 2}
    HostifsSize = 3
    Files <- MCFiles
    AddrBits = 4
    MaxDlIpNum = 5
    MaxFlips = 3
    MaxFails = 1
INVARIANTS StartupTypeOK ParsedAsWritten GatewaysChooseAlike NothingUsedBeforeSetUp
INVARIANTS TablesDecide ForwardsOnlyByFullTables NothingReturnsToCpu LocalFramesReachKernel
INVARIANTS KernelHearsAfterSwitchlink
PROPERTIES StartEnds HostifFollowsLink
CHECK_DEADLOCK FALSE
