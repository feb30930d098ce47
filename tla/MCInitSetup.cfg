SPECIFICATION FairSpec
CONSTANTS
    s1 = s1
    s2 = s2
    h = h
    Old = Old
    Scripts = {s1, s2}
    ByHand = {h}
    MaxCrashes = 1
INVARIANTS InitSetupTypeOK OneDriver
PROPERTIES InitsetupStarts
CHECK_DEADLOCK FALSE
