SPECIFICATION HttpFairSpec
CONSTANTS
    HttpDevices = {d1, d2}
    Absent = Absent
    MaxVersion = 2
PROPERTIES
    LoopReportsForward
    PollingKeepsUp
    CloseEndsLoops
