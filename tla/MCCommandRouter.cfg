SPECIFICATION Spec
CONSTANTS
    Devices = {d1, d2}
    Streams = {s1, s2}
    Calls = {c1, c2}
    commandBuffer = 1
    None = None
SYMMETRY Symmetry
INVARIANTS
    SubmitNeverBlocks
    ResultsAreCorrelated
    PendingOnlyWhileWaiting
    LatestStreamStaysRegistered
    CommandsReachTheirAddressee
PROPERTIES
    KeepsItsPromise
