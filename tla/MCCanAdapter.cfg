SPECIFICATION Spec
CONSTANTS
    w1 = w1
    w2 = w2
    d1 = d1
    m1 = m1
    m2 = m2
    None = None
    NotNumeric = NotNumeric
    NBytes = 2
    Precision = 6
    TooHigh <- MCTooHigh
    Writers = {w1, w2}
    Devices = {d1}
    Messages = {m1, m2}
    Databases <- MCDatabases
    Writes <- MCWrites
    BusFrames <- MCBusFrames
INVARIANTS
    CacheIsTheLastFrame
    WriteTouchesOnlyItsSignal
    WritesSurvive
    HealthIsTruthful
PROPERTIES
    CloseStopsReader
CHECK_DEADLOCK FALSE
