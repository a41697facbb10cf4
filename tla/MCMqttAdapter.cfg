SPECIFICATION Spec
CONSTANTS
    Requests = {r1, r2}
    Watchers = {w1}
    Devices <- WithWildcard
    Publishers <- OneDevice
    Paths <- OnePath
    MaxMessages = 1
    MaxLosses = 1
SYMMETRY Symmetry
INVARIANTS
    WaitersAreTheRequests
    SubscribedIsTruthful
    RepliesMatchRequests
    UpdatesAreAttributed
