SPECIFICATION Spec
CONSTANTS
    Requests = {r1, r2, r3}
    Watchers = {}
    Devices <- OneDevice
    Publishers <- OneDevice
    Paths <- OnePath
    MaxMessages = 1
    MaxLosses = 0
SYMMETRY Symmetry
INVARIANTS
    EveryWaiterIsServed
