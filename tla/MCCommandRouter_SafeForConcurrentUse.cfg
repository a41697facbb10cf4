SPECIFICATION Spec
CONSTANTS
    Devices = {d1, d2}
    Streams = {s1, s2}
    Calls = {c1, c2}
    commandBuffer = 1
    None = None
SYMMETRY Symmetry
INVARIANT
    SafeForConcurrentUse
