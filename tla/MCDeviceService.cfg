SPECIFICATION Spec
CHECK_DEADLOCK FALSE
CONSTANTS
    None = None
    Empty = Empty
    NoRef = NoRef
    v1 = v1
    v2 = v2
    fan = fan
    c1 = c1
    c2 = c2
    Calls = {c1, c2}
    DeviceIds = {"dev1"}
    AutoIds <- MCAutoIds
    Transports = {"mqtt", "http"}
    Refs = {fan, NoRef}
    Values = {v1, v2, Empty}
    Schema <- MCSchema
    ACLs <- MCACLs
    Requests <- MCRequests
    Keys <- MCKeys
    Tokens <- MCTokens
    Configs <- MCConfigs
    MaxRegistrations = 2
    MaxRestarts = 1
SYMMETRY Symmetry
INVARIANTS
    AuthorizedEffects
    SchemaHolds
PROPERTIES
    ReadsSeeWrites
    RegisterNeverReplaces
