SPECIFICATION JwksSpec
CONSTANTS
    Validations = {c1, c2, c3}
    jwksMaxStaleness = 3
    Timeout = 2
    MaxRotations = 2
SYMMETRY Symmetry
INVARIANTS
    ChecksByRecentKeys
