SPECIFICATION Spec
CONSTANTS
    i1 = i1
    i2 = i2
    o1 = o1
    o2 = o2
    NoObject = NoObject
    Id <- MCId
    Object <- MCObject
    MaxCalls = 3
    MaxBlocks = 1
SYMMETRY Symmetry
INVARIANTS
    TypeOK
    LookupContract
    OneFilePerId
PROPERTIES
    NoStepDemotes
CHECK_DEADLOCK FALSE
