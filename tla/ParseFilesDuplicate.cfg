SPECIFICATION Spec
CONSTANTS
    t1 = t1
    t2 = t2
    p1 = p1
    p2 = p2
    a = a
    NoObject = NoObject
    NoPath = NoPath
    Thread <- MCThread
    Path <- MCPath
    Id <- MCId
    Object <- MCObject
    Capacity <- MCCapacity
    Reparse = FALSE
    Failures = FALSE
PROPERTY DuplicateDefinitionRejected
CHECK_DEADLOCK FALSE
