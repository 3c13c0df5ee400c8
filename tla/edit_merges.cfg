SPECIFICATION Spec
CONSTANTS
    root = root
    e1 = e1
    e2 = e2
    field = field
    Skip = Skip
    Value = Value
    Root = {root}
    Entity = {e1, e2}
    Param = {}
    Owner <- FieldOwner
    Path <- RefPaths
    Element <- NoElements
    Scalar = {1, 2}
    Missing = Missing
    Null = Null
    Here = Here
    Absent = Absent
    Payload <- WalkPayloads
    MaxMerges = 2
PROPERTIES
    MergesLikeEntityGraph
    FailsOnCollected
