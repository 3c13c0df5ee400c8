SPECIFICATION Spec
CONSTANTS
    root = root
    e1 = e1
    e2 = e2
    field = field
    Skip = Skip
    Value = Value
    Root = {root}
    Entity = {e1, e2}
    Param = {field}
    Owner <- FieldOwner
    Path <- ListPaths
    Element <- Elements
    Scalar = {1, 2}
    Missing = Missing
    Null = Null
    Here = Here
    Absent = Absent
    Payload <- CorePayloads
    MaxMerges = 2
INVARIANTS
    EditorInv
    UnwrittenKept
    TypeOK
    ReferencesSymmetric
    ReferencesMatchData
    PointersCurrent
    OrphansCollected
    RestoresWhatWasExtracted
PROPERTIES
    EditsCoverValues
    OnlyWrittenChanges
    IdentityChangesWithValue
