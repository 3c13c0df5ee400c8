SPECIFICATION Spec
CONSTANTS
    root = root
    e1 = e1
    e2 = e2
    ofRoot = ofRoot
    ofE1 = ofE1
    ofE2 = ofE2
    ofInfo = ofInfo
    ofCopy = ofCopy
    sized = sized
    Root = {root}
    Entity = {e1, e2}
    Param = {ofRoot, ofE1, ofE2, ofInfo, ofCopy}
    Owner <- FieldOwner
    Path <- ReadPaths
    Element <- Items
    Scalar = {1, 2}
    Missing = Missing
    Null = Null
    Here = Here
    Absent = Absent
    Undefined = Undefined
    Payload <- CorePayloads
    Queries <- CoreQueries
    Redirects <- Redirected
    PruneQueries <- CorePruneQueries
    NoQuery = NoQuery
    TypeOf <- Types
    FieldMigrations <- Leaves
    FieldAdditions <- Additions
    NoField = NoField
    MaxMerges = 1
INVARIANTS
    CompleteIsCached
