SPECIFICATION FairSpec
CONSTANTS
    root = root
    entity = entity
    tree = tree
    leaf = leaf
    None = None
    Node = {root, entity}
    Query = {tree}
    Graph <- Linked
    EmptyGraph <- Nothing
    Data <- Readings
    NoData = None
    Result <- Reading
    Complete <- Satisfied
    Ids <- NodesIn
    NoIds = {None}
    SnapId = {s1, s2, s3}
    ObserverId = {o1, o2}
    Strict = FALSE
    Usage <- Nested
    MaxDepth = 2
INVARIANTS
    ReadCacheIsFresh
    ObserversCurrent
PROPERTIES
    EventuallyTold
