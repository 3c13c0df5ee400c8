SPECIFICATION Spec
CONSTANTS
    root = root
    entity = entity
    tree = tree
    leaf = leaf
    None = None
    Node = {root, entity}
    Query = {tree}
    Graph <- Graphs
    EmptyGraph <- Nothing
    Data <- Readings
    NoData = None
    Result <- Reading
    Complete <- Satisfied
    Ids <- NodesIn
    NoIds = {None}
    SnapId = {s1, s2, s3, s4}
    ObserverId = {o1, o2}
    Strict = TRUE
    Usage <- ObserverWrites
    MaxDepth = 2
SYMMETRY Sym
INVARIANTS
    ObserversCurrent
