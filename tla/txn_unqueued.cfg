SPECIFICATION Spec
CONSTANTS
    Root = Root
    e1 = e1
    e2 = e2
    Entity = {e1, e2}
    Scalar = {1, 2}
    Null = Null
    Value = Value
    Missing = Missing
    Absent = Absent
    Skip = Skip
    Node <- NodeId
    Graph <- SoundGraph
    EmptyGraph <- NoNodes
    NodeIds <- Present
    Payload <- CorePayloads
    Merge <- Merged
    Rejects <- Clashes
    Edits <- EditedIds
    Drops <- Collected
    Mentions <- PayloadNodes
    c1 = c1
    c2 = c2
    ChangeId = {c1, c2}
    NoChange = NoChange
    SnapId = {s1, s2, s3}
    Restorable = {}
    HasUpdater = {}
    Usage = {"throw"}
    Field <- Fields
    NoValue = Missing
    Cell <- CellOf
    Sets <- SetsOf
    Query <- Queries
    Result <- ReadResult
    Complete <- ReadComplete
    Ids <- ReadIds
    WriteCount <- Writes
    PayloadLists <- DeltaLists
    MaxDepth = 1
    MaxQueue = 2
SYMMETRY Sym
INVARIANTS
    QueueIsReplayed
