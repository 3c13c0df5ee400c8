SPECIFICATION Spec
CONSTANTS
    v = v
    Variable = {v}
    Undefined = Undefined
    Null = Null
    Thrown = Thrown
    Documents <- AllDocuments
    RootId = {r1, r2}
    VariableValues <- GivenValues
    Failed = Thrown
    NamesIn <- FragmentNames
    Info <- QueryInfo
    Parsed <- OperationInstance
    MaxAsked = 2
INVARIANTS
    ParsedAsSelected
    SameOperationSameIdentity
    AnswersAreFresh
    MemoInv
    StaticAgrees
