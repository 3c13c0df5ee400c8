---------------------------- MODULE OperationMemo ----------------------------
(***************************************************************************)
(* CacheContext.parseOperation: parsed documents and operations are kept,  *)
(* by the source they have, and an operation that is asked for again is    *)
(* the one that was given before.  The cache uses it as an identity: reads *)
(* are remembered by it.  What parsing a document gives is a parameter.    *)
(*                                                                         *)
(* Callers use one source text here, with any fragment of it, root and     *)
(* variables.                                                              *)
(***************************************************************************)
EXTENDS Integers, Sequences, FiniteSets

CONSTANTS
    Documents,        \* documents
    NamesIn(_),       \* names of fragments that a document can be asked for by
    RootId,           \* ids of the nodes operations start at
    VariableValues,   \* what callers give as variables
    Info(_, _),       \* the QueryInfo of a document and a name in it
    Parsed(_, _),     \* its operation with variables put in
    Failed,           \* an exception, in place of either
    MaxAsked          \* bound: operations that are asked for, again and again

ASSUME FailedAssumption == Failed \notin Nat

VARIABLES
    document,         \* the document that callers use
    queryInfoMap,     \* CacheContext._queryInfoMap
    operationMap,     \* CacheContext._operationMap
    answers           \* auxiliary: what each call gave

vars == <<document, queryInfoMap, operationMap, answers>>

RawOperation == [fragmentName : NamesIn(document), rootId : RootId, variables : VariableValues]

\* Mutant: all fragments of a document have the same key.
SourceBody(raw) == <<document, "document">>

OperationCacheKey(raw) == <<document, raw.fragmentName>>

\* Mutant: operations of one root are the same.
MatchesRoot(instance, raw) == instance.rootId = raw.rootId

Matches(instance, raw) ==
    instance.rootId = raw.rootId /\ instance.variables = raw.variables

\* Mutant: the list is made anew for every operation.
KnownNone(key) == << >>

Known(key) == IF key \in DOMAIN operationMap THEN operationMap[key] ELSE << >>

\* Map.set
Put(map, key, value) ==
    [k \in DOMAIN map \cup {key} |-> IF k = key THEN value ELSE map[k]]

Answer(raw, key, i) == answers' = answers \cup {[raw |-> raw, key |-> key, instance |-> i]}

Init ==
    /\ document \in Documents
    /\ queryInfoMap = << >>
    /\ operationMap = << >>
    /\ answers = {}

\* The operation has been asked for before.
Recall(raw) ==
    LET key == OperationCacheKey(raw)
    IN  /\ \E i \in DOMAIN Known(key) :
             /\ Matches(Known(key)[i], raw)
             /\ \A j \in 1..(i - 1) : ~Matches(Known(key)[j], raw)
             /\ Answer(raw, key, i)
        /\ UNCHANGED <<document, queryInfoMap, operationMap>>

\* It has not: the document is parsed, unless it was, and values are put in
\* for its variables.  Either may throw; what was done until then is kept.
Instantiate(raw) ==
    LET key    == OperationCacheKey(raw)
        info   == IF key \in DOMAIN queryInfoMap THEN queryInfoMap[key]
                  ELSE Info(document, raw.fragmentName)
        parsed == Parsed(info, raw.variables)
        new    == [rootId |-> raw.rootId, variables |-> raw.variables, operation |-> parsed]
    IN  /\ \A i \in DOMAIN Known(key) : ~Matches(Known(key)[i], raw)
        /\ \/ /\ info = Failed
              /\ operationMap' = Put(operationMap, key, Known(key))
              /\ Answer(raw, key, Failed)
              /\ UNCHANGED queryInfoMap
           \/ /\ info # Failed
              /\ queryInfoMap' = Put(queryInfoMap, key, info)
              /\ \/ /\ parsed = Failed
                    /\ operationMap' = Put(operationMap, key, Known(key))
                    /\ Answer(raw, key, Failed)
                 \/ /\ parsed # Failed
                    /\ operationMap' = Put(operationMap, key, Append(Known(key), new))
                    /\ Answer(raw, key, Len(Known(key)) + 1)
        /\ UNCHANGED document

MayAsk(raw) == Cardinality({raw} \cup {a.raw : a \in answers}) <= MaxAsked

Next == \E raw \in RawOperation : MayAsk(raw) /\ (Recall(raw) \/ Instantiate(raw))

Spec == Init /\ [][Next]_vars

-----------------------------------------------------------------------------
(* Properties.                                                             *)

Given == {a \in answers : a.instance # Failed}

InstanceOf(a) == operationMap[a.key][a.instance]

\* What parsing anew gives, or Failed.
Fresh(name, variables) ==
    IF Info(document, name) = Failed THEN Failed ELSE Parsed(Info(document, name), variables)

\* Two calls get the same operation exactly if they ask for the same one: it
\* can serve as an identity, as parseOperation says.
SameOperationSameIdentity ==
    \A a, b \in Given : a.raw = b.raw <=> <<a.key, a.instance>> = <<b.key, b.instance>>

\* The memos are not noticed: a call gives what parsing the document anew
\* would, and throws where that would, whatever was asked for before and
\* however far a call that threw had come (parseOperation, _queryInfo).
AnswersAreFresh ==
    \A a \in answers :
        LET fresh == Fresh(a.raw.fragmentName, a.raw.variables)
        IN  IF fresh = Failed THEN a.instance = Failed
            ELSE a.instance # Failed /\ InstanceOf(a).operation = fresh

\* What makes the two inductive: an entry is what its key says, and no two
\* instances under a key are of the same operation.
KeysOfDocument(map) == \A key \in DOMAIN map : key = <<document, key[2]>>

InfosAreFresh ==
    \A key \in DOMAIN queryInfoMap :
        queryInfoMap[key] = Info(document, key[2]) /\ queryInfoMap[key] # Failed

InstancesAreFresh ==
    \A key \in DOMAIN operationMap :
        /\ operationMap[key] \in Seq([rootId : RootId, variables : VariableValues,
                                      operation : {Fresh(key[2], v) : v \in VariableValues}])
        /\ \A i \in DOMAIN operationMap[key] :
             LET new == operationMap[key][i]
             IN  /\ new.operation = Fresh(key[2], new.variables)
                 /\ new.operation # Failed
                 /\ \A j \in DOMAIN operationMap[key] : Matches(operationMap[key][j], new) => i = j

AnswersAreKept ==
    \A a \in answers :
        /\ a.raw \in RawOperation
        /\ a.key = OperationCacheKey(a.raw)
        /\ IF a.instance = Failed THEN Fresh(a.raw.fragmentName, a.raw.variables) = Failed
           ELSE /\ a.key \in DOMAIN operationMap
                /\ a.instance \in DOMAIN operationMap[a.key]
                /\ Matches(InstanceOf(a), a.raw)

MemoInv ==
    /\ KeysOfDocument(queryInfoMap) /\ KeysOfDocument(operationMap)
    /\ InfosAreFresh /\ InstancesAreFresh /\ AnswersAreKept
=============================================================================
