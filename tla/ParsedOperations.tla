-------------------------- MODULE ParsedOperations --------------------------
(***************************************************************************)
(* What CacheContext.parseOperation makes of documents: the QueryInfo of   *)
(* one, and the operations that it gives, for the memos of OperationMemo.  *)
(*                                                                         *)
(* A document with an operation is asked for as a query; one that consists *)
(* of fragments, by the name of a fragment.  A document has an operation,  *)
(* or Undefined, and fragments.                                            *)
(***************************************************************************)
EXTENDS OperationMemo, ParsedQuery

\* The name may be left out if there is one fragment.
FragmentNames(doc) ==
    LET names == DOMAIN doc.fragments
    IN  IF doc.operation # Undefined THEN {Undefined}
        ELSE names \cup {n \in {Undefined} : Cardinality(names) = 1}

Spread(name, directives) ==
    [kind |-> "FragmentSpread", name |-> name, directives |-> directives]

\* The query around a fragment that the Apollo client makes.
FragmentQuery(name) ==
    [selections |-> <<Spread(name, {})>>, declared |-> NoFields]

OperationOf(doc, fragmentName) ==
    IF doc.operation # Undefined THEN doc.operation
    ELSE FragmentQuery(CHOOSE n \in DOMAIN doc.fragments : fragmentName \in {n, Undefined})

\* Queries must use the variables they declare, and no others.
AssertValid(doc, operation) ==
    doc.operation # Undefined =>
        Variables(doc.fragments, operation.selections) = DOMAIN operation.declared

QueryInfo(doc, fragmentName) ==
    LET operation == OperationOf(doc, fragmentName)
        parsed    == ParseQuery(doc.fragments, operation.selections)
    IN  IF parsed = Thrown \/ ~AssertValid(doc, operation) THEN Thrown
        ELSE [parsed |-> parsed, variableDefaults |-> VariableDefaults(operation.declared)]

Values(variables) == IF variables = Undefined THEN NoFields ELSE variables

FullVariables(info, variables) == Values(variables) @@ info.variableDefaults

OperationInstance(info, variables) ==
    LET parsed == ExpandVariables(info.parsed, FullVariables(info, variables))
    IN  IF parsed = Thrown THEN Thrown
        ELSE [parsedQuery |-> parsed, isStatic |-> ~AreChildrenDynamic(info.parsed)]

-----------------------------------------------------------------------------
(* What parsing is to give, by the selections that are reached and where,  *)
(* without merging anything.                                               *)

RECURSIVE Reached(_, _)
Reached(path, selections) ==
    UNION {LET s == selections[i]
           IN  {<<path, s>>} \cup
               CASE s.kind = "Field" -> Reached(Append(path, FieldName(s)), s.selections)
                 [] s.kind = "InlineFragment" -> Reached(path, s.selections)
                 [] s.kind = "FragmentSpread" ->
                      IF s.name \in DOMAIN document.fragments
                      THEN Reached(path, document.fragments[s.name]) ELSE {}
           : i \in 1..Len(selections)}

\* The fields, by the path of response names that leads to each.
Fields(reached) ==
    {[path |-> Append(r[1], FieldName(r[2])), schemaName |-> SchemaName(r[2]),
      args |-> FieldArgs(r[2])] : r \in {q \in reached : q[2].kind = "Field"}}

Below(path, other) == Len(path) < Len(other) /\ SubSeq(other, 1, Len(path)) = path

UsedVariables(reached) ==
    UNION {r[2].directives : r \in reached}
        \cup ({f.args : f \in Fields(reached)} \cap Variable)

\* Why an operation is refused.
Refused(raw) ==
    LET operation == OperationOf(document, raw.fragmentName)
        reached   == Reached(<<>>, operation.selections)
        fields    == Fields(reached)
        values    == DOMAIN Values(raw.variables) \cup DOMAIN VariableDefaults(operation.declared)
    IN  \/ fields = {}
        \/ \E r \in reached : /\ r[2].kind = "FragmentSpread"
                              /\ r[2].name \notin DOMAIN document.fragments
        \/ \E f, h \in fields : f.path = h.path /\ f # h
        \/ document.operation # Undefined /\ UsedVariables(reached) # DOMAIN operation.declared
        \/ ~({f.args : f \in fields} \cap Variable \subseteq values)

\* The nodes an operation that is not refused has.
Expected(raw) ==
    LET operation == OperationOf(document, raw.fragmentName)
        fields    == Fields(Reached(<<>>, operation.selections))
        values    == Values(raw.variables) @@ VariableDefaults(operation.declared)
    IN  {[path |-> f.path, schemaName |-> f.schemaName,
          args |-> IF f.args \in Variable THEN values[f.args] ELSE f.args,
          hasParameterizedChildren |->
            \E h \in fields : Below(f.path, h.path)
                              /\ (h.args # Undefined \/ h.schemaName # Undefined)] : f \in fields}

RECURSIVE Nodes(_, _)
Nodes(path, map) ==
    UNION {{[path |-> Append(path, name), schemaName |-> map[name].schemaName,
             args |-> map[name].args,
             hasParameterizedChildren |-> map[name].hasParameterizedChildren]}
           \cup Nodes(Append(path, name), map[name].children) : name \in DOMAIN map}

-----------------------------------------------------------------------------
(* Properties.                                                             *)

\* A caller gets an operation that has exactly the fields its document
\* selects, directly or through fragments in whatever order and depth, with
\* values for the variables, marked as parameterized exactly where something
\* below is; and it is refused exactly where two selections of a field
\* disagree, a fragment or a value is missing, or the variables that are
\* declared are not those in use.  This holds whatever was asked before and
\* whether or not that was refused (parseOperation, _buildNodeMap,
\* _mergeNodes, expandVariables, QueryInfo._assertValid).
ParsedAsSelected ==
    \A a \in answers :
        IF Refused(a.raw) THEN a.instance = Thrown
        ELSE /\ a.instance # Thrown
             /\ Nodes(<<>>, InstanceOf(a).operation.parsedQuery) = Expected(a.raw)

\* An operation is read without an overlay exactly if selectionSetIsStatic
\* tells the application that it is.
StaticAgrees ==
    \A a \in Given :
        InstanceOf(a).operation.isStatic
            <=> SelectionSetIsStatic(document.fragments, OperationOf(document, a.raw.fragmentName).selections)
=============================================================================
