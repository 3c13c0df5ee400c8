----------------------------- MODULE ParsedQuery -----------------------------
(***************************************************************************)
(* Parsing a GraphQL selection set into a tree of ParsedQueryNodes         *)
(* (ParsedQueryNode.ts), and the questions asked of a document (ast.ts).   *)
(*                                                                         *)
(* A document is flattened: its fragments are put in place, and fields     *)
(* with one response name are merged or found to be in conflict.  The      *)
(* arguments of a field are one value, which is a constant or a variable.  *)
(* An operator gives Thrown where the code throws.                         *)
(***************************************************************************)
EXTENDS Integers, Sequences, TLC

CONSTANTS
    Variable,    \* names of variables
    Undefined,   \* what is not there: an alias, arguments, a default
    Null,        \* null
    Thrown       \* an exception

\* A map without fields: `undefined' for the children of a leaf.
NoFields == << >>

FieldName(s)   == IF s.alias = Undefined THEN s.name ELSE s.alias
SchemaName(s)  == IF s.static \/ s.alias = Undefined THEN Undefined ELSE s.name
FieldArgs(s)   == IF s.static THEN Undefined ELSE s.args

IsDynamic(node) ==
    node.hasParameterizedChildren \/ node.args # Undefined \/ node.schemaName # Undefined

\* Mutant: aliases are not dynamic.
ChildrenParameterized(children) ==
    \E name \in DOMAIN children :
        children[name].hasParameterizedChildren \/ children[name].args # Undefined

AreChildrenDynamic(children) == \E name \in DOMAIN children : IsDynamic(children[name])

-----------------------------------------------------------------------------
(* Merging and building node maps.                                         *)

RECURSIVE MergeMaps(_, _)

\* Mutant: the merged node is as dynamic as the one it is merged into.
MergeChildren(target, source) ==
    LET children == MergeMaps(target.children, source.children)
    IN  IF \/ target.args # source.args
           \/ target.schemaName # source.schemaName
           \/ children = Thrown
        THEN Thrown
        ELSE [target EXCEPT !.children = children]

MergeNodes(target, source) ==
    LET children == MergeMaps(target.children, source.children)
    IN  IF \/ target.args # source.args
           \/ target.schemaName # source.schemaName
           \/ children = Thrown
        THEN Thrown
        ELSE [target EXCEPT
                !.children = children,
                !.hasParameterizedChildren = @ \/ source.hasParameterizedChildren]

MergeMaps(target, source) ==
    LET merged == [name \in DOMAIN target \cup DOMAIN source |->
                     IF name \notin DOMAIN source THEN target[name]
                     ELSE IF name \notin DOMAIN target THEN source[name]
                     ELSE MergeNodes(target[name], source[name])]
    IN  IF \E name \in DOMAIN merged : merged[name] = Thrown THEN Thrown ELSE merged

RECURSIVE BuildNodeMap(_, _)

\* The nodes that one selection stands for.
SelectionMap(fragments, s) ==
    CASE s.kind = "Field" ->
           LET children == BuildNodeMap(fragments, s.selections)
           IN  IF children = Thrown THEN Thrown
               ELSE FieldName(s) :>
                      [children |-> children, schemaName |-> SchemaName(s),
                       args |-> FieldArgs(s),
                       hasParameterizedChildren |-> AreChildrenDynamic(children)]
      [] s.kind = "FragmentSpread" ->
           IF s.name \in DOMAIN fragments THEN BuildNodeMap(fragments, fragments[s.name])
                                          ELSE Thrown
      [] s.kind = "InlineFragment" -> BuildNodeMap(fragments, s.selections)

BuildNodeMap(fragments, selections) ==
    LET map[i \in 0..Len(selections)] ==
            IF i = 0 THEN NoFields
            ELSE LET selected == SelectionMap(fragments, selections[i])
                 IN  IF selected = Thrown \/ map[i - 1] = Thrown THEN Thrown
                     ELSE MergeMaps(selected, map[i - 1])
    IN  map[Len(selections)]

\* The variables that the parser meets on its way.
RECURSIVE Variables(_, _)
Variables(fragments, selections) ==
    UNION {LET s == selections[i]
           IN  s.directives \cup
               CASE s.kind = "Field" -> ({FieldArgs(s)} \cap Variable)
                                          \cup Variables(fragments, s.selections)
                 [] s.kind = "FragmentSpread" -> Variables(fragments, fragments[s.name])
                 [] s.kind = "InlineFragment" -> Variables(fragments, s.selections)
           : i \in 1..Len(selections)}

ParseQuery(fragments, selections) ==
    LET parsed == BuildNodeMap(fragments, selections)
    IN  IF parsed = NoFields THEN Thrown ELSE parsed

-----------------------------------------------------------------------------
(* Values for the variables.                                               *)

ExpandArgument(arg, values) ==
    IF arg \notin Variable THEN arg
    ELSE IF arg \in DOMAIN values THEN values[arg]
    ELSE Thrown

\* A subtree without arguments and aliases is taken over as it is.
RECURSIVE ExpandVariables(_, _)
ExpandVariables(parsed, values) ==
    LET expanded == [name \in DOMAIN parsed |->
            LET node     == parsed[name]
                args     == ExpandArgument(node.args, values)
                children == ExpandVariables(node.children, values)
            IN  IF node.args = Undefined /\ ~node.hasParameterizedChildren THEN node
                ELSE IF args = Thrown \/ children = Thrown THEN Thrown
                ELSE [node EXCEPT !.args = args, !.children = children]]
    IN  IF \E name \in DOMAIN expanded : expanded[name] = Thrown THEN Thrown ELSE expanded

-----------------------------------------------------------------------------
(* Questions asked of a document.                                          *)

\* What a variable has when the caller gives no value; null without default.
VariableDefaults(declared) ==
    [v \in {w \in DOMAIN declared : ~declared[w].required} |->
        IF declared[v].default = Undefined THEN Null ELSE declared[v].default]

FieldIsStatic(s) == s.static \/ (s.alias = Undefined /\ s.args = Undefined)

RECURSIVE SelectionSetIsStatic(_, _)
SelectionSetIsStatic(fragments, selections) ==
    \A i \in 1..Len(selections) :
        LET s == selections[i]
        IN  CASE s.kind = "Field" ->
                   FieldIsStatic(s) /\ SelectionSetIsStatic(fragments, s.selections)
              [] s.kind = "FragmentSpread" ->
                   SelectionSetIsStatic(fragments, fragments[s.name])
              [] s.kind = "InlineFragment" ->
                   SelectionSetIsStatic(fragments, s.selections)
=============================================================================
