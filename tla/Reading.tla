------------------------------- MODULE Reading -------------------------------
(***************************************************************************)
(* Reading a query from a graph (operations/read.ts): the data of the root *)
(* as it is if the query is static, and otherwise copies of the objects    *)
(* on the way to parameterized fields and aliases, with those put over the *)
(* copies (the overlay).                                                   *)
(*                                                                         *)
(* A query is a function from response names to fields.  No response name  *)
(* of a query here is the schema name of another of its fields: the code   *)
(* would then read what it has written itself, see README section 4.  A    *)
(* parameterized field has one set of arguments.                           *)
(***************************************************************************)
EXTENDS Serialization, TLC

CONSTANTS
    Queries,        \* operations: the root they start at, and their fields
    Redirects,      \* resolverRedirects: entities that stand for Params
    Undefined       \* the value of a property that was set to undefined

\* The `children' of a leaf.
NoFields == << >>

Field(name, parameterized, children) ==
    [name |-> name, parameterized |-> parameterized, children |-> children]

\* ParsedQuery has what makes children dynamic.
RECURSIVE Dynamic(_)
Dynamic(query) ==
    \E key \in DOMAIN query :
        \/ query[key].parameterized
        \/ query[key].name # key
        \/ Dynamic(query[key].children)

-----------------------------------------------------------------------------
(* Where the value of a field is.                                          *)

At(node, path) == [node |-> node, path |-> path]

\* The value of a location, as far as it matters which: the data of an entity
\* is an object, that of a parameterized value may be anything.
ValueOf(g, loc) ==
    IF g[loc.node] = Absent THEN Missing
    ELSE IF loc.path = <<>> /\ loc.node \notin Param THEN Here
    ELSE IF loc.path \in Path THEN g[loc.node].at[loc.path]
    ELSE Missing

\* The scalar of a node is its field `leaf', or all of a parameterized value.
LeafOfNode(g, loc) ==
    IF g[loc.node] # Absent /\ loc.path \in {<<>>, <<"leaf">>} THEN g[loc.node].leaf
                                                              ELSE Missing

\* The nodes that have, or stand for, the value of a parameterized field.
ParameterizedNode(g, loc, name) ==
    LET fields == {n \in Param : Owner(n) = [id |-> loc.node, path |-> Append(loc.path, name)]}
        cached == {n \in fields : g[n] # Absent}
    IN  IF cached # {} THEN cached
        ELSE {Redirects[n] : n \in fields \cap DOMAIN Redirects} \cap Present(g)

\* Mutant: the value of an alias is looked for under the alias.
StaticFieldKey(loc, key, field, overlaid) == At(loc.node, Append(loc.path, key))

\* The overlay knows the schema names; what is not overlaid has them as keys.
StaticField(loc, key, field, overlaid) ==
    At(loc.node, Append(loc.path, IF overlaid THEN field.name ELSE key))

\* Where the field is, and whether the overlay got to it.  It leaves a
\* parameterized field that is not cached as it finds it.
Step(g, loc, key, field, overlaid) ==
    LET nodes == ParameterizedNode(g, loc, field.name)
    IN  IF ~overlaid \/ ~field.parameterized
        THEN [loc |-> StaticField(loc, key, field, overlaid), reached |-> overlaid, dynamic |-> {}]
        ELSE IF nodes = {}
        THEN [loc |-> At(loc.node, Append(loc.path, key)), reached |-> FALSE, dynamic |-> {}]
        ELSE [loc |-> At(CHOOSE n \in nodes : TRUE, <<>>), reached |-> TRUE, dynamic |-> nodes]

-----------------------------------------------------------------------------
(* Results.                                                                *)

IsList(loc) == \E q \in Element : q = Append(loc.path, 1)

Elements(g, loc) == {q \in Element : Front(q) = loc.path /\ ValueOf(g, At(loc.node, q)) # Missing}

\* The value at a location as far as the query selects it: null, undefined, a
\* list or an object.  An object has the ids it adds to entityIds and to
\* dynamicNodeIds.  The overlay makes an object where there is none.
RECURSIVE Value(_, _, _, _)
Value(g, loc, query, overlaid) ==
    LET value   == ValueOf(g, loc)
        step(k) == Step(g, loc, k, query[k], overlaid)
        leaf(k) == IF LeafOfNode(g, step(k).loc) = Missing /\ step(k).reached THEN Undefined
                   ELSE LeafOfNode(g, step(k).loc)
        field(k) == IF query[k].children = NoFields THEN leaf(k)
                    ELSE Value(g, step(k).loc, query[k].children,
                               step(k).reached /\ Dynamic(query[k].children))
    IN  CASE value = Null \/ (value = Missing /\ ~overlaid) -> value
          [] value \in Pointer -> Value(g, At(value.to, <<>>), query, overlaid)
          [] value = Here /\ IsList(loc) ->
               [list |-> [i \in 1..Cardinality(Elements(g, loc)) |->
                            Value(g, At(loc.node, Append(loc.path, i)), query, overlaid)]]
          [] OTHER ->
               [ids     |-> {n \in Entity : loc = At(n, <<>>)},
                dynamic |-> UNION {step(k).dynamic : k \in DOMAIN query},
                fields  |-> [k \in DOMAIN query |-> field(k)]]

\* The result of read.
Result(g, q) ==
    IF g[q.root] = Absent THEN Missing
    ELSE Value(g, At(q.root, <<>>), q.fields, Dynamic(q.fields))

\* The objects of a result.
RECURSIVE Objects(_, _)
Objects(value, query) ==
    IF value \in {Null, Missing} THEN {}
    ELSE IF "list" \in DOMAIN value
    THEN UNION {Objects(value.list[i], query) : i \in DOMAIN value.list}
    ELSE {value} \cup UNION {Objects(value.fields[k], query[k].children) :
                              k \in {j \in DOMAIN query : query[j].children # NoFields}}

\* Mutant: the nodes that are laid over are not among them.
EntityIds(g, q) == {q.root} \cup UNION {o.ids : o \in Objects(Result(g, q), q.fields)}

\* entityIds and dynamicNodeIds of a complete result.
NodeIds(g, q) == {q.root} \cup UNION {o.ids \cup o.dynamic : o \in Objects(Result(g, q), q.fields)}

\* _visitSelection: every object has a property for every field, be it one
\* that was set to undefined.
RECURSIVE VisitSelection(_, _)
VisitSelection(value, query) ==
    CASE value \in {Null, Missing} -> value = Null
      [] "list" \in DOMAIN value ->
           \A i \in DOMAIN value.list : VisitSelection(value.list[i], query)
      [] OTHER ->
           \A k \in DOMAIN query :
               IF query[k].children = NoFields THEN value.fields[k] # Missing
               ELSE VisitSelection(value.fields[k], query[k].children)

Complete(g, q) == VisitSelection(Result(g, q), q.fields)

-----------------------------------------------------------------------------
(* Properties.                                                             *)

\* A complete result none of whose entities and overlaid nodes a commit has
\* edited is what a read of the new graph gives: observers that are not
\* told, and cached reads that are carried over, are current.  Broadcast
\* takes this for granted of reads (QueryObserver._hasUpdate,
\* _copyUnaffectedCachedReads).
EditsCoverDynamicReads ==
    [][\A e \in editor : Commit =>
         \A q \in Queries :
           Complete(graph, q) /\ NodeIds(graph, q) \cap e.edited = {}
             => Result(graph', q) = Result(graph, q)]_vars

\* Every field that the query selects has a value in the graph, written for
\* the same arguments if it has any.
RECURSIVE Cached(_, _, _)
Cached(g, loc, query) ==
    LET value == ValueOf(g, loc)
        at(k) == IF query[k].parameterized THEN ParameterizedNode(g, loc, query[k].name)
                                           ELSE {loc.node}
        to(k, n) == IF query[k].parameterized THEN At(n, <<>>)
                    ELSE At(n, Append(loc.path, query[k].name))
    IN  CASE value = Null -> TRUE
          [] value \in Pointer -> Cached(g, At(value.to, <<>>), query)
          [] value = Here /\ IsList(loc) ->
               \A x \in Elements(g, loc) : Cached(g, At(loc.node, x), query)
          [] OTHER -> \A k \in DOMAIN query : \E n \in at(k) :
                        IF query[k].children = NoFields THEN LeafOfNode(g, to(k, n)) # Missing
                        ELSE Cached(g, to(k, n), query[k].children)

\* A result is complete only if the cache has all that the query selects
\* (docs/Architecture.md, Reading From The Cache).
CompleteIsCached ==
    \A q \in Queries : Complete(graph, q) => Cached(graph, At(q.root, <<>>), q.fields)
=============================================================================
