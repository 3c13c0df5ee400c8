---------------------------- MODULE MC_Broadcast ----------------------------
(***************************************************************************)
(* Instances of Broadcast: a root that may refer to an entity, a query of  *)
(* the root that follows the reference, and a query of the entity alone.   *)
(***************************************************************************)
EXTENDS Broadcast, TLC

CONSTANTS root, entity, tree, leaf, None

\* The value of each node; 0 is one that was never written, and a root of
\* value 2 refers to the entity.
Graphs ==
    LET g(r, e) == root :> r @@ entity :> e IN {g(0, 0), g(1, 1), g(2, 1), g(2, 2)}
Nothing == [n \in {root, entity} |-> 0]

\* Only graphs in which the root is empty or refers to the entity.
Linked == {g \in Graphs : g[root] # 1}

NodesRead(q, g) ==
    IF q = leaf THEN {entity} ELSE IF g[root] = 2 THEN {root, entity} ELSE {root}

Reading(q, g)     == [n \in NodesRead(q, g) |-> g[n]]
Satisfied(q, d)   == \A n \in DOMAIN d : d[n] # 0
Readings          == {Reading(q, g) : q \in Query, g \in Graph}
NodesIn(q, d)     == DOMAIN d

\* Callbacks that do anything that is safe: onChange writes, unwatches and
\* throws, and any callback watches a new query.
Careful == (Caller \X Operation) \ Careless

\* Nested calls, in fewer kinds: onChange writes, and an observer's callback
\* watches a query in the middle of the loop.
Nested == {<<"onChange", "write">>, <<"observer", "watch">>}

\* One that is not.
ObserverWrites == {<<"observer", "write">>}

Sym == Permutations(SnapId) \cup Permutations(ObserverId)
=============================================================================
