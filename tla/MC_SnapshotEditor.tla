-------------------------- MODULE MC_SnapshotEditor --------------------------
(***************************************************************************)
(* Instances of SnapshotEditor and Serialization: a root and two entities. *)
(***************************************************************************)
EXTENDS Serialization, EditorInvariants, TLC

CONSTANTS root, e1, e2, field, Skip, Value

ref   == <<"ref">>
list  == <<"list">>
first == <<"list", 1>>
param == <<"field">>

RefPaths  == {<<>>, ref}
ListPaths == {<<>>, ref, list, first, <<"list", 2>>, param}
NoElements == {}
Elements   == {first, <<"list", 2>>}

\* field: the value of a field of the root with arguments.
FieldOwner(n) == [id |-> root, path |-> param]

\* An entity that a payload selects with a leaf.
To(n, q, e, v) == <<RefTo(n, q, e), LeafOf(e, v)>>

\* { list: [...] }, of entities with a leaf, of null, or empty.
Lists ==
    {<<ListOf(root, list, 0)>>, <<ListOf(root, list, 1)>> \o To(root, first, e1, 1)}
      \cup {<<ListOf(root, list, 2)>> \o To(root, first, a, 1) \o To(root, <<"list", 2>>, e1, 1) :
              a \in {e1, e2}}
      \cup {<<ListOf(root, list, 2), RefTo(root, first, Null)>> \o To(root, <<"list", 2>>, e1, 2)}

\* { field(arg) { leaf ref { leaf } } }, { ref { leaf ref { leaf } } }, and null
\* in place of an entity.
Fields == {<<FieldOf(field)>> \o To(field, <<>>, e1, 2) \o To(e1, ref, e2, 1),
           <<FieldOf(field)>> \o To(field, <<>>, e2, 1),
           <<FieldOf(field), RefTo(field, <<>>, Null)>>}
Refs   == {To(root, ref, e1, 1) \o To(e1, ref, e2, 2),
           <<RefTo(root, ref, Null)>>, To(root, ref, e1, 2) \o <<RefTo(e1, ref, Null)>>}

\* Fragments on e1, with the id and without, and on the value of the field.
Fragments == {<<FragmentOf(e1, TRUE), LeafOf(e1, 1)>>,
              <<FragmentOf(e1, TRUE), LeafOf(e1, 2)>> \o To(e1, ref, e2, 1),
              <<FragmentOf(e1, FALSE)>> \o To(e1, ref, e2, 2),
              To(field, <<>>, e1, 1)}

CorePayloads == Lists \cup Fields \cup Refs \cup Fragments

-----------------------------------------------------------------------------
(* The meaning of a payload in EntityGraph, for payloads of single         *)
(* references.                                                             *)

Abs == INSTANCE EntityGraph WITH Root <- root

p(leaf, target) == [leaf |-> leaf, ref |-> target]

\* The entities of the payload are those a reference in it leads to, and each
\* has a leaf.
AbstractPayloads ==
    {root :> p(v, t) : v \in {Skip, 1}, t \in {Skip, Null}}
      \cup {(root :> p(Skip, a)) @@ (a :> p(v, t)) : a \in Entity, v \in Scalar, t \in {Skip, Null}}
      \cup {(root :> p(Skip, a)) @@ (a :> p(1, b)) @@ (b :> p(1, t)) :
              a \in Entity, b \in Entity, t \in {Skip, Null, e1}}

\* What the walk of such a payload comes upon: the root, the entity that it
\* leads to, and the other one.
WalkOf(q) ==
    LET at(n) == IF n \notin DOMAIN q THEN <<>>
                 ELSE (IF q[n].leaf = Skip THEN <<>> ELSE <<LeafOf(n, q[n].leaf)>>)
                      \o (IF q[n].ref = Skip THEN <<>> ELSE <<RefTo(n, ref, q[n].ref)>>)
    IN  at(root) \o IF q[root].ref = e2 THEN at(e2) \o at(e1) ELSE at(e1) \o at(e2)

WalkPayloads == {WalkOf(q) : q \in AbstractPayloads} \ {<<>>}

Meaning(s) == CHOOSE q \in AbstractPayloads : WalkOf(q) = s

AbsGraph(g) ==
    [n \in Node |-> IF g[n] = Absent THEN Absent
                    ELSE [leaf |-> g[n].leaf, ref |-> Values(g[n])[2][ref]]]

\* The abstract graphs that the payloads in s go through.
Graphs(s) ==
    FoldLeft(LAMBDA gs, q : Append(gs, Abs!Merged(gs[Len(gs)], Meaning(q))),
             <<AbsGraph(graph)>>, s)

\* A commit leaves the graph that EntityGraph says, and edited node ids that
\* EntityGraph says, for one payload or several in the same editor.
MergesLikeEntityGraph ==
    [][\A e \in editor : Commit =>
         LET gs == Graphs(e.merged)
         IN  /\ AbsGraph(graph') = gs[Len(gs)]
             /\ e.edited = UNION {Abs!EditedIds(gs[i], Meaning(e.merged[i])) : i \in 1..Len(e.merged)}]_vars

\* An editor fails if and only if a payload writes to an entity that an
\* earlier payload in the same editor made an orphan of.
FailsOnCollected ==
    [][\A e \in editor, q \in Payload : MergePayload(q) =>
         LET gs == Graphs(e.merged)
         IN  (editor' = {}) <=>
               \E i \in 1..Len(e.merged) :
                  Abs!Collected(gs[i], Meaning(e.merged[i])) \cap DOMAIN Meaning(q) # {}]_vars
=============================================================================
