---------------------------- MODULE EntityGraph ----------------------------
(***************************************************************************)
(* What merging a payload does to a graph of entities, as one step: the    *)
(* outcome of SnapshotEditor.mergePayload and commit for one payload,      *)
(* without the bookkeeping the editor needs to get there.                  *)
(*                                                                         *)
(* Every node has one scalar field, `leaf', and one field with a sub       *)
(* selection, `ref', which holds a reference to an entity, an object       *)
(* without an id, or null.  A payload says, for the root and for each      *)
(* entity it contains, which of the two fields it writes.                  *)
(***************************************************************************)
EXTENDS Integers, FiniteSets

CONSTANTS
    Root,       \* the id of the query root
    Entity,     \* ids of entities
    Scalar,     \* values of leaf fields
    Null,       \* null
    Value,      \* an object that has no id
    Missing,    \* a field that was never written
    Absent,     \* a node that is not in the graph
    Skip        \* a field that a payload does not select

ASSUME DistinctAssumption ==
    /\ Root \notin Entity
    /\ Missing \notin Scalar \cup Entity \cup {Null, Value}
    /\ Skip \notin Scalar \cup Entity \cup {Null, Value, Missing}

NodeId   == {Root} \cup Entity
NodeData == [leaf : Scalar \cup {Missing}, ref : Entity \cup {Null, Value, Missing}]
AnyGraph == [NodeId -> NodeData \cup {Absent}]

\* A payload that refers to an entity contains it.
Selected   == [leaf : Scalar \cup {Skip}, ref : Entity \cup {Null, Value, Skip}]
AnyPayload ==
    UNION {{p \in [D -> Selected] : \A n \in D : p[n].ref \in Entity => p[n].ref \in D} :
             D \in SUBSET NodeId}

ASSUME AbsentAssumption == Absent \notin NodeData

NoNodes == [n \in NodeId |-> Absent]

Present(g) == {n \in NodeId : g[n] # Absent}

\* The data of a node, where a node that is not in the graph has no fields.
Data(g, n) == IF g[n] = Absent THEN [leaf |-> Missing, ref |-> Missing] ELSE g[n]

\* The fields that payload p selects, over the ones the graph has.
Written(old, new) == IF new = Skip THEN old ELSE new

Overlay(g, p) ==
    [n \in NodeId |->
        IF n \in DOMAIN p
        THEN [leaf |-> Written(Data(g, n).leaf, p[n].leaf),
              ref  |-> Written(Data(g, n).ref, p[n].ref)]
        ELSE g[n]]

\* An entity may not become an object without id, nor the other way round.
Clashes(g, p) ==
    \E n \in DOMAIN p :
        \/ Data(g, n).ref \in Entity /\ p[n].ref = Value
        \/ Data(g, n).ref = Value /\ p[n].ref \in Entity

\* The graphs in which no node refers to an entity that is not there.
SoundGraph ==
    {g \in AnyGraph : \A n \in Present(g) : g[n].ref \in Entity => g[n].ref \in Present(g)}

\* The nodes that refer to n.
Referrers(g, n) == {m \in Present(g) : g[m].ref = n}

\* The entities that a payload takes a reference away from.
Unlinked(g, p) ==
    {e \in Entity : \E n \in DOMAIN p : Data(g, n).ref = e /\ p[n].ref \notin {e, Skip}}

\* Garbage collection: the unlinked entities nothing refers to, and then
\* whatever only collected nodes refer to.
Collected(g, p) ==
    LET new       == Overlay(g, p)
        referrers == [e \in Entity |-> Referrers(new, e)]
        orphans   == {e \in Unlinked(g, p) : referrers[e] = {}}
        closed    == {S \in SUBSET Entity :
                        /\ orphans \subseteq S
                        /\ \A e \in Entity : referrers[e] \in (SUBSET S) \ {{}} => e \in S}
    IN  {e \in Entity : \A S \in closed : e \in S}

Merged(g, p) ==
    LET new       == Overlay(g, p)
        collected == Collected(g, p)
    IN  [n \in NodeId |-> IF n \in collected THEN Absent ELSE new[n]]

\* The ids of the nodes that got new values or were collected.
EditedIds(g, p) ==
    LET new == Overlay(g, p)
    IN  {n \in NodeId : new[n] # g[n]} \cup Collected(g, p)

-----------------------------------------------------------------------------
(* The one query, { leaf ref { leaf } } from the root: the result, the ids *)
(* of the nodes it is made of, and whether it has every selected field.    *)

Queries == {"fromRoot"}

ReadResult(q, g) ==
    LET ids == {n \in NodeId : Root \in Present(g) /\ (n = Root \/ g[Root].ref = n)}
    IN  [ref |-> Data(g, Root).ref, leaves |-> [n \in ids |-> Data(g, n).leaf]]

ReadIds(q, d) == DOMAIN d.leaves

ReadComplete(q, d) ==
    /\ Root \in DOMAIN d.leaves
    /\ d.ref # Missing
    /\ \A n \in DOMAIN d.leaves : d.leaves[n] # Missing

-----------------------------------------------------------------------------
(* A graph, cell by cell: what it has for a field of a node, and what a    *)
(* payload writes there.                                                   *)

Fields == {"leaf", "ref"}

CellOf(g, n, f) == Data(g, n)[f]

SetsOf(p, n, f) == IF n \in DOMAIN p /\ p[n][f] # Skip THEN p[n][f] ELSE Missing

PayloadNodes(p) == DOMAIN p
=============================================================================
