--------------------------- MODULE SnapshotEditor ---------------------------
(***************************************************************************)
(* The editor that makes a new GraphSnapshot out of one and the payloads   *)
(* merged into it (operations/SnapshotEditor.ts), with the bookkeeping it  *)
(* does: the references that nodes keep to each other                      *)
(* (util/references.ts), garbage collection, and the copies on write that  *)
(* leave the parent snapshot as it is (util/collection.ts).                *)
(*                                                                         *)
(* The data of a node is a tree of fields.  `at' says what is at each path *)
(* of it that can hold a reference, or a list or object with references in *)
(* it; one scalar, `leaf', stands for the other fields.  A reference is a  *)
(* pointer to the data object of the entity, so it can be out of date:     *)
(* `fresh' tells the object the editor made from the one its parent has.   *)
(*                                                                         *)
(* A payload is the sequence of what its walk comes upon, in order, see    *)
(* Instruction.  Values whose kind changes between entity, object and list *)
(* are rejected by the walk and not among the payloads; EntityGraph has    *)
(* that.  Nor is null for a list or object that has references in it,      *)
(* which leaves them behind (README section 4).  A payload is rooted at a  *)
(* root, or, as a fragment, at any entity or parameterized value.          *)
(***************************************************************************)
EXTENDS Integers, FiniteSets, SequencesExt

CONSTANTS
    Root,         \* ids of the root nodes
    Entity,       \* ids of entities
    Param,        \* ids of parameterized values
    Owner(_),     \* the node and the path of a parameterized field
    Path,         \* paths of references, and of lists and objects with some
    Scalar,       \* values of a leaf
    Missing,      \* undefined
    Null,         \* null, and no node id
    Here,         \* a list or an object
    Absent,       \* no node snapshot
    Payload,      \* sequences of instructions
    MaxMerges     \* bound: payloads that one editor merges

Node == Root \cup Entity \cup Param

Pointer   == [to : Entity, fresh : BOOLEAN]
Reference == [id : Node, path : Path]

\* What the walk of a payload comes upon at a node: a leaf; a field with a
\* sub selection and an entity or null in it; a field with a list in it; a
\* parameterized field.  A fragment on an entity comes upon that first;
\* `named' tells whether its payload has the id.
Instruction ==
    [op : {"leaf"}, node : Node, value : Scalar]
      \cup [op : {"ref"}, node : Node, path : Path, target : Entity \cup {Null}]
      \cup [op : {"list"}, node : Node, path : Path, length : Nat]
      \cup [op : {"param"}, node : Param]
      \cup [op : {"fragment"}, node : Entity, named : BOOLEAN]

LeafOf(n, v)      == [op |-> "leaf", node |-> n, value |-> v]
RefTo(n, q, t)    == [op |-> "ref", node |-> n, path |-> q, target |-> t]
ListOf(n, q, len) == [op |-> "list", node |-> n, path |-> q, length |-> len]
FieldOf(n)        == [op |-> "param", node |-> n]
FragmentOf(n, id) == [op |-> "fragment", node |-> n, named |-> id]

\* The node that an instruction writes to, and the root of a payload.
Written(i) == IF i.op = "param" THEN Owner(i.node).id ELSE i.node
RootOf(p)  == Written(p[1])

ASSUME PathAssumption ==
    /\ <<>> \in Path
    /\ IsFiniteSet(Path)
    /\ \A q \in Path : Len(q) \in Nat /\ q = [i \in 1..Len(q) |-> q[i]]

ASSUME NodeAssumption ==
    /\ IsFiniteSet(Node)
    /\ Root \cap Entity = {} /\ (Root \cup Entity) \cap Param = {}
    /\ Null \notin Node

ASSUME ValueAssumption ==
    /\ Missing # Null /\ Missing # Here /\ Null # Here
    /\ Pointer \cap {Missing, Null, Here} = {}
    /\ Missing \notin Scalar

ASSUME PayloadAssumption ==
    /\ Payload \subseteq Seq(Instruction)
    /\ \A n \in Param : Owner(n) \in Reference
    /\ MaxMerges \in Nat

NodeSnapshot ==
    [leaf     : Scalar \cup {Missing},
     at       : [Path -> Pointer \cup {Missing, Null, Here}],
     fresh    : BOOLEAN,
     inbound  : SUBSET Reference,
     outbound : SUBSET Reference]

ASSUME AbsentAssumption == Absent \notin NodeSnapshot

\* _newNodes over the nodes of the parent; `made' are the keys of _newNodes.
\* A node that was collected is in `made' and Absent.
Editor ==
    [nodes  : [Node -> NodeSnapshot \cup {Absent}],
     made   : SUBSET Node,
     edited : SUBSET Node,
     merged : Seq(Payload),      \* auxiliary: the payloads so far
     failed : BOOLEAN]           \* an error was thrown

VARIABLES
    graph,       \* the snapshot that edits are made to
    editor       \* the editor at work: a set of one, or none

vars == <<graph, editor>>

NoData      == [q \in Path |-> Missing]
NewSnapshot == [leaf |-> Missing, at |-> NoData, fresh |-> FALSE,
                inbound |-> {}, outbound |-> {}]

Present(g) == {n \in Node : g[n] # Absent}

\* Whether a node has data, which is an object with an id if it has a leaf.
HasData(s) == s.leaf # Missing \/ \E q \in Path : s.at[q] # Missing

\* The reference of an entity to all of itself.
Self(n) == [id |-> n, path |-> <<>>]

-----------------------------------------------------------------------------
(* Copies on write.                                                        *)

\* Mutant: the list or object on the way is always a new one.
DeepSetAnew(now, original, path, v) ==
    [q \in Path |->
        IF q = path THEN v
        ELSE IF \E g \in Path \ {<<>>} : IsStrictPrefix(g, path) /\ IsStrictPrefix(g, q) THEN Missing
        ELSE IF q # <<>> /\ IsStrictPrefix(q, path) THEN Here
        ELSE now[q]]

\* lazyImmutableDeepSet: v is put at `path'.  A list or object on the way
\* that is not there is copied from the original, if that has it.
DeepSet(now, original, path, v) ==
    LET lost(q) == \E g \in Path \ {<<>>} :
                     IsStrictPrefix(g, path) /\ IsStrictPrefix(g, q) /\ now[g] # Here
    IN  [q \in Path |->
            IF q = path THEN v
            ELSE IF IsStrictPrefix(path, q) THEN Missing
            ELSE IF q # <<>> /\ IsStrictPrefix(q, path) THEN Here
            ELSE IF lost(q) THEN original[q]
            ELSE now[q]]

\* The array at `path', cut or extended to a length, put in place of it.
Resized(now, original, path, length) ==
    LET kept(q) == IsStrictPrefix(path, q) /\ now[path] = Here /\ q[Len(path) + 1] <= length
        set     == DeepSet(now, original, path, Here)
    IN  [q \in Path |-> IF kept(q) THEN now[q] ELSE set[q]]

\* Mutant: a node that was collected is made anew.
EnsureNewSnapshotAnew(e, id) ==
    [e EXCEPT !.made = @ \cup {id}, !.nodes[id] = IF @ = Absent THEN NewSnapshot ELSE @]

\* _ensureNewSnapshot.  What it returns is used at once, and is undefined for
\* a node that was collected.
EnsureNewSnapshot(e, id) ==
    IF e.failed \/ (id \in e.made /\ e.nodes[id] = Absent)
    THEN [e EXCEPT !.failed = TRUE]
    ELSE [e EXCEPT !.made = @ \cup {id}, !.nodes[id] = IF @ = Absent THEN NewSnapshot ELSE @]

\* The data a node has in the editor, and in the parent snapshot.
NodeData(e, id) == IF e.nodes[id] = Absent THEN NoData ELSE e.nodes[id].at
Original(id)    == IF graph[id] = Absent THEN NoData ELSE graph[id].at

\* The value a node has at a path, undefined for a node that is not there.
ValueAt(e, id, path) == NodeData(e, id)[path]

\* The new version of a node gets the data `at'.
SetData(e, id, at) ==
    LET new == EnsureNewSnapshot(e, id)
    IN  IF new.failed THEN new
        ELSE [new EXCEPT !.nodes[id].at = at, !.nodes[id].fresh = TRUE]

\* _setValue, as an edit and for a reference that is only rebuilt.
Edit(e, id, at) == SetData([e EXCEPT !.edited = @ \cup {id}], id, at)

SetValue(e, id, path, v) == Edit(e, id, DeepSet(NodeData(e, id), Original(id), path, v))

RebuildValue(e, id, path, v) == SetData(e, id, DeepSet(NodeData(e, id), Original(id), path, v))

-----------------------------------------------------------------------------
(* References.                                                             *)

RemoveReference(e, direction, id, ref) ==
    LET new == EnsureNewSnapshot(e, id)
    IN  IF new.failed THEN new ELSE [new EXCEPT !.nodes[id][direction] = @ \ {ref}]

\* Mutant: the path of the reference is lost.
AddReferenceId(e, direction, id, ref) ==
    LET new == EnsureNewSnapshot(e, id)
    IN  IF new.failed THEN new ELSE [new EXCEPT !.nodes[id][direction] = @ \cup {ref.id}]

AddReference(e, direction, id, ref) ==
    LET new == EnsureNewSnapshot(e, id)
    IN  IF new.failed THEN new ELSE [new EXCEPT !.nodes[id][direction] = @ \cup {ref}]

ReferenceEdit(node, path, prev, next, write) ==
    [node |-> node, path |-> path, prev |-> prev, next |-> next, write |-> write]

\* The pointer that a reference edit writes: to the data that the target
\* has at that time.
PointerTo(e, id) ==
    IF e.nodes[id] = Absent THEN Missing ELSE [to |-> id, fresh |-> e.nodes[id].fresh]

\* Mutants: the inbound end is not removed; an orphan that is referred to
\* again remains one.
UnlinkOutbound(m, r) ==
    IF r.prev = Null \/ m.editor.failed THEN m
    ELSE [m EXCEPT !.editor = RemoveReference(@, "outbound", r.node, [id |-> r.prev, path |-> r.path])]

LinkOrphan(m, r) ==
    IF r.next = Null \/ m.editor.failed THEN m
    ELSE LET a == AddReference(m.editor, "outbound", r.node, [id |-> r.next, path |-> r.path])
         IN  [m EXCEPT !.editor = AddReference(a, "inbound", r.next,
                                               [id |-> r.node, path |-> r.path])]

Unlink(m, r) ==
    IF r.prev = Null \/ m.editor.failed THEN m
    ELSE LET a == RemoveReference(m.editor, "outbound", r.node, [id |-> r.prev, path |-> r.path])
             b == RemoveReference(a, "inbound", r.prev, [id |-> r.node, path |-> r.path])
         IN  [editor  |-> b,
              orphans |-> IF ~b.failed /\ b.nodes[r.prev].inbound = {}
                          THEN m.orphans \cup {r.prev} ELSE m.orphans]

Link(m, r) ==
    IF r.next = Null \/ m.editor.failed THEN m
    ELSE LET a == AddReference(m.editor, "outbound", r.node, [id |-> r.next, path |-> r.path])
         IN  [editor  |-> AddReference(a, "inbound", r.next, [id |-> r.node, path |-> r.path]),
              orphans |-> m.orphans \ {r.next}]

\* One round of _mergeReferenceEdits.
MergeReferenceEdit(m, r) ==
    LET e == IF ~r.write \/ m.editor.failed THEN m.editor
             ELSE SetValue(m.editor, r.node, r.path,
                           IF r.next = Null THEN Null ELSE PointerTo(m.editor, r.next))
    IN  Link(Unlink([m EXCEPT !.editor = EnsureNewSnapshot(e, r.node)], r), r)

\* Mutants: what an orphan refers to is not looked at; a collected node is
\* not reported as edited.
CollectAlone(m) ==
    IF m.queue = {} \/ m.editor.failed THEN m
    ELSE LET id == CHOOSE n \in m.queue : TRUE
             e  == m.editor
         IN  [editor |-> IF e.nodes[id] = Absent THEN e
                         ELSE FoldSet(LAMBDA r, d : RemoveReference(d, "inbound", r.id,
                                                                    [id |-> id, path |-> r.path]),
                                [e EXCEPT !.nodes[id] = Absent, !.made = @ \cup {id},
                                          !.edited = @ \cup {id}],
                                e.nodes[id].outbound),
              queue  |-> m.queue \ {id}]

CollectUnedited(m) == [CollectAlone(m) EXCEPT !.editor.edited = m.editor.edited]

\* One round of _removeOrphanedNodes, for a queue of node ids.
CollectOne(m) ==
    IF m.queue = {} \/ m.editor.failed THEN m
    ELSE LET id   == CHOOSE n \in m.queue : TRUE
             node == m.editor.nodes[id]
             gone == [m.editor EXCEPT !.nodes[id] = Absent, !.made = @ \cup {id},
                                      !.edited = @ \cup {id}]
             left == FoldSet(LAMBDA r, e : RemoveReference(e, "inbound", r.id,
                                                           [id |-> id, path |-> r.path]),
                             gone, node.outbound)
             next == {r.id : r \in node.outbound}
         IN  IF node = Absent THEN [m EXCEPT !.queue = @ \ {id}]
             ELSE [editor |-> left,
                   queue  |-> (m.queue \ {id}) \cup
                      IF left.failed THEN {} ELSE {n \in next : left.nodes[n].inbound = {}}]

\* A node is collected once, and may be queued once more after that.
RemoveOrphanedNodes(e, orphans) ==
    FoldLeft(LAMBDA m, i : CollectOne(m), [editor |-> e, queue |-> orphans],
             [i \in 1..(2 * Cardinality(Node)) |-> i]).editor

-----------------------------------------------------------------------------
(* The walk of a payload, which collects reference edits.  w is the editor *)
(* and the edits collected so far.                                         *)

\* Mutant: a leaf is written even if it is what it was.
WalkLeafAlways(w, i) ==
    LET e == Edit(w.editor, i.node, NodeData(w.editor, i.node))
    IN  [w EXCEPT !.editor = IF e.failed THEN e ELSE [e EXCEPT !.nodes[i.node].leaf = i.value]]

WalkLeaf(w, i) ==
    LET old == IF w.editor.nodes[i.node] = Absent THEN Missing ELSE w.editor.nodes[i.node].leaf
        e   == Edit(w.editor, i.node, NodeData(w.editor, i.node))
    IN  IF i.value = old THEN w
        ELSE [w EXCEPT !.editor = IF e.failed THEN e ELSE [e EXCEPT !.nodes[i.node].leaf = i.value]]

\* An identity change is left to a reference edit.
WalkRef(w, i) ==
    LET old  == ValueAt(w.editor, i.node, i.path)
        prev == IF old \in {Missing, Null} THEN Null ELSE old.to
    IN  IF i.target # prev
        THEN [w EXCEPT !.edits = Append(@, ReferenceEdit(i.node, i.path, prev, i.target, TRUE))]
        ELSE IF i.target = Null /\ old # Null
        THEN [w EXCEPT !.editor = SetValue(@, i.node, i.path, Null)]
        ELSE w

\* Mutant: references beyond the new end stay.
WalkListOnly(w, i) ==
    [w EXCEPT !.editor = Edit(@, i.node, Resized(NodeData(@, i.node), Original(i.node), i.path, i.length))]

\* A list is resized, and references beyond its new end are dropped.
WalkList(w, i) ==
    LET old    == w.editor.nodes[i.node]
        length == IF old = Absent THEN 0
                  ELSE Cardinality({q \in Path : IsStrictPrefix(i.path, q) /\ old.at[q] # Missing})
        beyond == IF length <= i.length THEN {}
                  ELSE {r \in old.outbound : IsStrictPrefix(i.path, r.path)
                                              /\ r.path[Len(i.path) + 1] > i.length}
    IN  IF length = i.length /\ ValueAt(w.editor, i.node, i.path) = Here THEN w
        ELSE [editor |-> Edit(w.editor, i.node,
                             Resized(NodeData(w.editor, i.node), Original(i.node), i.path, i.length)),
              edits  |-> w.edits \o
                 SetToSeq({ReferenceEdit(i.node, r.path, r.id, Null, FALSE) : r \in beyond})]

\* _ensureParameterizedValueSnapshot.
WalkParam(w, i) ==
    LET owner == Owner(i.node)
        ref   == [id |-> i.node, path |-> owner.path]
        e     == [w.editor EXCEPT
                    !.made = @ \cup {i.node},
                    !.nodes[i.node] = [NewSnapshot EXCEPT !.inbound = {owner}]]
    IN  IF w.editor.nodes[owner.id] # Absent /\ ref \in w.editor.nodes[owner.id].outbound THEN w
        ELSE [w EXCEPT !.editor = AddReference(e, "outbound", owner.id, ref)]

\* The root of a fragment on an entity.  The value there and the payload have
\* the same id, or both have none; or there is no value yet, and the entity
\* gets a reference edit from itself to itself.  That is the first of the
\* edits, writes the data that the node has, and nothing in the walk looks at
\* its reference, which is put in here.  Everything else is an error.
WalkFragment(w, i) ==
    LET n    == i.node
        node == w.editor.nodes[n]
        id   == node # Absent /\ node.leaf # Missing
        none == node = Absent \/ ~HasData(node)
    IN  IF id = i.named THEN w
        ELSE IF i.named /\ none
        THEN [w EXCEPT !.editor = AddReference(AddReference(@, "outbound", n, Self(n)),
                                               "inbound", n, Self(n))]
        ELSE [w EXCEPT !.editor.failed = TRUE]

Walk(w, i) ==
    IF w.editor.failed THEN w
    ELSE CASE i.op = "leaf"  -> WalkLeaf(w, i)
           [] i.op = "ref"   -> WalkRef(w, i)
           [] i.op = "list"  -> WalkList(w, i)
           [] i.op = "param" -> WalkParam(w, i)
           [] i.op = "fragment" -> WalkFragment(w, i)

\* mergePayload.
Merge(e, p) ==
    LET w == FoldLeft(Walk, [editor |-> e, edits |-> <<>>], p)
        m == FoldLeft(MergeReferenceEdit, [editor |-> w.editor, orphans |-> {}], w.edits)
    IN  [RemoveOrphanedNodes(m.editor, m.orphans) EXCEPT !.merged = Append(@, p)]

-----------------------------------------------------------------------------
(* Commit.                                                                 *)

\* Mutant: only the edited entities themselves.
RebuiltEdited(e) == {n \in e.edited : n \in Present(e.nodes) \ Param}

\* The nodes that are entity snapshots, and what refers to those in S.
Entities(e)     == Present(e.nodes) \ Param
Referrers(e, S) == UNION {{r.id : r \in e.nodes[n].inbound} : n \in S \cap Entities(e)}

\* The nodes whose references _rebuildInboundReferences follows: the edited
\* entities, and all that refer to those, directly or not.
Rebuilt(e) ==
    Entities(e) \cap FoldLeft(LAMBDA S, i : S \cup Referrers(e, S), e.edited,
                              [i \in 1..Cardinality(Node) |-> i])

\* Every inbound reference of those nodes is pointed to their new data; one
\* from all of a node to itself sets its data to what it is.
RebuildInboundReferences(e) ==
    LET refs == UNION {{[to |-> n, from |-> r] : r \in e.nodes[n].inbound \ {Self(n)}} :
                         n \in Rebuilt(e)}
    IN  FoldSet(LAMBDA x, d :
                  RebuildValue(d, x.from.id, x.from.path, [to |-> x.to, fresh |-> TRUE]),
                e, refs)

\* A pointer to data that is not what its target now has.
Stale(nodes, v) == v \in Pointer /\ (nodes[v.to] = Absent \/ v.fresh # nodes[v.to].fresh)

\* _buildNewSnapshot: what was new is the data of the new snapshot.
NewGraph(nodes) ==
    [n \in Node |->
        IF nodes[n] = Absent THEN Absent
        ELSE [nodes[n] EXCEPT
                !.fresh = FALSE,
                !.at = [q \in Path |-> LET v == nodes[n].at[q]
                                       IN  IF v \in Pointer
                                           THEN [v EXCEPT !.fresh = Stale(nodes, v)] ELSE v]]]

-----------------------------------------------------------------------------
(* The actions.                                                            *)

Init ==
    /\ graph = [n \in Node |-> Absent]
    /\ editor = {}

Open ==
    /\ editor = {}
    /\ editor' = {[nodes |-> graph, made |-> {}, edited |-> {}, merged |-> <<>>, failed |-> FALSE]}
    /\ UNCHANGED graph

\* Payloads are merged one after the other.  An error ends the editor.  A
\* parameterized value that a fragment is on is one that a reference led to
\* (Transaction.updateParameterizedReferences).
MergePayload(p) ==
    \E e \in editor :
        /\ Len(e.merged) < MaxMerges
        /\ p # <<>> /\ RootOf(p) \in Param => e.nodes[RootOf(p)] # Absent
        /\ editor' = IF Merge(e, p).failed THEN {} ELSE {Merge(e, p)}
        /\ UNCHANGED graph

Commit ==
    \E e \in editor :
        LET rebuilt == RebuildInboundReferences(e)
        IN  /\ editor' = {}
            /\ graph' = IF rebuilt.failed THEN graph ELSE NewGraph(rebuilt.nodes)

Next == Open \/ (\E p \in Payload : MergePayload(p)) \/ Commit

Spec == Init /\ [][Next]_vars

-----------------------------------------------------------------------------
(* Properties.                                                             *)

TypeOK ==
    /\ graph \in [Node -> NodeSnapshot \cup {Absent}]
    /\ editor \subseteq Editor
    /\ \A e, f \in editor : e = f

Inbound(n)  == IF graph[n] = Absent THEN {} ELSE graph[n].inbound
Outbound(n) == IF graph[n] = Absent THEN {} ELSE graph[n].outbound

\* The references that nodes keep to each other are the two ends of the same
\* edges: an outbound reference of one is an inbound reference of the other,
\* and no end is at a node that is not there (util/references.ts).
ReferencesSymmetric ==
    \A n, m \in Node, q \in Path :
        [id |-> m, path |-> q] \in Outbound(n) <=> [id |-> n, path |-> q] \in Inbound(m)

\* The outbound references to entities are the pointers in the data, but for
\* the one to itself of an entity that a fragment was the first to write.
ReferencesMatchData ==
    \A n \in Present(graph) :
        {r \in Outbound(n) \ {Self(n)} : r.id \in Entity}
          = {[id |-> graph[n].at[q].to, path |-> q] : q \in {x \in Path : graph[n].at[x] \in Pointer}}

\* What a node points to is the data that the entity has in the same
\* snapshot: neither an older copy nor an entity that was collected.
PointersCurrent ==
    \A n \in Present(graph), q \in Path : ~Stale(graph, graph[n].at[q])

\* The entities that fragments without an id are on.
Unnamed == {n \in Entity : \E p \in Payload : p # <<>> /\ p[1] = FragmentOf(n, FALSE)}

\* Every node but a root is referred to, be it by itself, or is an entity that
\* has no id and that a fragment was written to; all others were collected.
OrphansCollected ==
    \A n \in Present(graph) \ Root :
        Inbound(n) # {} \/ (n \in Unnamed /\ graph[n].leaf = Missing)

\* What a node says of its own; a node without data is like none.
Values(s) ==
    LET d == IF s = Absent THEN NewSnapshot ELSE s
    IN  <<d.leaf, [q \in Path |-> IF d.at[q] \in Pointer THEN d.at[q].to ELSE d.at[q]]>>

Changed == {n \in Node : Values(graph'[n]) # Values(graph[n])}

\* The edited node ids of a commit cover every node whose own values are
\* not what they were, the collected ones included.
EditsCoverValues == [][\A e \in editor : Commit => Changed \subseteq e.edited]_vars

\* A commit changes what a node has at a path only if a payload wrote there,
\* or to a list or object around it or in it.
Writes(i, n, q) ==
    /\ i.op \in {"ref", "list"}
    /\ i.node = n
    /\ IsPrefix(i.path, q) \/ IsPrefix(q, i.path)

OnlyWrittenChanges ==
    [][\A e \in editor : Commit =>
         \A n \in Present(graph), q \in Path :
           graph'[n] # Absent /\ Values(graph'[n])[2][q] # Values(graph[n])[2][q]
             => \E j \in 1..Len(e.merged) : \E k \in 1..Len(e.merged[j]) :
                  Writes(e.merged[j][k], n, q)]_vars

\* One payload changes the identity of a node's data object only if it
\* changes the node's own values, or those of a node it leads to
\* (docs/Architecture.md, Writing To The Cache).
LeadsTo(S) ==
    FoldLeft(LAMBDA T, i : T \cup {n \in Node : graph'[n] # Absent
                                     /\ \E r \in graph'[n].outbound : r.id \in T},
             S, [i \in 1..Cardinality(Node) |-> i])

IdentityChangesWithValue ==
    [][\A e \in editor : Commit /\ Len(e.merged) = 1 =>
         LET nodes == RebuildInboundReferences(e).nodes
         IN  \A n \in Node \ Param :
               nodes[n] # Absent /\ nodes[n].fresh => n \in LeadsTo(Changed)]_vars
=============================================================================
