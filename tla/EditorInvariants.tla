-------------------------- MODULE EditorInvariants --------------------------
(***************************************************************************)
(* What every graph is like between two merges of a SnapshotEditor, and    *)
(* what the walks of payloads are like that it rests on: together the      *)
(* inductive invariant behind the properties of SnapshotEditor.            *)
(***************************************************************************)
EXTENDS SnapshotEditor

-----------------------------------------------------------------------------
(* Payloads.                                                               *)

Instructions == UNION {{p[j] : j \in DOMAIN p} : p \in Payload}

\* Where payloads write references, and where they write lists.
RefLocations  == {[id |-> i.node, path |-> i.path] : i \in {x \in Instructions : x.op = "ref"}}
ListLocations == {[id |-> i.node, path |-> i.path] : i \in {x \in Instructions : x.op = "list"}}

Below(x, y) == x.id = y.id /\ IsStrictPrefix(y.path, x.path)

\* The index in the list of what is at `path'.
IndexIn(path, list) == path[Len(list) + 1]

\* A field has one kind of value in all payloads, as in a schema; the elements
\* of a list are entities or null, and references are to be found in fields
\* and in lists only.
FieldsHaveOneKind ==
    /\ RefLocations \cap ListLocations = {}
    /\ \A x, y \in RefLocations \cup ListLocations : Below(x, y) =>
          /\ x \in RefLocations /\ y \in ListLocations
          /\ IndexIn(x.path, y.path) \in Nat \ {0}
          /\ x.path = Append(y.path, IndexIn(x.path, y.path))
    /\ \A x \in RefLocations \cup ListLocations, q \in Path \ {<<>>} :
          IsStrictPrefix(q, x.path) => [id |-> x.id, path |-> q] \in ListLocations
    /\ \A x \in RefLocations \cup ListLocations : x.path = <<>> => x.id \in Param
    /\ \A n \in Param, y \in ListLocations : ~Below(Owner(n), y)

\* _mergeSubgraph starts at the root of the payload, and comes to another node
\* through the field, or through a reference, that leads to it.  A leaf of an
\* entity is its id, which the payload of a fragment may not have.
NodesAfterFields(p) ==
    /\ \A k \in DOMAIN p : p[k].op = "fragment" => k = 1
    /\ \A k \in DOMAIN p :
        LET n == Written(p[k])
        IN  /\ n \in Param => n = RootOf(p) \/ \E j \in 1..(k - 1) : p[j] = FieldOf(n)
            /\ n \in Entity =>
                  \/ p[1] = FragmentOf(n, TRUE)
                  \/ p[1] = FragmentOf(n, FALSE) /\ p[k].op # "leaf"
                  \/ \E j \in 1..(k - 1) : p[j].op = "ref" /\ p[j].target = n

\* _mergeArraySubgraph resizes a list and then walks into each element.
ListsAreWhole(p) ==
    /\ \A k \in DOMAIN p, y \in ListLocations :
          p[k].op = "ref" /\ Below([id |-> p[k].node, path |-> p[k].path], y)
            => \E j \in 1..(k - 1) :
                  /\ p[j].op = "list" /\ p[j].node = y.id /\ p[j].path = y.path
                  /\ IndexIn(p[k].path, y.path) <= p[j].length
    /\ \A j \in DOMAIN p : p[j].op = "list" =>
          \A x \in 1..p[j].length : \E k \in DOMAIN p :
              p[k].op = "ref" /\ p[k].node = p[j].node /\ p[k].path = Append(p[j].path, x)

\* One payload has one value for each field, and selects the id at least of
\* every entity in it, but for that of a fragment.
OneResult(p) ==
    /\ \A j, k \in DOMAIN p :
          /\ p[j].op = p[k].op /\ p[j].op \in {"ref", "list"}
          /\ p[j].node = p[k].node /\ p[j].path = p[k].path
          => p[j] = p[k]
    /\ \A k \in DOMAIN p : p[k].op = "ref" /\ p[k].target \in Entity =>
          \E j \in DOMAIN p : p[j].op = "leaf" /\ p[j].node = p[k].target
    /\ \A k \in DOMAIN p : p[k].op = "fragment" /\ p[k].named =>
          \E j \in DOMAIN p : p[j].op = "leaf" /\ p[j].node = p[k].node

ASSUME PayloadsAreWalks ==
    /\ FieldsHaveOneKind
    /\ \A p \in Payload : NodesAfterFields(p) /\ ListsAreWhole(p) /\ OneResult(p)

-----------------------------------------------------------------------------
(* Graphs between two merges.                                              *)

\* The nodes as they are read: one that is not there has no data and no
\* references.
View(nodes) == [n \in Node |-> IF nodes[n] = Absent THEN NewSnapshot ELSE nodes[n]]

\* The two ends of every reference.
EndsMatch(V) ==
    \A n, m \in Node, q \in Path :
        [id |-> m, path |-> q] \in V[n].outbound <=> [id |-> n, path |-> q] \in V[m].inbound

\* A reference is from a parameterized field to its value, to an entity from
\* where payloads put such, or from an entity to itself.
ReferencesLed(V) ==
    \A n, m \in Node, q \in Path : [id |-> m, path |-> q] \in V[n].outbound =>
        \/ m \in Param /\ Owner(m) = [id |-> n, path |-> q]
        \/ m \in Entity /\ [id |-> n, path |-> q] \in RefLocations
        \/ m \in Entity /\ [id |-> n, path |-> q] = Self(m)

\* Pointers and null are where references are, and Here where lists are.
KindsKept(V) ==
    \A n \in Node, q \in Path :
        LET loc == [id |-> n, path |-> q]
        IN  \/ V[n].at[q] = Missing
            \/ V[n].at[q] = Here /\ loc \in ListLocations
            \/ V[n].at[q] \in Pointer \cup {Null} /\ loc \in RefLocations

\* The entity that a value points to.
Targets(v) == IF v \in Pointer THEN {v.to} ELSE {}

\* The entities that a node refers to from a path, other than all of itself.
Referred(V, n, q) ==
    {m \in Entity : [id |-> m, path |-> q] \in V[n].outbound /\ [id |-> n, path |-> q] # Self(m)}

\* The references to entities are what the data points to.
DataMatches(V) == \A n \in Node, q \in Path : Referred(V, n, q) = Targets(V[n].at[q])

\* A list has no elements without those before them, nor any if it is not
\* there.
ListWhole(at, list) ==
    \A q \in Path : IsStrictPrefix(list, q) /\ at[q] # Missing =>
        /\ at[list] = Here
        /\ \A k \in 1..IndexIn(q, list) : Append(list, k) \in Path /\ at[Append(list, k)] # Missing

ListsWhole(V) == \A y \in ListLocations : ListWhole(V[y.id].at, y.path)

\* Nothing but a root, or an entity that has no id, is there without a
\* reference to it.
OrphansGone(nodes) ==
    \A n \in Present(nodes) \ Root :
        nodes[n].inbound # {} \/ (n \in Unnamed /\ nodes[n].leaf = Missing)

\* A pointer to new data is one to data that is new.
FreshAreFresh(V) ==
    \A n \in Node, q \in Path :
        V[n].at[q] \in Pointer /\ V[n].at[q].fresh => V[V[n].at[q].to].fresh

GraphInv(nodes) ==
    /\ EndsMatch(View(nodes))
    /\ ReferencesLed(View(nodes))
    /\ KindsKept(View(nodes))
    /\ DataMatches(View(nodes))
    /\ ListsWhole(View(nodes))
    /\ FreshAreFresh(View(nodes))
    /\ OrphansGone(nodes)

\* What the edited node ids tell: an entity is edited if it has new data, and
\* is what it was in the parent if it is not edited.
EditsTell(e) ==
    /\ e.edited \subseteq e.made
    /\ \A n \in Node : View(e.nodes)[n].fresh => n \in e.edited
    /\ \A n \in Present(e.nodes) \ Param : n \in e.edited => e.nodes[n].fresh
    /\ \A n \in Node \ e.edited :
          /\ View(e.nodes)[n].leaf = View(graph)[n].leaf
          /\ View(e.nodes)[n].at = View(graph)[n].at

\* The inductive invariant: a graph that was committed has no new data, and an
\* editor has not failed and keeps to the same.
EditorInv ==
    /\ TypeOK
    /\ GraphInv(graph)
    /\ \A n \in Present(graph) : ~graph[n].fresh
    /\ \A e \in editor : ~e.failed /\ GraphInv(e.nodes) /\ EditsTell(e)

-----------------------------------------------------------------------------
(* What an editor has changed.                                             *)

\* What a pointer is read as: the entity, whichever copy of it.
Read(v) == IF v \in Pointer THEN v.to ELSE v

WrittenBy(merged, n, q) ==
    \E j \in 1..Len(merged) : \E k \in 1..Len(merged[j]) : Writes(merged[j][k], n, q)

\* A node of the parent that is gone was collected, and a parameterized field
\* with what it hangs on, so neither comes back; what is still there has the
\* parent's value wherever no payload wrote.
KeepsUnwritten(e) ==
    LET gone == Present(graph) \ Present(e.nodes)
    IN  /\ gone \subseteq e.made
        /\ \A n \in gone \cap Param : Owner(n).id \in gone
        /\ \A n \in Present(graph) \cap Present(e.nodes), q \in Path :
              Read(e.nodes[n].at[q]) # Read(graph[n].at[q]) => WrittenBy(e.merged, n, q)

\* Half way through an editor's payloads, what none of them wrote is what it
\* was: lazyImmutableDeepSet copies from the parent what it does not set, and
\* _ensureNewSnapshot does not make a collected node anew.
UnwrittenKept == \A e \in editor : KeepsUnwritten(e)
=============================================================================
