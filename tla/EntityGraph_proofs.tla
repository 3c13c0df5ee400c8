-------------------------- MODULE EntityGraph_proofs --------------------------
(***************************************************************************)
(* Proofs about EntityGraph: it is one of the graphs that the proofs about *)
(* transactions are about, and merging leaves no reference dangling.       *)
(***************************************************************************)
EXTENDS EntityGraph, TLAPS

\* Transactions over these graphs.
CONSTANTS ChangeId, NoChange, SnapId, Restorable, HasUpdater, Usage, MaxDepth, MaxQueue

VARIABLES live, snap, stack

Edits == INSTANCE ReportedEdits WITH
    Node <- NodeId, Graph <- SoundGraph, EmptyGraph <- NoNodes, NodeIds <- Present,
    Payload <- AnyPayload, Merge <- Merged, Rejects <- Clashes, Edits <- EditedIds,
    Drops <- Collected, Mentions <- PayloadNodes,
    Field <- Fields, NoValue <- Missing, Cell <- CellOf, Sets <- SetsOf,
    Query <- Queries, Result <- ReadResult, Complete <- ReadComplete, Ids <- ReadIds

-----------------------------------------------------------------------------
(* Types.                                                                  *)

LEMMA PayloadType ==
    ASSUME NEW p \in AnyPayload
    PROVE  /\ DOMAIN p \subseteq NodeId
           /\ \A n \in DOMAIN p : /\ p[n] \in Selected
                                  /\ p[n].ref \in Entity => p[n].ref \in DOMAIN p
BY DEF AnyPayload

\* A node's fields, whether it is in the graph or not.
LEMMA DataType ==
    ASSUME NEW g \in AnyGraph, NEW n \in NodeId
    PROVE  Data(g, n) \in NodeData
BY DEF AnyGraph, Data, NodeData

LEMMA OverlayType ==
    ASSUME NEW g \in AnyGraph, NEW p \in AnyPayload
    PROVE  Overlay(g, p) \in AnyGraph
<1>1. ASSUME NEW n \in NodeId
      PROVE  Overlay(g, p)[n] \in NodeData \cup {Absent}
  <2>1. g[n] \in NodeData \cup {Absent} /\ Data(g, n) \in NodeData
    BY DataType DEF AnyGraph
  <2>2. n \in DOMAIN p => p[n] \in Selected
    BY PayloadType
  <2>3. n \in DOMAIN p =>
          [leaf |-> Written(Data(g, n).leaf, p[n].leaf),
           ref  |-> Written(Data(g, n).ref, p[n].ref)] \in NodeData
    BY <2>1, <2>2 DEF Written, NodeData, Selected
  <2>4. QED BY <2>1, <2>3 DEF Overlay
<1>2. QED
  BY <1>1 DEF AnyGraph, Overlay

\* A merge makes a graph, and edits and collects nodes of it.
THEOREM MergeType ==
    ASSUME NEW g \in AnyGraph, NEW p \in AnyPayload
    PROVE  /\ Merged(g, p) \in AnyGraph
           /\ Collected(g, p) \subseteq EditedIds(g, p) \cap Entity
           /\ EditedIds(g, p) \subseteq NodeId
<1>1. \A n \in NodeId : Overlay(g, p)[n] \in NodeData \cup {Absent}
  BY OverlayType DEF AnyGraph
<1>2. Merged(g, p) \in AnyGraph
  BY <1>1 DEF Merged, AnyGraph
<1>3. Collected(g, p) \subseteq Entity
  BY DEF Collected
<1>4. QED
  BY <1>2, <1>3 DEF EditedIds, NodeId

-----------------------------------------------------------------------------
(* A merge, cell by cell.                                                  *)

LEMMA CellPresent ==
    ASSUME NEW g \in AnyGraph, NEW n \in NodeId, NEW f \in Fields, CellOf(g, n, f) # Missing
    PROVE  n \in Present(g)
<1>1. SUFFICES ASSUME g[n] = Absent PROVE FALSE
  BY DEF Present
<1>2. CellOf(g, n, f) = Missing
  BY <1>1 DEF CellOf, Data, Fields
<1>3. QED
  BY <1>2

\* What a payload writes over a node.
LEMMA OverlayCell ==
    ASSUME NEW g \in AnyGraph, NEW p \in AnyPayload, NEW n \in NodeId, NEW f \in Fields
    PROVE  CellOf(Overlay(g, p), n, f)
             = IF SetsOf(p, n, f) # Missing THEN SetsOf(p, n, f) ELSE CellOf(g, n, f)
<1> DEFINE d == Data(g, n)
           w == [leaf |-> Written(d.leaf, p[n].leaf), ref |-> Written(d.ref, p[n].ref)]
<1>1. CASE n \notin DOMAIN p
  <2>1. Overlay(g, p)[n] = g[n] /\ SetsOf(p, n, f) = Missing
    BY <1>1 DEF Overlay, SetsOf
  <2>2. QED BY <2>1 DEF CellOf, Data
<1>2. CASE n \in DOMAIN p
  <2>1. Overlay(g, p)[n] = w
    BY <1>2 DEF Overlay
  <2>2. d \in NodeData /\ p[n] \in Selected
    BY <1>2, DataType, PayloadType
  <2> HIDE DEF d
  <2>3. w \in NodeData
    BY <2>2 DEF Written, NodeData, Selected
  <2>4. w # Absent
    BY <2>3, AbsentAssumption
  <2>5. Data(Overlay(g, p), n) = w
    <3> HIDE DEF w
    <3>1. QED BY <2>1, <2>4 DEF Data
  <2>6. p[n].leaf # Missing /\ p[n].ref # Missing
    BY <2>2, DistinctAssumption DEF Selected
  <2>7. w[f] = IF p[n][f] # Skip THEN p[n][f] ELSE d[f]
    BY DEF Written, Fields
  <2>8. p[n][f] # Missing
    BY <2>6 DEF Fields
  <2>9. SetsOf(p, n, f) = IF p[n][f] # Skip THEN p[n][f] ELSE Missing
    BY <1>2 DEF SetsOf
  <2>10. CellOf(Overlay(g, p), n, f) = w[f] /\ CellOf(g, n, f) = d[f]
    BY <2>5 DEF CellOf, d
  <2> HIDE DEF w
  <2>11. QED BY <2>7, <2>8, <2>9, <2>10
<1>3. QED
  BY <1>1, <1>2

LEMMA MergedCell ==
    ASSUME NEW g \in AnyGraph, NEW p \in AnyPayload, NEW n \in NodeId, NEW f \in Fields
    PROVE  /\ CellOf(g, n, f) # Missing => n \in Present(g)
           /\ CellOf(Merged(g, p), n, f)
                = IF n \in Collected(g, p) THEN Missing
                  ELSE IF SetsOf(p, n, f) # Missing THEN SetsOf(p, n, f)
                  ELSE CellOf(g, n, f)
           /\ CellOf(Merged(g, p), n, f) # CellOf(g, n, f) => n \in EditedIds(g, p)
<1> DEFINE h == Merged(g, p)
           new == Overlay(g, p)
<1>1. h[n] = IF n \in Collected(g, p) THEN Absent ELSE new[n]
  BY DEF Merged
<1>2. CASE n \in Collected(g, p)
  <2>1. CellOf(h, n, f) = Missing
    <3> HIDE DEF h
    <3>1. QED BY <1>1, <1>2 DEF CellOf, Data, Fields
  <2>2. n \in EditedIds(g, p)
    BY <1>2 DEF EditedIds
  <2>3. QED BY <1>2, <2>1, <2>2, CellPresent
<1>3. CASE n \notin Collected(g, p)
  <2>1. CellOf(h, n, f) = CellOf(new, n, f)
    <3> HIDE DEF h, new
    <3>1. QED BY <1>1, <1>3 DEF CellOf, Data
  <2>2. new[n] = g[n] => CellOf(new, n, f) = CellOf(g, n, f)
    <3> HIDE DEF new
    <3>1. QED BY DEF CellOf, Data
  <2>3. new[n] # g[n] => n \in EditedIds(g, p)
    BY DEF EditedIds
  <2>4. QED BY <1>3, <2>1, <2>2, <2>3, OverlayCell, CellPresent
<1>4. QED
  BY <1>2, <1>3

\* A merge empties the nodes it collects, sets what the payload has and leaves
\* the rest; it reports every node in which that changes something.  This is
\* what ReportedEdits assumes of graphs and payloads (CellAssumption).
THEOREM EntitiesMergeByCells ==
    Edits!CellsInNodes(SoundGraph) /\ Edits!MergesByCells(SoundGraph, AnyPayload)
<1>1. Edits!CellsInNodes(SoundGraph)
  BY CellPresent DEF Edits!CellsInNodes, SoundGraph
<1>2. Edits!MergesByCells(SoundGraph, AnyPayload)
  BY MergedCell, MergeType DEF Edits!MergesByCells, SoundGraph
<1>3. QED
  BY <1>1, <1>2

-----------------------------------------------------------------------------
(* Reads.                                                                  *)

LEMMA ResultFromCells ==
    ASSUME NEW g \in AnyGraph, NEW h \in AnyGraph, NEW edited \in SUBSET NodeId,
           NEW q,
           \A n \in NodeId \ edited, f \in Fields :
             CellOf(g, n, f) # Missing => CellOf(h, n, f) = CellOf(g, n, f),
           ReadComplete(q, ReadResult(q, g)), ReadIds(q, ReadResult(q, g)) \cap edited = {}
    PROVE  ReadResult(q, h) = ReadResult(q, g)
<1> DEFINE IdsIn(k) == {n \in NodeId : Root \in Present(k) /\ (n = Root \/ k[Root].ref = n)}
<1>1. ReadIds(q, ReadResult(q, g)) = IdsIn(g)
  BY DEF ReadIds, ReadResult
<1>2. /\ Root \in IdsIn(g)
      /\ Data(g, Root).ref # Missing
      /\ \A n \in IdsIn(g) : Data(g, n).leaf # Missing
  BY DEF ReadComplete, ReadResult, ReadIds
<1>3. \A n \in NodeId : /\ CellOf(g, n, "leaf") = Data(g, n).leaf
                        /\ CellOf(g, n, "ref") = Data(g, n).ref
                        /\ CellOf(h, n, "leaf") = Data(h, n).leaf
                        /\ CellOf(h, n, "ref") = Data(h, n).ref
  BY DEF CellOf
<1>4. \A n \in IdsIn(g) : n \in NodeId \ edited
  BY <1>1
<1>5. "leaf" \in Fields /\ "ref" \in Fields
  BY DEF Fields
<1> HIDE DEF IdsIn
<1>6. /\ Root \in NodeId
      /\ Data(h, Root).ref = Data(g, Root).ref
      /\ \A n \in IdsIn(g) : Data(h, n).leaf = Data(g, n).leaf
  BY <1>2, <1>3, <1>4, <1>5
<1>7. Root \in Present(g) /\ Root \in Present(h)
  BY <1>2, <1>3, <1>5, <1>6, CellPresent
<1>8. IdsIn(h) = IdsIn(g)
  BY <1>6, <1>7 DEF IdsIn, Present, Data
<1>9. [n \in IdsIn(h) |-> Data(h, n).leaf] = [n \in IdsIn(g) |-> Data(g, n).leaf]
  BY <1>6, <1>8
<1>10. QED
  BY <1>6, <1>9 DEF ReadResult, IdsIn

\* A complete read depends on nothing but the cells of the nodes in it: a
\* graph that has those has the same result.  This is what EditsAlwaysCoverReads
\* asks of the readers.
THEOREM EntityReadsFollowCells == Edits!ReadersFollowCells(SoundGraph)
BY ResultFromCells
DEF Edits!ReadersFollowCells, Edits!Preserves, Edits!Covers, SoundGraph

-----------------------------------------------------------------------------
(* Garbage collection.                                                     *)

\* An entity is collected only with all that refers to it.
LEMMA CollectedReferrers ==
    ASSUME NEW g, NEW p, NEW e \in Collected(g, p)
    PROVE  Referrers(Overlay(g, p), e) \subseteq Collected(g, p)
<1> DEFINE refs    == [x \in Entity |-> Referrers(Overlay(g, p), x)]
           orphans == {x \in Unlinked(g, p) : refs[x] = {}}
           Closed(S) == /\ orphans \subseteq S
                        /\ \A x \in Entity : refs[x] \in (SUBSET S) \ {{}} => x \in S
           C == Collected(g, p)
<1>1. C = {x \in Entity : \A S \in SUBSET Entity : Closed(S) => x \in S}
  BY DEF Collected
<1>2. e \in Entity /\ refs[e] = Referrers(Overlay(g, p), e)
  BY DEF Collected
<1> HIDE DEF refs, orphans, C
<1>3. ASSUME NEW m \in refs[e], m \notin C PROVE FALSE
  <2> DEFINE T == C \ {e}
  <2>1. T \in SUBSET Entity
    BY <1>1
  <2>2. orphans \subseteq T
    <3>1. SUFFICES ASSUME NEW x \in orphans PROVE x \in C /\ x # e
      OBVIOUS
    <3>2. x # e
      BY <1>3 DEF orphans
    <3>3. x \in Entity
      BY DEF orphans, Unlinked
    <3>4. QED BY <1>1, <3>2, <3>3
  <2>3. ASSUME NEW x \in Entity, refs[x] \in (SUBSET T) \ {{}} PROVE x \in T
    <3>1. x # e
      BY <1>3, <2>3
    <3>2. ASSUME NEW S \in SUBSET Entity, Closed(S) PROVE x \in S
      <4>1. C \subseteq S
        BY <1>1, <3>2
      <4>2. refs[x] \in (SUBSET S) \ {{}}
        BY <2>3, <4>1
      <4>3. QED BY <3>2, <4>2
    <3>3. x \in C
      BY <1>1, <3>2
    <3>4. QED BY <3>1, <3>3
  <2>4. Closed(T)
    BY <2>2, <2>3
  <2>5. e \in C
    BY DEF C
  <2> HIDE DEF Closed
  <2>6. e \in T
    BY <1>1, <2>1, <2>4, <2>5
  <2>7. QED BY <2>6
<1>4. QED
  BY <1>2, <1>3 DEF C

\* A merge leaves no reference to a node that is not there: what it collects
\* nothing that stays refers to, and what it links the payload contains.  So
\* the graphs that transactions are about can be the sound ones (this is what
\* MergeAssumption asks of them), and no snapshot that is ever served has a
\* dangling reference (TypeCorrect).
THEOREM MergeKeepsReferences ==
    ASSUME NEW g \in SoundGraph, NEW p \in AnyPayload
    PROVE  Merged(g, p) \in SoundGraph /\ EditedIds(g, p) \subseteq NodeId
<1> DEFINE h == Merged(g, p)
           new == Overlay(g, p)
           C == Collected(g, p)
<1>0. g \in AnyGraph
  BY DEF SoundGraph
<1>1. /\ \A n \in NodeId : h[n] = IF n \in C THEN Absent ELSE new[n]
      /\ \A n \in NodeId : new[n] \in NodeData \cup {Absent}
      /\ \A n \in NodeId : n \notin DOMAIN p => new[n] = g[n]
  BY <1>0, OverlayType DEF Merged, AnyGraph, Overlay
<1>2. ASSUME NEW n \in DOMAIN p
      PROVE  /\ n \in NodeId /\ new[n] # Absent
             /\ new[n].ref \in {Data(g, n).ref, p[n].ref}
             /\ p[n].ref \in Entity => p[n].ref \in DOMAIN p
  <2>1. n \in NodeId
    BY PayloadType
  <2>2. /\ p[n] \in Selected /\ Data(g, n) \in NodeData
        /\ p[n].ref \in Entity => p[n].ref \in DOMAIN p
    BY <1>0, <2>1, PayloadType, DataType
  <2>3. new[n] = [leaf |-> Written(Data(g, n).leaf, p[n].leaf),
                  ref  |-> Written(Data(g, n).ref, p[n].ref)]
    BY <2>1 DEF Overlay
  <2> HIDE DEF new
  <2>4. new[n] \in NodeData
    BY <2>2, <2>3 DEF Written, NodeData, Selected
  <2>5. new[n].ref \in {Data(g, n).ref, p[n].ref}
    BY <2>3 DEF Written
  <2>6. QED BY <2>1, <2>2, <2>4, <2>5, AbsentAssumption
<1>3. \A e \in C : Referrers(new, e) \subseteq C
  BY CollectedReferrers
<1> HIDE DEF h, new, C
<1>4. SUFFICES ASSUME NEW n \in NodeId, h[n] # Absent, h[n].ref \in Entity
               PROVE  h[n].ref \in Present(h)
  BY <1>0, MergeType DEF SoundGraph, Present, h
<1> DEFINE e == h[n].ref
<1>5. e \in NodeId /\ n \notin C /\ new[n] # Absent /\ new[n].ref = e
  BY <1>1, <1>4 DEF NodeId
<1>6. e \notin C
  <2>1. n \in Referrers(new, e)
    BY <1>4, <1>5 DEF Referrers, Present
  <2>2. QED BY <1>3, <1>5, <2>1
<1>7. ASSUME NEW m \in NodeId, Data(g, m).ref \in Entity
      PROVE  Data(g, m).ref \in NodeId /\ g[Data(g, m).ref] # Absent
  <2>1. g[m] # Absent /\ Data(g, m).ref = g[m].ref
    BY <1>7, DistinctAssumption DEF Data
  <2>2. QED BY <1>7, <2>1 DEF SoundGraph, Present
<1>8. ASSUME NEW m \in NodeId, g[m] # Absent
      PROVE  new[m] # Absent
  <2>1. CASE m \in DOMAIN p
    BY <1>2, <2>1
  <2>2. CASE m \notin DOMAIN p
    BY <1>1, <1>8, <2>2
  <2>3. QED BY <2>1, <2>2
<1>9. new[e] # Absent
  <2>1. CASE e = Data(g, n).ref
    BY <1>4, <1>7, <1>8, <2>1
  <2>2. CASE n \in DOMAIN p /\ e = p[n].ref
    BY <1>2, <1>4, <2>2
  <2>3. n \notin DOMAIN p => e = Data(g, n).ref
    BY <1>1, <1>5 DEF Data
  <2>4. n \in DOMAIN p => e \in {Data(g, n).ref, p[n].ref}
    BY <1>2, <1>5
  <2> HIDE DEF e
  <2>5. QED BY <2>1, <2>2, <2>3, <2>4
<1>10. h[e] # Absent
  <2> HIDE DEF e
  <2>1. QED BY <1>1, <1>5, <1>6, <1>9
<1>11. QED
  BY <1>5, <1>10 DEF Present, h
=============================================================================
