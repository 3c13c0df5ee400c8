------------------------ MODULE MC_CacheTransactions ------------------------
(***************************************************************************)
(* Instances of CacheTransactions over the graphs of EntityGraph: a root   *)
(* and two entities.                                                       *)
(***************************************************************************)
EXTENDS AtomicTransactions, ReportedEdits, EntityGraph, TLC

p(leaf, ref) == [leaf |-> leaf, ref |-> ref]

CONSTANTS e1, e2, c1, c2

\* { ref: { e1 } }, { ref: null }, a nested entity, an object without an id.
LinkE1   == (Root :> p(Skip, e1)) @@ (e1 :> p(1, Skip))
LinkNull == Root :> p(Skip, Null)
LinkE2   == (Root :> p(2, e2)) @@ (e2 :> p(2, Null))
NoId     == Root :> p(Skip, Value)

CorePayloads == {LinkE1, LinkE2, LinkNull, NoId}

\* Payloads that clash: one refers to an entity where NoId has an object.
ClashPayloads == {LinkE2, NoId}
CatchPayloads == {LinkE1} \cup ClashPayloads

\* What extract gives for an empty cache, and for one that holds an entity.
SavedGraphs == {NoNodes, Merged(NoNodes, LinkE1)}

Sym == Permutations(SnapId) \cup Permutations(ChangeId)

\* Bounds: an update has at most MaxQueue deltas; what a transaction makes
\* of the baseline, at most four payloads do.
Writes     == 0..4
DeltaLists == UNION {[1..n -> Payload] : n \in 0..MaxQueue}
=============================================================================
