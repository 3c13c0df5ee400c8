---------------------------- MODULE ReportedEdits ----------------------------
(***************************************************************************)
(* What CacheTransactions promises to Broadcast: the ids that a            *)
(* transaction reports as edited are those of every node that a reader     *)
(* could see change (CacheTransaction.ts, _editedNodeIds; Cache.ts,        *)
(* _setSnapshot).  What a graph holds for a field of a node is a cell.     *)
(***************************************************************************)
EXTENDS CacheTransactions

CONSTANTS
    Field,           \* fields of nodes
    NoValue,         \* what a graph has for a field that is not there
    Cell(_, _, _),   \* what a graph has for a node and a field of it
    Sets(_, _, _),   \* what a payload writes there, or NoValue
    Query,           \* operations that are read and watched
    Result(_, _),    \* what a query reads from a graph
    Complete(_, _),  \* the data satisfies the selection of the query
    Ids(_, _)        \* the nodes in the data

\* What SnapshotEditor makes of a payload that it does not reject, cell by
\* cell: it drops what it collects, sets what the payload has, and reports
\* both where they change something.
MergesByCells(graphs, payloads) ==
    \A g \in graphs, p \in payloads :
        ~Rejects(g, p) =>
          LET h == Merge(g, p)
          IN  /\ Drops(g, p) \subseteq Edits(g, p)
              /\ \A n \in Node, f \in Field :
                   /\ Cell(h, n, f) = IF n \in Drops(g, p) THEN NoValue
                                      ELSE IF Sets(p, n, f) # NoValue THEN Sets(p, n, f)
                                      ELSE Cell(g, n, f)
                   /\ Cell(h, n, f) # Cell(g, n, f) => n \in Edits(g, p)

\* Only nodes of a graph have fields in it.
CellsInNodes(graphs) ==
    \A g \in graphs, n \in Node, f \in Field : Cell(g, n, f) # NoValue => n \in NodeIds(g)

ASSUME CellAssumption == CellsInNodes(Graph) /\ MergesByCells(Graph, Payload)

-----------------------------------------------------------------------------
\* What g has outside of `edited', h has too.
Preserves(edited, g, h) ==
    \A n \in Node \ edited, f \in Field : Cell(g, n, f) # NoValue => Cell(h, n, f) = Cell(g, n, f)

\* A complete read of g, none of whose nodes is in `edited', gives the same on
\* h: this is `Covers' of Broadcast.
Covers(edited, g, h) ==
    \A q \in Query :
        LET d == Result(q, g)
        IN  Complete(q, d) /\ Ids(q, d) \cap edited = {} => Result(q, h) = d

\* Between graphs of a set, a complete result depends on nothing but the cells
\* of its nodes.
ReadersFollowCells(graphs) ==
    \A g \in graphs, h \in graphs, edited \in SUBSET Node :
        Preserves(edited, g, h) => Covers(edited, g, h)

\* What a transaction that ends, and a reset, do to what is served.  Readers of
\* a transaction that lags were shown an update that had gone from the queue
\* before it began, or that a rollback which failed took out.
CellsCovered ==
    /\ Commit /\ ~top.lagging =>
         /\ Preserves(top.edited, snap[live].baseline, snap'[live'].baseline)
         /\ Preserves(top.edited, snap[live].optimistic, snap'[live'].optimistic)
    /\ Reset => Preserves(ResetEdits, snap[live].optimistic, snap'[live'].optimistic)

ReadsCovered ==
    /\ Commit /\ ~top.lagging =>
         /\ Covers(top.edited, snap[live].baseline, snap'[live'].baseline)
         /\ Covers(top.edited, snap[live].optimistic, snap'[live'].optimistic)
    /\ Reset => Covers(ResetEdits, snap[live].optimistic, snap'[live'].optimistic)

\* A commit hands to the observers the ids of all nodes that lose or change a
\* value in the baseline or in the optimistic graph, whatever was written,
\* replayed and rolled back; a reset does so for the optimistic graph.
EditsCoverCells == [][CellsCovered]_vars

\* An observer none of whose nodes is among the ids that a commit or a reset
\* hands to it would read what it last read, and a cached read may be carried
\* over (QueryObserver._hasUpdate, _copyUnaffectedCachedReads).
EditsCoverReads == [][ReadsCovered]_vars

-----------------------------------------------------------------------------
(* Why the edited ids are enough.                                          *)

\* Whatever the optimistic graph of v has, the baseline has or an update of
\* q has set.
Sourced(v, q) ==
    \A n \in Node, f \in Field :
        Cell(v.optimistic, n, f) \in
            {NoValue, Cell(v.baseline, n, f)} \cup {Sets(q[i].delta, n, f) : i \in 1..Len(q)}

\* Outside of `edited', readers see nothing that is not in the baseline.
Grounded(edited, v) ==
    \A n \in Node \ edited, f \in Field :
        Cell(v.optimistic, n, f) \in {NoValue, Cell(v.baseline, n, f)}

\* What was made of the snapshot l, v, is as `edited' says.
Reported(edited, v, l) ==
    /\ \A n \in Node \ edited, f \in Field :
         Cell(v.baseline, n, f) = Cell(l.baseline, n, f)
    /\ Preserves(edited, l.optimistic, v.optimistic)

\* What makes EditsCoverCells inductive, for transactions that do not nest.
\* A baseline transaction replays the queue over what it writes, which reports
\* all that readers see beside the baseline, if the queue is what they are
\* shown; after that, and after a rollback, all of it has been reported.
EditsInv ==
    /\ Len(stack) <= 1
    /\ Sourced(snap[live], snap[live].shown)
    /\ stack # <<>> =>
         /\ top.changeId = NoChange => top.deltas = <<>>
         /\ Sourced(current, Enqueue(current.shown, top.changeId, top.deltas))
         /\ ~top.lagging =>
              /\ Reported(top.edited, current, snap[live])
              /\ top.changeId = NoChange =>
                   \/ top.snapshot = live /\ snap[live].queue = snap[live].shown
                   \/ Grounded(top.edited, snap[live])
=============================================================================
