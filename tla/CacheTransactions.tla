-------------------------- MODULE CacheTransactions --------------------------
(***************************************************************************)
(* Transactions of the cache: Cache.transaction, write, rollback, reset    *)
(* and restore (Cache.ts), the CacheTransaction they run                   *)
(* (CacheTransaction.ts) and the snapshots they replace one another by     *)
(* (CacheSnapshot.ts), over the queue of optimistic updates.               *)
(*                                                                         *)
(* A CacheSnapshot has an identity, because a rollback assigns to a field  *)
(* of the one it starts from: `snap' is the heap of the snapshots that the *)
(* cache or a running transaction refers to.                               *)
(*                                                                         *)
(* JavaScript runs one piece of code at a time, so the only interleavings  *)
(* are re-entrant ones: a transaction's callback, or an entity updater,    *)
(* that calls the cache again.  `stack' holds the running transactions,    *)
(* innermost last; every step is taken by the innermost one.               *)
(***************************************************************************)
EXTENDS OptimisticUpdateQueue, Functions

CONSTANTS
    Node,            \* node ids
    Graph,           \* GraphSnapshot values
    EmptyGraph,      \* new GraphSnapshot()
    NodeIds(_),      \* allNodeIds of a graph
    NoChange,        \* the id of a transaction that is not optimistic
    SnapId,          \* identities of CacheSnapshot objects
    Restorable,      \* graphs that restore may be given
    HasUpdater,      \* nodes of a type with an entry in entityUpdaters
    Usage,           \* what application code does, see UsageAssumption
    MaxDepth,        \* bound: transactions running at once
    MaxQueue         \* bound: deltas in a queue and a transaction together

(* "nest":  a callback or updater calls the cache it was called from;      *)
(* "throw": a callback or updater throws of its own accord;                *)
(* "catch": a callback or updater catches what a write or rollback throws; *)
(* "mix":   an optimistic transaction rolls back after it has written.     *)
ASSUME UsageAssumption == Usage \subseteq {"nest", "throw", "catch", "mix"}

ASSUME GraphAssumption ==
    /\ EmptyGraph \in Graph
    /\ Restorable \subseteq Graph
    /\ \A g \in Graph : NodeIds(g) \subseteq Node

ASSUME MergeAssumption ==
    \A g \in Graph, p \in Payload :
        /\ Merge(g, p) \in Graph
        /\ Edits(g, p) \subseteq Node

ASSUME ChangeAssumption == NoChange \notin ChangeId

ASSUME BoundAssumption == MaxDepth \in Nat \ {0} /\ MaxQueue \in Nat

VARIABLES
    live,    \* Cache._snapshot
    snap,    \* the CacheSnapshot objects still referred to
    stack    \* the running CacheTransactions, innermost last

vars == <<live, snap, stack>>

-----------------------------------------------------------------------------
(* Snapshots and transactions.                                             *)

\* `shown' is auxiliary: the updates that were merged to make `optimistic'.
\* It differs from `queue' in an object whose queue was replaced in place.
\* So is `lagging': readers still see an update that an earlier rollback, or a
\* failed one of this transaction, took out of the live queue.
CacheSnapshot ==
    [baseline : Graph, optimistic : Graph, queue : Seq(Update), shown : Seq(Update)]

Transaction ==
    [changeId : ChangeId \cup {NoChange},
     snapshot : SnapId,                      \* _snapshot
     parent   : Graph,                       \* what getPreviousNodeSnapshot reads
     edited   : SUBSET Node,                 \* _editedNodeIds
     deltas   : Seq(Payload),                \* _deltas
     phase    : {"callback", "updaters"},
     updaters : SUBSET Node,                 \* nodesToEmit still to be emitted
     raised   : BOOLEAN,                     \* an exception is propagating
     lagging  : BOOLEAN]                     \* see below

top     == stack[Len(stack)]
current == snap[top.snapshot]

WithTop(t) == [stack EXCEPT ![Len(stack)] = t]
Popped     == SubSeq(stack, 1, Len(stack) - 1)

\* The graph that a transaction's reads and writes are against.
GraphOf(t) ==
    IF t.changeId = NoChange THEN snap[t.snapshot].baseline
                             ELSE snap[t.snapshot].optimistic

Held(l, st)     == {l} \cup {st[i].snapshot : i \in 1..Len(st)}
Put(h, s, v)    == [r \in DOMAIN h \cup {s} |-> IF r = s THEN v ELSE h[r]]

\* The next state; snapshots nothing refers to any more are collected.
Store(h, l, st) ==
    /\ live' = l
    /\ stack' = st
    /\ snap' = Restrict(h, Held(l, st))

Fresh == SnapId \ DOMAIN snap

\* The innermost transaction goes on as t, with the new snapshot v.
Advance(h, t, v) ==
    \E s \in Fresh :
        Store(Put(h, s, v), live, WithTop([t EXCEPT !.snapshot = s]))

\* An exception leaves the call that the innermost transaction, now t, made.
Raise(t) ==
    /\ stack' = WithTop([t EXCEPT !.raised = TRUE])
    /\ UNCHANGED <<live, snap>>

\* Application code runs inside the innermost transaction.
Running ==
    /\ stack # <<>>
    /\ ~top.raised
    /\ top.phase = "callback" \/ top.updaters # {}

\* Application code may call the cache.
CanCall == stack = <<>> \/ ("nest" \in Usage /\ Running)

-----------------------------------------------------------------------------
(* The actions.                                                            *)

Init ==
    \E s \in SnapId :
        /\ live = s
        /\ snap = [r \in {s} |-> [baseline |-> EmptyGraph, optimistic |-> EmptyGraph,
                                  queue |-> <<>>, shown |-> <<>>]]
        /\ stack = <<>>

\* Cache.transaction starts: it captures the live snapshot.
Begin(c) ==
    /\ CanCall
    /\ Len(stack) < MaxDepth
    /\ stack' = Append(stack,
         [changeId |-> c, snapshot |-> live,
          parent |-> IF c = NoChange THEN snap[live].baseline ELSE snap[live].optimistic,
          edited |-> {}, deltas |-> <<>>, phase |-> "callback",
          updaters |-> {}, raised |-> FALSE,
          lagging |-> snap[live].queue # snap[live].shown])
    /\ UNCHANGED <<live, snap>>

\* Mutant: the payload is merged over the optimistic graph, not under it.
WriteBaselineOnTop(p) ==
    /\ Running
    /\ top.changeId = NoChange
    /\ ~Rejects(current.baseline, p)
    /\ Advance(snap,
         [top EXCEPT !.edited = @ \cup Edits(current.baseline, p) \cup Edits(current.optimistic, p)],
         [current EXCEPT !.baseline = Merge(@, p), !.optimistic = Merge(@, p)])

\* A write that is not optimistic: the payload goes into the baseline and
\* the queue is replayed over the result.
WriteBaseline(p) ==
    /\ Running
    /\ top.changeId = NoChange
    /\ ~Rejects(current.baseline, p)
    /\ LET baseline == Merge(current.baseline, p)
       IN  /\ ~ReplayThrows(current.queue, baseline)
           /\ Advance(snap,
                [top EXCEPT !.edited = @ \cup Edits(current.baseline, p)
                                         \cup ReplayEdits(current.queue, baseline)],
                [baseline |-> baseline, optimistic |-> Expressed(current.queue, baseline),
                 queue |-> current.queue, shown |-> current.queue])

\* The payload is rejected; the transaction is as before the write.
WriteBaselineRejected(p) ==
    /\ Running
    /\ top.changeId = NoChange
    /\ Rejects(current.baseline, p)
    /\ Raise(top)

\* The payload is merged but the replay throws; only the edited ids stay.
WriteBaselineNotReplayed(p) ==
    /\ Running
    /\ top.changeId = NoChange
    /\ ~Rejects(current.baseline, p)
    /\ ReplayThrows(current.queue, Merge(current.baseline, p))
    /\ Raise([top EXCEPT !.edited = @ \cup Edits(current.baseline, p)])

\* An optimistic write: the delta is recorded before the payload is merged.
WriteOptimistic(p) ==
    /\ Running
    /\ top.changeId # NoChange
    /\ Len(current.shown) + Len(top.deltas) < MaxQueue
    /\ LET t == [top EXCEPT !.deltas = Append(@, p)]
       IN  \/ /\ ~Rejects(current.optimistic, p)
              /\ Advance(snap, [t EXCEPT !.edited = @ \cup Edits(current.optimistic, p)],
                               [current EXCEPT !.optimistic = Merge(@, p)])
           \/ /\ Rejects(current.optimistic, p)
              /\ Raise(t)

\* Mutant: only what the replay edits is reported as edited.
RollbackReplayEdits(c) ==
    /\ Running
    /\ top.phase = "callback"
    /\ LET queue == Remove(current.queue, c)
       IN  /\ ~ReplayThrows(queue, current.baseline)
           /\ Advance([snap EXCEPT ![top.snapshot].queue = queue],
                [top EXCEPT !.edited = @ \cup ReplayEdits(queue, current.baseline)],
                [baseline |-> current.baseline,
                 optimistic |-> Expressed(queue, current.baseline),
                 queue |-> queue, shown |-> queue])

\* CacheTransaction.rollback: the queue of the snapshot at hand is replaced
\* in place, then replayed; on success a new snapshot takes over.
Rollback(c) ==
    /\ Running
    /\ top.phase = "callback"
    /\ top.changeId # NoChange /\ top.deltas # <<>> => "mix" \in Usage
    /\ LET queue == Remove(current.queue, c)
           heap  == [snap EXCEPT ![top.snapshot].queue = queue]
       IN  \/ /\ ~ReplayThrows(queue, current.baseline)
              /\ Advance(heap,
                   [top EXCEPT !.edited = @ \cup NodeIds(current.optimistic)
                                            \cup ReplayEdits(queue, current.baseline)],
                   [baseline |-> current.baseline,
                    optimistic |-> Expressed(queue, current.baseline),
                    queue |-> queue, shown |-> queue])
           \/ /\ ReplayThrows(queue, current.baseline)
              /\ snap' = heap
              /\ stack' = WithTop([top EXCEPT !.raised = TRUE,
                                              !.lagging = @ \/ top.snapshot = live])
              /\ UNCHANGED live

\* Application code catches the exception and carries on, or throws one.
Catch ==
    /\ "catch" \in Usage
    /\ stack # <<>>
    /\ top.raised
    /\ stack' = WithTop([top EXCEPT !.raised = FALSE])
    /\ UNCHANGED <<live, snap>>

Throw ==
    /\ "throw" \in Usage
    /\ Running
    /\ Raise(top)

\* Mutant: what was written before the callback threw stays.
AbortWritten ==
    /\ stack # <<>>
    /\ top.raised
    /\ top.phase = "callback"
    /\ Store(snap, top.snapshot, Popped)

\* The callback threw: Cache.transaction returns false, nothing is committed.
Abort ==
    /\ stack # <<>>
    /\ top.raised
    /\ top.phase = "callback"
    /\ Store(snap, live, Popped)

\* An entity updater threw: nothing is committed either, but the exception
\* leaves Cache.transaction and reaches the code that called it.
Escape ==
    /\ stack # <<>>
    /\ top.raised
    /\ top.phase = "updaters"
    /\ Store(snap, live,
         [i \in 1..(Len(stack) - 1) |->
            IF i = Len(stack) - 1 THEN [stack[i] EXCEPT !.raised = TRUE] ELSE stack[i]])

\* The callback returned; commit first triggers the entity updaters of the
\* edited nodes that exist now or existed before.
CallbackReturns ==
    /\ Running
    /\ top.phase = "callback"
    /\ stack' = WithTop([top EXCEPT
         !.phase = "updaters",
         !.updaters = top.edited \cap HasUpdater
                        \cap (NodeIds(GraphOf(top)) \cup NodeIds(top.parent))])
    /\ UNCHANGED <<live, snap>>

UpdaterReturns ==
    /\ Running
    /\ \E n \in top.updaters :
         stack' = WithTop([top EXCEPT !.updaters = @ \ {n}])
    /\ UNCHANGED <<live, snap>>

\* Mutant: the update is appended to the queue that is live by now.
CommitToLive ==
    /\ stack # <<>>
    /\ ~top.raised
    /\ top.phase = "updaters"
    /\ top.updaters = {}
    /\ \E s \in Fresh :
         Store(Put(snap, s, [current EXCEPT
                               !.queue = Enqueue(snap[live].queue, top.changeId, top.deltas),
                               !.shown = Enqueue(snap[live].shown, top.changeId, top.deltas)]),
               s, Popped)

\* The rest of commit, and the cache pointed to the result (_setSnapshot).
Commit ==
    /\ stack # <<>>
    /\ ~top.raised
    /\ top.phase = "updaters"
    /\ top.updaters = {}
    /\ \/ /\ top.changeId = NoChange
          /\ Store(snap, top.snapshot, Popped)
       \/ /\ top.changeId # NoChange
          /\ \E s \in Fresh :
               Store(Put(snap, s, [current EXCEPT
                                     !.queue = Enqueue(@, top.changeId, top.deltas),
                                     !.shown = Enqueue(@, top.changeId, top.deltas)]),
                     s, Popped)

\* Cache.restore, and Cache.reset as the restore of the empty graph.
Replace(g) ==
    /\ CanCall
    /\ \E s \in Fresh :
         Store(Put(snap, s, [baseline |-> g, optimistic |-> g, queue |-> <<>>, shown |-> <<>>]),
               s, stack)

\* Mutant: the ids of the baseline only.
ResetBaselineEdits == NodeIds(snap[live].baseline)

\* The node ids that a reset tells observers of: all that were there.
ResetEdits == NodeIds(snap[live].optimistic)

Restore == \E g \in Restorable : Replace(g)
Reset   == Replace(EmptyGraph)

Next ==
    \/ \E c \in ChangeId \cup {NoChange} : Begin(c)
    \/ \E p \in Payload : WriteBaseline(p)
    \/ \E p \in Payload : WriteBaselineRejected(p)
    \/ \E p \in Payload : WriteBaselineNotReplayed(p)
    \/ \E p \in Payload : WriteOptimistic(p)
    \/ \E c \in ChangeId : Rollback(c)
    \/ Catch
    \/ Throw
    \/ Abort
    \/ Escape
    \/ CallbackReturns
    \/ UpdaterReturns
    \/ Commit
    \/ Restore
    \/ Reset

Spec == Init /\ [][Next]_vars

-----------------------------------------------------------------------------
(* Properties.                                                             *)

\* Every transaction and the cache refer to snapshots that exist, and those
\* have their types.
TypeOK ==
    /\ live \in DOMAIN snap
    /\ DOMAIN snap \subseteq SnapId
    /\ \A s \in DOMAIN snap : snap[s] \in CacheSnapshot
    /\ stack \in Seq(Transaction)
    /\ Len(stack) <= MaxDepth
    /\ \A i \in 1..Len(stack) : stack[i].snapshot \in DOMAIN snap

\* The optimistic graph the cache serves is its baseline with the updates that
\* readers are shown replayed over it, in order, after any mixture of commits,
\* rollbacks, refused writes and aborted transactions.  Those are the updates
\* of the queue, and the ones that a rollback took out of it before it failed.
OptimisticIsReplay ==
    snap[live].optimistic = Expressed(snap[live].shown, snap[live].baseline)

\* Merging the queue into g, one delta after another, rejects none.
Merges(q, g) ==
    LET graphs == Replay(q, g)
    IN  \A i \in 1..Len(q) : ~Rejects(graphs[i - 1], q[i].delta)

\* Every delta of the updates that readers are shown still merges into what
\* the ones before it made of the baseline: _buildOptimisticSnapshot ran, or
\* the delta was merged there, before the two got to the live snapshot.
ShownMerges == Merges(snap[live].shown, snap[live].baseline)

\* The sequence q is w without some of its members.
Subsequence(q, w) ==
    \E f \in [1..Len(q) -> 1..Len(w)] :
        /\ \A i, j \in 1..Len(q) : i < j => f[i] < f[j]
        /\ \A i \in 1..Len(q) : q[i] = w[f[i]]

\* Nothing is queued that readers of the snapshot do not see, and what is
\* queued has the order in which it was merged: _queue and the optimistic
\* graph of a CacheSnapshot are replaced by different statements, and a
\* rollback replaces the first alone, in an object that others refer to.
QueueIsShown == \A s \in DOMAIN snap : Subsequence(snap[s].queue, snap[s].shown)

\* What docs/Architecture.md says: whenever the queue has changed, the
\* optimistic graph is the replay of it; here, once no transaction runs.  A
\* rollback assigns to the live snapshot's queue, and if it or its transaction
\* then throws the two stay apart.
QueueIsReplayed ==
    stack = <<>> =>
        snap[live].optimistic = Expressed(snap[live].queue, snap[live].baseline)

\* What makes ShownMerges and OptimisticIsReplay inductive: a running
\* transaction's snapshot shows the updates it started from and, after them,
\* the deltas that the transaction has written so far, and all of them merge;
\* unless a write has just thrown, which records its delta and does not merge
\* it.
ShowsDeltas(t) ==
    LET s == snap[t.snapshot]
        q == Enqueue(s.shown, t.changeId, t.deltas)
    IN  /\ t.changeId = NoChange => t.deltas = <<>>
        /\ ~t.raised => s.optimistic = Expressed(q, s.baseline) /\ Merges(q, s.baseline)

ReplayInv ==
    /\ OptimisticIsReplay
    /\ ShownMerges
    /\ \A i \in 1..Len(stack) : ShowsDeltas(stack[i])

\* The queue that the live snapshot shows can be replayed over its baseline,
\* so that a later write or rollback is not refused because of it.
QueueCanBeReplayed == ~ReplayThrows(snap[live].shown, snap[live].baseline)
=============================================================================
