------------------------- MODULE AtomicTransactions -------------------------
(***************************************************************************)
(* CacheTransactions as an implementation of AtomicCache: what the live    *)
(* snapshot holds is the state of the atomic cache.                        *)
(***************************************************************************)
EXTENDS CacheTransactions

CONSTANTS
    WriteCount,      \* how many payloads a baseline transaction may write
    PayloadLists     \* what an optimistic transaction may write, in order

Atomic == INSTANCE AtomicCache WITH
    baseline   <- snap[live].baseline,
    optimistic <- snap[live].optimistic,
    shown      <- snap[live].shown,
    queue      <- snap[live].queue

\* Transactions that run one after the other are atomic: what the cache
\* serves goes from one state to the next as if each of them were a single
\* step, whatever writes were refused, rollbacks failed and callbacks threw
\* in between (Cache.transaction, CacheTransaction.commit, _setSnapshot).
IsAtomic == Atomic!Spec

-----------------------------------------------------------------------------
(* What a transaction at hand has to do with the live snapshot.            *)

\* The snapshot shows its queue, which can be replayed over its baseline.
Remade(v) == v.shown = v.queue /\ ~ReplayThrows(v.queue, v.baseline)

\* The snapshot v of transaction t can take the place of the live one, l, in
\* one step: its queue is that of l without the updates that were rolled
\* back, its baseline that of l with the payloads that were written, and
\* only an optimistic transaction leaves what l shows as it is.
Committable(t, v, l) ==
    /\ \E ids \in SUBSET ChangeId : v.queue = Atomic!Without(l.queue, ids)
    /\ IF t.changeId = NoChange
       THEN \E n \in WriteCount : v.baseline \in Atomic!After(n, l.baseline)
       ELSE v.baseline = l.baseline
    /\ \/ v = l
       \/ Remade(v)
       \/ t.changeId # NoChange /\ v.shown = l.shown /\ v.queue = l.queue

\* What makes every step of a transaction one of AtomicCache or none: one
\* transaction runs at a time, and can be committed unless it has thrown.
AtomicInv ==
    /\ Len(stack) <= 1
    /\ stack # <<>> /\ ~top.raised => Committable(top, current, snap[live])
=============================================================================
