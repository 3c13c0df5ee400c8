----------------------------- MODULE AtomicCache -----------------------------
(***************************************************************************)
(* What a cache promises to code that runs one transaction after another:  *)
(* a transaction takes place as one step or not at all.  The step puts all *)
(* the writes of the transaction into the baseline, or into the queue if   *)
(* it is optimistic, takes out of the queue the updates it rolled back,    *)
(* and makes the optimistic graph anew.                                    *)
(*                                                                         *)
(* Not so the queue: a rollback has an effect that a transaction which is  *)
(* not committed leaves behind, see RollbackBegins.                        *)
(***************************************************************************)
EXTENDS OptimisticUpdateQueue

CONSTANTS
    Graph,
    EmptyGraph,
    Restorable,     \* graphs that restore may be given
    WriteCount,     \* how many payloads a baseline transaction may write
    PayloadLists    \* what an optimistic transaction may write, in order

VARIABLES
    baseline,       \* what the server confirmed
    optimistic,     \* what readers see
    shown,          \* the updates that readers see
    queue           \* the updates that will be replayed

vars == <<baseline, optimistic, shown, queue>>

Without(q, ids) ==
    LET kept[i \in 0..Len(q)] ==
            IF i = 0 THEN <<>>
            ELSE IF q[i].id \in ids THEN kept[i - 1] ELSE Append(kept[i - 1], q[i])
    IN  kept[Len(q)]

\* The graphs that n payloads, one after another, can make of g.
After(n, g) ==
    LET graphs[i \in 0..n] ==
            IF i = 0 THEN {g}
            ELSE UNION {{Merge(h, p) : p \in {x \in Payload : ~Rejects(h, x)}} :
                          h \in graphs[i - 1]}
    IN  graphs[n]

Init ==
    /\ baseline = EmptyGraph /\ optimistic = EmptyGraph
    /\ shown = <<>> /\ queue = <<>>

BaselineTransaction(ids) ==
    LET rest == Without(queue, ids)
    IN  /\ shown' = rest /\ queue' = rest
        /\ \E n \in WriteCount : baseline' \in After(n, baseline)
        /\ ~ReplayThrows(rest, baseline')
        /\ optimistic' = Expressed(rest, baseline')

\* A transaction that rolls nothing back adds to what is shown.
OptimisticTransaction(c, deltas) ==
    /\ shown' = Enqueue(shown, c, deltas) /\ queue' = Enqueue(queue, c, deltas)
    /\ optimistic' = Expressed(shown', baseline)
    /\ UNCHANGED baseline

\* The updates that were rolled back go before the new one is made, and may
\* be earlier ones of the same id.
OptimisticReplacement(c, ids, deltas) ==
    LET rest == Without(queue, ids)
    IN  /\ ~ReplayThrows(rest, baseline)
        /\ shown' = Enqueue(rest, c, deltas) /\ queue' = shown'
        /\ optimistic' = Expressed(shown', baseline)
        /\ UNCHANGED baseline

\* A rollback takes its update out of the queue at once.  When its replay
\* fails, or the transaction it is part of does, the update stays away from
\* later replays although readers have not seen it go.
RollbackBegins(c) ==
    /\ queue' = Without(queue, {c})
    /\ UNCHANGED <<baseline, optimistic, shown>>

Replace(g) ==
    /\ baseline' = g /\ optimistic' = g
    /\ shown' = <<>> /\ queue' = <<>>

Next ==
    \/ \E ids \in SUBSET ChangeId : BaselineTransaction(ids)
    \/ \E c \in ChangeId, deltas \in PayloadLists :
         \/ OptimisticTransaction(c, deltas)
         \/ \E ids \in SUBSET ChangeId : OptimisticReplacement(c, ids, deltas)
    \/ \E c \in ChangeId : RollbackBegins(c)
    \/ \E g \in Restorable \cup {EmptyGraph} : Replace(g)

Spec == Init /\ [][Next]_vars
=============================================================================
