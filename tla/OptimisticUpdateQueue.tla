------------------------ MODULE OptimisticUpdateQueue ------------------------
(***************************************************************************)
(* The queue of optimistic updates (OptimisticUpdateQueue.ts).  An         *)
(* OptimisticUpdate is the run of entries that carry its id.  What a       *)
(* payload does to a graph is a parameter; EntityGraph gives it the        *)
(* meaning SnapshotEditor.ts has.                                          *)
(***************************************************************************)
EXTENDS Integers, Sequences

CONSTANTS
    Payload,         \* what one write merges: a query and its payload
    Merge(_, _),     \* the graph that a payload merged into a graph makes
    Rejects(_, _),   \* merging the payload into the graph throws
    Edits(_, _),     \* the node ids the merge reports as edited
    Drops(_, _),     \* the nodes the merge garbage collects
    Mentions(_),     \* the nodes the payload writes to
    ChangeId         \* ids of optimistic updates

Update == [id : ChangeId, delta : Payload]

\* Mutant: the deltas of an update are one entry.
EnqueueWhole(q, c, deltas) == Append(q, [id |-> c, deltas |-> deltas])

\* Appends an update: its deltas in the order they were written.
Enqueue(q, c, deltas) ==
    q \o [i \in 1..Len(deltas) |-> [id |-> c, delta |-> deltas[i]]]

\* Mutant: the entries that stay are put in front.
RemoveReversed(q, c) ==
    LET kept[i \in 0..Len(q)] ==
            IF i = 0 THEN <<>>
            ELSE IF q[i].id = c THEN kept[i - 1] ELSE <<q[i]>> \o kept[i - 1]
    IN  kept[Len(q)]

\* The queue without the updates of one id, in the same order.
Remove(q, c) ==
    LET kept[i \in 0..Len(q)] ==
            IF i = 0 THEN <<>>
            ELSE IF q[i].id = c THEN kept[i - 1] ELSE Append(kept[i - 1], q[i])
    IN  kept[Len(q)]

\* The graphs that merging the queue into g goes through.
Replay(q, g) ==
    LET graphs[i \in 0..Len(q)] ==
            IF i = 0 THEN g ELSE Merge(graphs[i - 1], q[i].delta)
    IN  graphs

\* The values the queue expresses on top of g.
Expressed(q, g) == Replay(q, g)[Len(q)]

\* Mutant: a delta that is rejected is merged all the same.
ReplayThrowsOnCollected(q, g) ==
    LET graphs == Replay(q, g)
    IN  \E i \in 1..Len(q) : \E j \in 1..(i - 1) :
          Drops(graphs[j - 1], q[j].delta) \cap Mentions(q[i].delta) # {}

\* A replay uses one editor for the whole queue.  It throws where a delta
\* is rejected, and where a delta writes to a node that an earlier one
\* garbage collected: the editor keeps `undefined' for it, and assigns to
\* its data.
ReplayThrows(q, g) ==
    LET graphs == Replay(q, g)
    IN  \E i \in 1..Len(q) :
          \/ Rejects(graphs[i - 1], q[i].delta)
          \/ \E j \in 1..(i - 1) :
               Drops(graphs[j - 1], q[j].delta) \cap Mentions(q[i].delta) # {}

ReplayEdits(q, g) ==
    LET graphs == Replay(q, g)
    IN  UNION {Edits(graphs[i - 1], q[i].delta) : i \in 1..Len(q)}
=============================================================================
