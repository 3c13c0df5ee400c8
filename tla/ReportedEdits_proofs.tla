------------------------- MODULE ReportedEdits_proofs -------------------------
(***************************************************************************)
(* Proofs that the edited ids cover what readers see, for transactions     *)
(* that run one after the other: whatever graphs and cells are, whatever   *)
(* application code catches, throws and rolls back.                        *)
(***************************************************************************)
EXTENDS ReportedEdits, CacheTransactions_proofs

-----------------------------------------------------------------------------
(* Cells of one merge.                                                     *)

\* A cell has a value only in a node that the graph has.
LEMMA CellInNode ==
    ASSUME NEW g \in Graph, NEW n \in Node, NEW f \in Field, Cell(g, n, f) # NoValue
    PROVE  n \in NodeIds(g)
BY CellAssumption DEF CellsInNodes

\* A merge leaves alone what it does not report.
LEMMA CellUnedited ==
    ASSUME NEW g \in Graph, NEW p \in Payload, ~Rejects(g, p),
           NEW n \in Node, n \notin Edits(g, p), NEW f \in Field
    PROVE  /\ Cell(Merge(g, p), n, f) = Cell(g, n, f)
           /\ Sets(p, n, f) \in {NoValue, Cell(g, n, f)}
<1>1. Drops(g, p) \subseteq Edits(g, p)
  BY CellAssumption DEF MergesByCells
<1>2. Cell(Merge(g, p), n, f) = Cell(g, n, f)
  BY CellAssumption DEF MergesByCells
<1>3. Sets(p, n, f) # NoValue => Cell(Merge(g, p), n, f) = Sets(p, n, f)
  BY <1>1, CellAssumption DEF MergesByCells
<1>4. QED
  BY <1>2, <1>3

\* A merged cell is empty, or was there, or is one that the payload sets.
LEMMA CellMerged ==
    ASSUME NEW g \in Graph, NEW p \in Payload, ~Rejects(g, p),
           NEW n \in Node, NEW f \in Field
    PROVE  Cell(Merge(g, p), n, f) \in {NoValue, Cell(g, n, f), Sets(p, n, f)}
BY CellAssumption DEF MergesByCells

-----------------------------------------------------------------------------
(* Cells of a replay.                                                      *)

\* A step of a replay, of a queue that merges.
LEMMA ReplayStep ==
    ASSUME NEW q \in Seq(Update), NEW g \in Graph, Merges(q, g), NEW i \in 1..Len(q)
    PROVE  /\ Replay(q, g)[i - 1] \in Graph
           /\ q[i].delta \in Payload
           /\ ~Rejects(Replay(q, g)[i - 1], q[i].delta)
           /\ Replay(q, g)[i] = Merge(Replay(q, g)[i - 1], q[i].delta)
<1> DEFINE n == Len(q)
           k == Replay(q, g)
<1>1. n \in Nat /\ q[i] \in Update
  BY LenProperties, ElementOfSeq
<1>2. i - 1 \in 0..n
  BY <1>1
<1>3. /\ k \in [0..n -> Graph]
      /\ \A j \in 1..n : k[j] = Merge(k[j - 1], q[j].delta)
  BY ReplayGraphs
<1>4. ~Rejects(k[i - 1], q[i].delta)
  BY DEF Merges
<1>5. q[i].delta \in Payload
  BY <1>1 DEF Update
<1> HIDE DEF n, k
<1>6. k[i - 1] \in Graph
  BY <1>2, <1>3
<1>7. k[i] = Merge(k[i - 1], q[i].delta)
  BY <1>3 DEF n
<1>8. QED
  BY <1>4, <1>5, <1>6, <1>7 DEF k

\* What the replay does not report is in every graph on its way as it was in
\* the first, and no delta sets it to something else.
LEMMA ReplayUnedited ==
    ASSUME NEW q \in Seq(Update), NEW g \in Graph, Merges(q, g),
           NEW n \in Node, n \notin ReplayEdits(q, g), NEW f \in Field
    PROVE  /\ Cell(Expressed(q, g), n, f) = Cell(g, n, f)
           /\ \A i \in 1..Len(q) : Sets(q[i].delta, n, f) \in {NoValue, Cell(g, n, f)}
<1> DEFINE m == Len(q)
           k == Replay(q, g)
           c == Cell(g, n, f)
           T == {i \in 0..m : Cell(k[i], n, f) = c}
<1>1. m \in Nat /\ k[0] = g
  BY LenProperties, ReplayGraphs
<1>2. ASSUME NEW i \in 1..m, Cell(k[i - 1], n, f) = c
      PROVE  Cell(k[i], n, f) = c /\ Sets(q[i].delta, n, f) \in {NoValue, c}
  <2>1. n \notin Edits(k[i - 1], q[i].delta)
    BY DEF ReplayEdits
  <2>2. /\ k[i - 1] \in Graph /\ q[i].delta \in Payload
        /\ ~Rejects(k[i - 1], q[i].delta)
        /\ k[i] = Merge(k[i - 1], q[i].delta)
    BY ReplayStep
  <2> HIDE DEF k, m, c
  <2>3. QED BY <1>2, <2>1, <2>2, CellUnedited
<1>3. 0 \in T
  BY <1>1
<1>4. \A i \in 1..m : i - 1 \in T => i \in T
  <2>1. SUFFICES ASSUME NEW i \in 1..m, i - 1 \in T PROVE i \in T
    OBVIOUS
  <2>2. i \in 0..m
    BY <1>1
  <2>3. Cell(k[i - 1], n, f) = c
    BY <2>1
  <2>4. Cell(k[i], n, f) = c
    <3> HIDE DEF k, c, m
    <3>1. QED BY <1>2, <2>3
  <2>5. QED BY <2>2, <2>4
<1>5. \A i \in 0..m : i \in T
  <2> HIDE DEF T, m
  <2>1. QED BY <1>1, <1>3, <1>4, UpTo
<1>6. \A i \in 0..m : Cell(k[i], n, f) = c
  BY <1>5
<1>7. \A i \in 1..m : i - 1 \in 0..m
  BY <1>1
<1>8. m \in 0..m
  BY <1>1
<1> HIDE DEF k, c, m
<1>9. \A i \in 1..m : Sets(q[i].delta, n, f) \in {NoValue, c}
  BY <1>2, <1>6, <1>7
<1>10. Cell(k[m], n, f) = c
  BY <1>6, <1>8
<1>11. QED
  BY <1>9, <1>10 DEF k, c, m, Expressed

\* Whatever a replay makes was there before, or a delta has set it.
LEMMA ReplaySources ==
    ASSUME NEW q \in Seq(Update), NEW g \in Graph, Merges(q, g),
           NEW n \in Node, NEW f \in Field
    PROVE  Cell(Expressed(q, g), n, f)
             \in {NoValue, Cell(g, n, f)} \cup {Sets(q[i].delta, n, f) : i \in 1..Len(q)}
<1> DEFINE m == Len(q)
           k == Replay(q, g)
           C == {NoValue, Cell(g, n, f)} \cup {Sets(q[i].delta, n, f) : i \in 1..m}
           T == {i \in 0..m : Cell(k[i], n, f) \in C}
<1>1. m \in Nat /\ k[0] = g
  BY LenProperties, ReplayGraphs
<1>2. 0 \in T
  BY <1>1
<1>3. \A i \in 1..m : i - 1 \in T => i \in T
  <2>1. SUFFICES ASSUME NEW i \in 1..m, i - 1 \in T PROVE i \in T
    OBVIOUS
  <2>2. i \in 0..m
    BY <1>1
  <2>3. Cell(k[i - 1], n, f) \in C /\ NoValue \in C /\ Sets(q[i].delta, n, f) \in C
    BY <2>1
  <2>4. /\ k[i - 1] \in Graph /\ q[i].delta \in Payload
        /\ ~Rejects(k[i - 1], q[i].delta)
        /\ k[i] = Merge(k[i - 1], q[i].delta)
    BY ReplayStep
  <2>5. Cell(k[i], n, f) \in C
    <3> HIDE DEF k, C, m
    <3>1. Cell(k[i], n, f) \in {NoValue, Cell(k[i - 1], n, f), Sets(q[i].delta, n, f)}
      BY <2>4, CellMerged
    <3>2. QED BY <2>3, <3>1
  <2>6. QED BY <2>2, <2>5
<1>4. \A i \in 0..m : i \in T
  <2> HIDE DEF T, m
  <2>1. QED BY <1>1, <1>2, <1>3, UpTo
<1>5. m \in 0..m
  BY <1>1
<1>6. Cell(k[m], n, f) \in C
  BY <1>4, <1>5
<1>7. QED
  BY <1>6 DEF Expressed

-----------------------------------------------------------------------------
(* What is in an optimistic graph, and what its queue says of it.          *)

\* Updates are only added.
Extends(r, q) == \A i \in 1..Len(q) : i \in 1..Len(r) /\ r[i] = q[i]

LEMMA EnqueueExtends ==
    ASSUME NEW q \in Seq(Update), NEW c, NEW deltas \in Seq(Payload)
    PROVE  Extends(Enqueue(q, c, deltas), q)
<1> DEFINE e == [i \in 1..Len(deltas) |-> [id |-> c, delta |-> deltas[i]]]
           n == Len(q)
           m == Len(deltas)
<1>1. m \in Nat /\ n \in Nat
  BY LenProperties
<1>2. Len(e) = m /\ e \in Seq(Range(e))
  <2> DEFINE S == Range(e)
  <2>1. \A i \in 1..m : [id |-> c, delta |-> deltas[i]] \in S
    BY DEF Range
  <2>2. DOMAIN e = 1..m
    OBVIOUS
  <2> HIDE DEF S
  <2>3. e \in Seq(S)
    BY <1>1, <2>1, IsASeq
  <2> HIDE DEF e, m
  <2>4. Len(e) = m
    BY <1>1, <2>2, <2>3, LenProperties
  <2>5. QED BY <2>3, <2>4 DEF S
<1>3. /\ Len(q \o e) = n + m
      /\ \A i \in 1..(n + m) : (q \o e)[i] = IF i <= n THEN q[i] ELSE e[i - n]
  <2> HIDE DEF e
  <2>1. q \in Seq(Update \cup Range(e)) /\ e \in Seq(Update \cup Range(e))
    BY <1>2
  <2>2. QED BY <1>2, <2>1
<1>4. \A i \in 1..n : i \in 1..(n + m) /\ i <= n
  BY <1>1
<1> HIDE DEF e, n, m
<1>5. \A i \in 1..n : i \in 1..Len(q \o e) /\ (q \o e)[i] = q[i]
  BY <1>3, <1>4
<1>6. QED
  BY <1>5 DEF Extends, Enqueue, e, n, m

LEMMA AppendExtends ==
    ASSUME NEW q \in Seq(Update), NEW u \in Update
    PROVE  Extends(Append(q, u), q)
<1> DEFINE n == Len(q)
<1>1. /\ n \in Nat /\ Len(Append(q, u)) = n + 1
      /\ \A i \in 1..n : Append(q, u)[i] = q[i]
  BY AppendProperties, LenProperties
<1>2. \A i \in 1..n : i \in 1..(n + 1)
  BY <1>1
<1>3. QED
  BY <1>1, <1>2 DEF Extends

LEMMA SourcedMore ==
    ASSUME NEW v, NEW w, w.baseline = v.baseline, w.optimistic = v.optimistic,
           NEW q, NEW r, Sourced(v, q), Extends(r, q)
    PROVE  Sourced(w, r)
<1>1. \A n \in Node, f \in Field :
        {Sets(q[i].delta, n, f) : i \in 1..Len(q)} \subseteq {Sets(r[i].delta, n, f) : i \in 1..Len(r)}
  BY DEF Extends
<1>2. QED
  BY <1>1 DEF Sourced

\* A replay is sourced from its queue.
LEMMA ReplaySourced ==
    ASSUME NEW q \in Seq(Update), NEW v, v.baseline \in Graph, Merges(q, v.baseline),
           v.optimistic = Expressed(q, v.baseline)
    PROVE  Sourced(v, q)
BY ReplaySources DEF Sourced

\* So is what one more delta makes.
LEMMA MergeSourced ==
    ASSUME NEW q \in Seq(Update), NEW u \in Update, NEW v, NEW w,
           v.optimistic \in Graph, ~Rejects(v.optimistic, u.delta), Sourced(v, q),
           w.baseline = v.baseline, w.optimistic = Merge(v.optimistic, u.delta)
    PROVE  Sourced(w, Append(q, u))
<1> DEFINE r == Append(q, u)
<1>1. Extends(r, q)
  BY AppendExtends
<1>2. Len(r) \in 1..Len(r) /\ r[Len(r)] = u
  <2>1. Len(q) \in Nat /\ Len(r) = Len(q) + 1 /\ r[Len(q) + 1] = u
    BY AppendProperties, LenProperties
  <2>2. QED BY <2>1
<1>3. u.delta \in Payload
  BY DEF Update
<1> HIDE DEF r
<1>4. SUFFICES ASSUME NEW n \in Node, NEW f \in Field
               PROVE  Cell(w.optimistic, n, f) \in
                        {NoValue, Cell(w.baseline, n, f)} \cup {Sets(r[i].delta, n, f) : i \in 1..Len(r)}
  BY DEF Sourced, r
<1>5. Sourced(v, r)
  BY <1>1, SourcedMore
<1>6. Cell(v.optimistic, n, f) \in
        {NoValue, Cell(w.baseline, n, f)} \cup {Sets(r[i].delta, n, f) : i \in 1..Len(r)}
  BY <1>5 DEF Sourced
<1>7. Sets(u.delta, n, f) \in {Sets(r[i].delta, n, f) : i \in 1..Len(r)}
  BY <1>2
<1>8. Cell(w.optimistic, n, f) \in {NoValue, Cell(v.optimistic, n, f), Sets(u.delta, n, f)}
  BY <1>3, CellMerged
<1>9. QED
  BY <1>6, <1>7, <1>8

-----------------------------------------------------------------------------
(* What a transaction has reported, operation by operation.                *)

\* What EditsInv says of a transaction t whose snapshot has the value v, where
\* the live one has l; `same' if it is the live one.
FrameOf(t, v, l, same) ==
    /\ t.changeId = NoChange => t.deltas = <<>>
    /\ Sourced(v, Enqueue(v.shown, t.changeId, t.deltas))
    /\ ~t.lagging =>
         /\ Reported(t.edited, v, l)
         /\ t.changeId = NoChange => (same /\ l.queue = l.shown) \/ Grounded(t.edited, l)

\* Reports only grow.
LEMMA ReportedMore ==
    ASSUME NEW E, NEW D, E \subseteq D, NEW v, NEW l, Reported(E, v, l)
    PROVE  Reported(D, v, l)
BY DEF Reported, Preserves

LEMMA GroundedMore ==
    ASSUME NEW E, NEW D, E \subseteq D, NEW l, Grounded(E, l)
    PROVE  Grounded(D, l)
BY DEF Grounded

\* A baseline write and the replay after it.
LEMMA BaselineReported ==
    ASSUME NEW v \in CacheSnapshot, NEW l \in CacheSnapshot, NEW E, NEW p \in Payload,
           ~Rejects(v.baseline, p),
           NEW b, b = Merge(v.baseline, p), ~ReplayThrows(v.queue, b),
           NEW D, D = E \cup Edits(v.baseline, p) \cup ReplayEdits(v.queue, b),
           NEW w, w.baseline = b, w.optimistic = Expressed(v.queue, b),
           Reported(E, v, l),
           (v = l /\ l.queue = l.shown /\ Sourced(l, l.shown)) \/ Grounded(E, l)
    PROVE  Grounded(D, l) /\ Reported(D, w, l)
<1> DEFINE q == v.queue
<1>1. q \in Seq(Update) /\ v.baseline \in Graph
  BY DEF CacheSnapshot
<1>2. b \in Graph /\ Merges(q, b)
  BY <1>1, MergeAssumption, ReplayMerges
<1> HIDE DEF q
<1>3. ASSUME NEW n \in Node \ D, NEW f \in Field
      PROVE  /\ Cell(b, n, f) = Cell(l.baseline, n, f)
             /\ Cell(w.optimistic, n, f) = Cell(b, n, f)
             /\ \A i \in 1..Len(q) : Sets(q[i].delta, n, f) \in {NoValue, Cell(b, n, f)}
  <2>1. n \notin E /\ n \notin Edits(v.baseline, p) /\ n \notin ReplayEdits(q, b)
    BY DEF q
  <2>2. Cell(b, n, f) = Cell(v.baseline, n, f)
    BY <1>1, <2>1, CellUnedited
  <2>3. Cell(v.baseline, n, f) = Cell(l.baseline, n, f)
    BY <2>1 DEF Reported
  <2>4. /\ Cell(Expressed(q, b), n, f) = Cell(b, n, f)
        /\ \A i \in 1..Len(q) : Sets(q[i].delta, n, f) \in {NoValue, Cell(b, n, f)}
    BY <1>1, <1>2, <2>1, ReplayUnedited
  <2>5. w.optimistic = Expressed(q, b)
    BY DEF q
  <2>6. QED BY <2>2, <2>3, <2>4, <2>5
<1>4. Grounded(D, l)
  <2>1. CASE Grounded(E, l)
    <3>1. E \subseteq D
      OBVIOUS
    <3>2. QED BY <2>1, <3>1, GroundedMore
  <2>2. CASE v = l /\ l.queue = l.shown /\ Sourced(l, l.shown)
    <3>1. SUFFICES ASSUME NEW n \in Node \ D, NEW f \in Field
                   PROVE  Cell(l.optimistic, n, f) \in {NoValue, Cell(l.baseline, n, f)}
      BY DEF Grounded
    <3>2. l.shown = q
      BY <2>2 DEF q
    <3>3. Cell(l.optimistic, n, f) \in
            {NoValue, Cell(l.baseline, n, f)} \cup {Sets(q[i].delta, n, f) : i \in 1..Len(q)}
      BY <2>2, <3>2 DEF Sourced
    <3>4. QED BY <1>3, <3>3
  <2>3. QED BY <2>1, <2>2
<1>5. Preserves(D, l.optimistic, w.optimistic)
  BY <1>3, <1>4 DEF Preserves, Grounded
<1>6. QED
  BY <1>3, <1>4, <1>5 DEF Reported

\* An optimistic write.
LEMMA OptimisticReported ==
    ASSUME NEW v, v.optimistic \in Graph, NEW l, NEW E, NEW p \in Payload,
           ~Rejects(v.optimistic, p), Reported(E, v, l),
           NEW w, w.baseline = v.baseline, w.optimistic = Merge(v.optimistic, p)
    PROVE  Reported(E \cup Edits(v.optimistic, p), w, l)
<1> DEFINE D == E \cup Edits(v.optimistic, p)
<1>1. ASSUME NEW n \in Node \ D, NEW f \in Field
      PROVE  /\ Cell(w.optimistic, n, f) = Cell(v.optimistic, n, f)
             /\ n \in Node \ E
  BY CellUnedited
<1>2. Preserves(D, l.optimistic, w.optimistic)
  BY <1>1 DEF Reported, Preserves
<1>3. \A n \in Node \ D, f \in Field : Cell(w.baseline, n, f) = Cell(l.baseline, n, f)
  BY DEF Reported
<1>4. QED
  BY <1>2, <1>3 DEF Reported

\* A rollback reports all that was there to be read.
LEMMA RollbackReported ==
    ASSUME NEW v, v.optimistic \in Graph, NEW l, NEW E, Reported(E, v, l),
           NEW D, E \cup NodeIds(v.optimistic) \subseteq D,
           NEW w, w.baseline = v.baseline
    PROVE  Grounded(D, l) /\ Reported(D, w, l)
<1>1. ASSUME NEW n \in Node \ D, NEW f \in Field
      PROVE  Cell(l.optimistic, n, f) = NoValue
  <2>1. n \in Node \ E /\ n \notin NodeIds(v.optimistic)
    OBVIOUS
  <2>2. Cell(v.optimistic, n, f) = NoValue
    BY <2>1, CellInNode
  <2>3. Cell(l.optimistic, n, f) # NoValue => Cell(v.optimistic, n, f) = Cell(l.optimistic, n, f)
    BY <2>1 DEF Reported, Preserves
  <2>4. QED BY <2>2, <2>3
<1>2. Grounded(D, l)
  BY <1>1 DEF Grounded
<1>3. Preserves(D, l.optimistic, w.optimistic)
  BY <1>1 DEF Preserves
<1>4. \A n \in Node \ D, f \in Field : Cell(w.baseline, n, f) = Cell(l.baseline, n, f)
  BY DEF Reported
<1>5. QED
  BY <1>2, <1>3, <1>4 DEF Reported

-----------------------------------------------------------------------------
(* The invariant, action by action.                                        *)

LEMMA TopFrame ==
    ASSUME TypeOK, EditsInv, stack # <<>>
    PROVE  /\ FrameOf(top, current, snap[live], top.snapshot = live)
           /\ Sourced(snap[live], snap[live].shown)
           /\ snap[live] \in CacheSnapshot /\ live \in DOMAIN snap
           /\ top \in Transaction /\ current \in CacheSnapshot
           /\ top.snapshot \in DOMAIN snap
<1>1. top \in Transaction /\ current \in CacheSnapshot /\ top.snapshot \in DOMAIN snap
  BY TopType
<1>2. FrameOf(top, current, snap[live], top.snapshot = live)
  BY DEF EditsInv, FrameOf
<1>3. QED
  BY <1>1, <1>2 DEF EditsInv, TypeOK

\* Nothing runs, and the live snapshot is sourced.
LEMMA NoneRunsEdits ==
    ASSUME stack' = <<>>, Sourced(snap'[live'], snap'[live'].shown)
    PROVE  EditsInv'
BY DEF EditsInv, Sourced

\* The transaction goes on as t.
LEMMA TopGoesOnEdits ==
    ASSUME TypeOK, EditsInv, stack # <<>>, NEW t \in Transaction,
           stack' = WithTop(t), live' = live,
           Sourced(snap'[live], snap'[live].shown),
           FrameOf(t, snap'[t.snapshot], snap'[live], t.snapshot = live)
    PROVE  EditsInv'
<1>1. /\ WithTop(t) \in Seq(Transaction)
      /\ Len(WithTop(t)) = Len(stack)
      /\ WithTop(t)[Len(stack)] = t
  BY WithTopType
<1>2. Len(stack') = 1 /\ stack'[1] = t
  BY <1>1, OneRuns DEF EditsInv
<1>3. top' = t /\ current' = snap'[t.snapshot]
  BY <1>2 DEF top, current
<1>4. QED
  BY <1>2, <1>3 DEF EditsInv, FrameOf, Sourced, Reported, Preserves, Grounded

\* It goes on with a new snapshot, over a heap in which the queues alone may
\* have changed.
LEMMA AdvanceEdits ==
    ASSUME TypeOK, EditsInv, stack # <<>>,
           NEW h, DOMAIN h = DOMAIN snap, SameShown(snap[live], h[live]),
           NEW t \in Transaction, NEW v, Advance(h, t, v),
           FrameOf(t, v, snap[live], FALSE)
    PROVE  EditsInv'
<1>1. PICK s \in Fresh : Store(Put(h, s, v), live, WithTop([t EXCEPT !.snapshot = s]))
  BY DEF Advance
<1> DEFINE u == [t EXCEPT !.snapshot = s]
           k == Put(h, s, v)
<1>2. s \in SnapId /\ s \notin DOMAIN snap /\ live \in DOMAIN snap
  BY <1>1 DEF Fresh, TypeOK
<1>3. /\ u \in Transaction
      /\ u.snapshot = s
      /\ u.changeId = t.changeId
      /\ u.edited = t.edited
      /\ u.deltas = t.deltas
      /\ u.lagging = t.lagging
  BY <1>2 DEF Transaction
<1>4. k[s] = v /\ k[live] = h[live]
  BY <1>2 DEF Put
<1> HIDE DEF u, k
<1>5. Store(k, live, WithTop(u))
  BY <1>1 DEF u, k
<1>6. /\ live' = live
      /\ stack' = WithTop(u)
      /\ \A r \in Held(live, WithTop(u)) : snap'[r] = k[r]
  BY <1>5, StoreHeap
<1>7. /\ Len(WithTop(u)) = Len(stack) /\ Len(stack) = 1
      /\ WithTop(u)[Len(stack)] = u
  BY <1>3, WithTopType, OneRuns DEF EditsInv
<1>8. live \in Held(live, WithTop(u)) /\ s \in Held(live, WithTop(u))
  BY <1>3, <1>7 DEF Held
<1>9. snap'[live] = h[live] /\ snap'[u.snapshot] = v
  BY <1>3, <1>4, <1>6, <1>8
<1> DEFINE l == snap'[live]
<1>10. l.baseline = snap[live].baseline /\ l.optimistic = snap[live].optimistic
       /\ l.shown = snap[live].shown
  BY <1>9 DEF SameShown
<1> HIDE DEF l
<1>11. Sourced(l, l.shown)
  BY <1>10, TopFrame DEF Sourced
<1>12. FrameOf(u, v, l, u.snapshot = live)
  BY <1>3, <1>10 DEF FrameOf, Reported, Preserves, Grounded
<1>13. QED
  BY <1>3, <1>6, <1>9, <1>11, <1>12, TopGoesOnEdits DEF l

\* Only how far the transaction is has changed, or it reports more.
LEMMA SameHeapEdits ==
    ASSUME TypeOK, EditsInv, stack # <<>>, NEW t \in Transaction,
           stack' = WithTop(t), UNCHANGED <<live, snap>>,
           t.snapshot = top.snapshot, t.changeId = top.changeId,
           t.deltas = top.deltas, t.lagging = top.lagging, top.edited \subseteq t.edited
    PROVE  EditsInv'
<1>1. FrameOf(top, current, snap[live], top.snapshot = live)
  BY TopFrame
<1>2. FrameOf(t, current, snap[live], top.snapshot = live)
  <2>1. Reported(top.edited, current, snap[live]) => Reported(t.edited, current, snap[live])
    BY ReportedMore
  <2>2. Grounded(top.edited, snap[live]) => Grounded(t.edited, snap[live])
    BY GroundedMore
  <2>3. QED BY <1>1, <2>1, <2>2 DEF FrameOf
<1>3. snap' = snap /\ live' = live
  OBVIOUS
<1>4. QED
  BY <1>2, <1>3, TopFrame, TopGoesOnEdits DEF current

LEMMA InitEdits == Init => EditsInv
<1>1. SUFFICES ASSUME NEW s \in SnapId, live = s, stack = <<>>,
                      snap = [r \in {s} |-> [baseline |-> EmptyGraph, optimistic |-> EmptyGraph,
                                             queue |-> <<>>, shown |-> <<>>]]
               PROVE  EditsInv
  BY DEF Init
<1>2. snap[live].optimistic = snap[live].baseline
  BY <1>1
<1>3. QED
  BY <1>1, <1>2 DEF EditsInv, Sourced

LEMMA BeginEdits ==
    ASSUME TypeOK, EditsInv, Sequential, NEW c \in ChangeId \cup {NoChange}, Begin(c)
    PROVE  EditsInv'
<1> DEFINE t == [changeId |-> c, snapshot |-> live,
                 parent |-> IF c = NoChange THEN snap[live].baseline
                                            ELSE snap[live].optimistic,
                 edited |-> {}, deltas |-> <<>>, phase |-> "callback",
                 updaters |-> {}, raised |-> FALSE,
                 lagging |-> snap[live].queue # snap[live].shown]
           l == snap[live]
<1>1. stack = <<>> /\ stack' = Append(stack, t) /\ snap' = snap /\ live' = live
  BY DEF Begin, CanCall, Sequential
<1>2. Len(stack') = 1 /\ stack'[1] = t
  BY <1>1
<1>3. l.shown \in Seq(Update) /\ l.baseline \in Graph
  BY DEF TypeOK, CacheSnapshot
<1>4. t.changeId = c /\ t.edited = {} /\ t.deltas = <<>> /\ t.snapshot = live
      /\ t.lagging = (l.queue # l.shown)
  OBVIOUS
<1> HIDE DEF t, l
<1>5. top' = t /\ current' = l
  BY <1>1, <1>2, <1>4 DEF top, current, l
<1>6. Sourced(l, Enqueue(l.shown, c, <<>>))
  BY <1>3, EnqueueNothing DEF EditsInv, l
<1>7. Reported({}, l, l)
  BY DEF Reported, Preserves
<1>8. FrameOf(t, l, l, TRUE)
  BY <1>4, <1>6, <1>7 DEF FrameOf
<1>9. Sourced(l, l.shown)
  BY DEF EditsInv, l
<1>10. snap'[live'] = l
  BY <1>1 DEF l
<1>11. QED
  BY <1>1, <1>2, <1>4, <1>5, <1>8, <1>9, <1>10
  DEF EditsInv, FrameOf, Sourced, Reported, Preserves, Grounded

LEMMA WriteBaselineEdits ==
    ASSUME TypeOK, EditsInv, NEW p \in Payload, WriteBaseline(p)
    PROVE  EditsInv'
<1> DEFINE b == Merge(current.baseline, p)
           q == current.queue
           l == snap[live]
           t == [top EXCEPT !.edited = @ \cup Edits(current.baseline, p) \cup ReplayEdits(q, b)]
           v == [baseline |-> b, optimistic |-> Expressed(q, b), queue |-> q, shown |-> q]
<1>1. stack # <<>> /\ top.changeId = NoChange
  BY DEF WriteBaseline, Running
<1>2. /\ FrameOf(top, current, l, top.snapshot = live)
      /\ Sourced(l, l.shown)
      /\ l \in CacheSnapshot /\ current \in CacheSnapshot /\ top \in Transaction
  BY <1>1, TopFrame
<1>3. current.baseline \in Graph /\ q \in Seq(Update) /\ b \in Graph
  BY <1>2, MergeAssumption DEF CacheSnapshot
<1>4. Edits(current.baseline, p) \subseteq Node /\ ReplayEdits(q, b) \subseteq Node
  <2> HIDE DEF b, q
  <2>1. QED BY <1>3, MergeAssumption, ReplayEditsType
<1>5. ~Rejects(current.baseline, p) /\ ~ReplayThrows(q, b) /\ Advance(snap, t, v)
  BY DEF WriteBaseline
<1>6. /\ t \in Transaction
      /\ t.changeId = NoChange
      /\ t.deltas = top.deltas
      /\ t.lagging = top.lagging
      /\ t.edited = top.edited \cup Edits(current.baseline, p) \cup ReplayEdits(q, b)
  <2> HIDE DEF b, q
  <2>1. QED BY <1>1, <1>2, <1>4 DEF Transaction
<1>7. v.baseline = b /\ v.optimistic = Expressed(q, b) /\ v.shown = q
  OBVIOUS
<1> HIDE DEF t, v, b, q, l
<1>8. top.deltas = <<>>
  BY <1>1, <1>2 DEF FrameOf
<1>9. Sourced(v, Enqueue(v.shown, t.changeId, t.deltas))
  <2>1. Sourced(v, q)
    BY <1>3, <1>5, <1>7, ReplayMerges, ReplaySourced
  <2>2. Enqueue(q, t.changeId, <<>>) = q
    BY <1>3, EnqueueNothing
  <2>3. QED BY <1>6, <1>7, <1>8, <2>1, <2>2
<1>10. ASSUME ~top.lagging
       PROVE  Grounded(t.edited, l) /\ Reported(t.edited, v, l)
  <2>1. Reported(top.edited, current, l)
    BY <1>2, <1>10 DEF FrameOf
  <2>2. \/ current = l /\ l.queue = l.shown /\ Sourced(l, l.shown)
        \/ Grounded(top.edited, l)
    <3>1. top.snapshot = live => current = l
      BY DEF current, l
    <3>2. QED BY <1>1, <1>2, <1>10, <3>1 DEF FrameOf
  <2> DEFINE E == top.edited
             D == t.edited
  <2>3. /\ b = Merge(current.baseline, p) /\ ~ReplayThrows(current.queue, b)
        /\ D = E \cup Edits(current.baseline, p) \cup ReplayEdits(current.queue, b)
        /\ v.baseline = b /\ v.optimistic = Expressed(current.queue, b)
    BY <1>5, <1>6, <1>7 DEF b, q
  <2>4. ~Rejects(current.baseline, p) /\ l \in CacheSnapshot /\ current \in CacheSnapshot
    BY <1>2, <1>5
  <2>5. Reported(E, current, l)
    BY <2>1
  <2>6. (current = l /\ l.queue = l.shown /\ Sourced(l, l.shown)) \/ Grounded(E, l)
    BY <2>2
  <2> HIDE DEF D, E
  <2>7. Grounded(D, l) /\ Reported(D, v, l)
    BY <2>3, <2>4, <2>5, <2>6, BaselineReported
  <2>8. QED BY <2>7 DEF D
<1>11. FrameOf(t, v, l, FALSE)
  BY <1>6, <1>8, <1>9, <1>10 DEF FrameOf
<1>12. SameShown(snap[live], snap[live])
  BY DEF SameShown
<1>13. QED
  BY <1>1, <1>5, <1>6, <1>11, <1>12, AdvanceEdits DEF l

\* A baseline write that throws may have reported what was not replayed.
LEMMA WriteBaselineThrowsEdits ==
    ASSUME TypeOK, EditsInv, NEW p \in Payload,
           WriteBaselineRejected(p) \/ WriteBaselineNotReplayed(p)
    PROVE  EditsInv'
<1>1. stack # <<>> /\ UNCHANGED <<live, snap>>
  BY DEF WriteBaselineRejected, WriteBaselineNotReplayed, Running, Raise
<1>2. top \in Transaction /\ current \in CacheSnapshot
  BY <1>1, TopFrame
<1>3. Edits(current.baseline, p) \subseteq Node
  BY <1>2, MergeAssumption DEF CacheSnapshot
<1>4. PICK D \in SUBSET Node :
        stack' = WithTop([top EXCEPT !.edited = @ \cup D, !.raised = TRUE])
  <2>1. CASE WriteBaselineRejected(p)
    <3>1. [top EXCEPT !.edited = @ \cup {}, !.raised = TRUE] = [top EXCEPT !.raised = TRUE]
      BY <1>2 DEF Transaction
    <3>2. QED BY <2>1, <3>1 DEF WriteBaselineRejected, Raise
  <2>2. CASE WriteBaselineNotReplayed(p)
    BY <1>3, <2>2 DEF WriteBaselineNotReplayed, Raise
  <2>3. QED BY <2>1, <2>2
<1> DEFINE t == [top EXCEPT !.edited = @ \cup D, !.raised = TRUE]
<1>5. /\ t \in Transaction
      /\ t.snapshot = top.snapshot /\ t.changeId = top.changeId
      /\ t.deltas = top.deltas /\ t.lagging = top.lagging
      /\ top.edited \subseteq t.edited
  BY <1>2 DEF Transaction
<1>6. stack' = WithTop(t)
  BY <1>4
<1> HIDE DEF t
<1>7. QED
  BY <1>1, <1>5, <1>6, SameHeapEdits

LEMMA WriteOptimisticEdits ==
    ASSUME TypeOK, EditsInv, NEW p \in Payload, WriteOptimistic(p)
    PROVE  EditsInv'
<1> DEFINE c == top.changeId
           l == snap[live]
           q == Enqueue(current.shown, c, top.deltas)
           e == [id |-> c, delta |-> p]
           t == [top EXCEPT !.deltas = Append(@, p)]
           u == [t EXCEPT !.edited = @ \cup Edits(current.optimistic, p)]
           w == [t EXCEPT !.raised = TRUE]
           v == [current EXCEPT !.optimistic = Merge(@, p)]
<1>1. stack # <<>> /\ c # NoChange
  BY DEF WriteOptimistic, Running
<1>2. /\ FrameOf(top, current, l, top.snapshot = live)
      /\ Sourced(l, l.shown)
      /\ l \in CacheSnapshot /\ current \in CacheSnapshot /\ top \in Transaction
  BY <1>1, TopFrame
<1>3. /\ c \in ChangeId
      /\ top.deltas \in Seq(Payload)
      /\ Append(top.deltas, p) \in Seq(Payload)
      /\ current.shown \in Seq(Update)
      /\ current.optimistic \in Graph
      /\ Edits(current.optimistic, p) \subseteq Node
  BY <1>1, <1>2, AppendProperties, MergeAssumption DEF Transaction, CacheSnapshot
<1>4. /\ t \in Transaction /\ t.snapshot = top.snapshot /\ t.changeId = c
      /\ t.deltas = Append(top.deltas, p) /\ t.edited = top.edited
      /\ t.lagging = top.lagging
  BY <1>2, <1>3 DEF Transaction
<1>5. /\ \/ ~Rejects(current.optimistic, p) /\ Advance(snap, u, v)
         \/ stack' = WithTop(w) /\ UNCHANGED <<live, snap>>
  BY DEF WriteOptimistic, Raise
<1>6. /\ v.baseline = current.baseline
      /\ v.optimistic = Merge(current.optimistic, p)
      /\ v.shown = current.shown
  BY <1>2 DEF CacheSnapshot
<1>7. q \in Seq(Update) /\ e \in Update /\ e.delta = p
  BY <1>3, EnqueueType DEF Update
<1>8. Enqueue(current.shown, c, Append(top.deltas, p)) = Append(q, e)
  BY <1>3, EnqueueAppend
<1>9. /\ u \in Transaction /\ u.changeId = c /\ u.deltas = Append(top.deltas, p)
      /\ u.lagging = top.lagging
      /\ u.edited = top.edited \cup Edits(current.optimistic, p)
  <2> HIDE DEF t
  <2>1. QED BY <1>3, <1>4 DEF Transaction
<1>10. /\ w \in Transaction /\ w.changeId = c /\ w.deltas = Append(top.deltas, p)
       /\ w.lagging = top.lagging /\ w.edited = top.edited /\ w.snapshot = top.snapshot
  <2> HIDE DEF t
  <2>1. QED BY <1>4 DEF Transaction
<1> HIDE DEF c, l, q, e, t, u, v, w
<1>11. Sourced(current, q)
  BY <1>2 DEF FrameOf, q, c
<1>12. CASE ~Rejects(current.optimistic, p) /\ Advance(snap, u, v)
  <2>1. Sourced(v, Append(q, e))
    BY <1>3, <1>6, <1>7, <1>11, <1>12, MergeSourced
  <2>2. ~top.lagging => Reported(u.edited, v, l)
    BY <1>2, <1>3, <1>6, <1>9, <1>12, OptimisticReported DEF FrameOf
  <2>3. FrameOf(u, v, l, FALSE)
    BY <1>1, <1>6, <1>8, <1>9, <2>1, <2>2 DEF FrameOf
  <2>4. SameShown(snap[live], snap[live])
    BY DEF SameShown
  <2>5. QED BY <1>1, <1>9, <1>12, <2>3, <2>4, AdvanceEdits DEF l
<1>13. CASE stack' = WithTop(w) /\ UNCHANGED <<live, snap>>
  <2>1. Sourced(current, Append(q, e))
    BY <1>7, <1>11, AppendExtends, SourcedMore
  <2>2. FrameOf(w, current, l, w.snapshot = live)
    BY <1>1, <1>2, <1>8, <1>10, <2>1 DEF FrameOf, c
  <2>3. snap' = snap /\ live' = live /\ snap'[w.snapshot] = current
    BY <1>10, <1>13 DEF current
  <2>4. QED BY <1>1, <1>2, <1>10, <1>13, <2>2, <2>3, TopGoesOnEdits DEF l
<1>14. QED
  BY <1>5, <1>12, <1>13

LEMMA RollbackEdits ==
    ASSUME TypeOK, EditsInv, NEW c \in ChangeId, Rollback(c)
    PROVE  EditsInv'
<1> DEFINE q == Remove(current.queue, c)
           h == [snap EXCEPT ![top.snapshot].queue = q]
           l == snap[live]
           t == [top EXCEPT !.edited = @ \cup NodeIds(current.optimistic)
                                         \cup ReplayEdits(q, current.baseline)]
           u == [top EXCEPT !.raised = TRUE, !.lagging = @ \/ top.snapshot = live]
           v == [baseline |-> current.baseline,
                 optimistic |-> Expressed(q, current.baseline),
                 queue |-> q, shown |-> q]
<1>1. stack # <<>>
  BY DEF Rollback, Running
<1>2. /\ FrameOf(top, current, l, top.snapshot = live)
      /\ Sourced(l, l.shown)
      /\ live \in DOMAIN snap /\ top.snapshot \in DOMAIN snap
      /\ l \in CacheSnapshot /\ current \in CacheSnapshot /\ top \in Transaction
  BY <1>1, TopFrame
<1>3. /\ current.baseline \in Graph /\ current.optimistic \in Graph
      /\ q \in Seq(Update)
      /\ top.deltas \in Seq(Payload)
  BY <1>2, RemoveType DEF CacheSnapshot, Transaction
<1>4. /\ DOMAIN h = DOMAIN snap
      /\ SameShown(l, h[live])
      /\ SameShown(current, h[top.snapshot])
      /\ top.snapshot # live => h[live] = l
  <2> HIDE DEF q
  <2>1. QED BY <1>2 DEF TypeOK, CacheSnapshot, SameShown, current
<1>5. NodeIds(current.optimistic) \subseteq Node /\ ReplayEdits(q, current.baseline) \subseteq Node
  <2> HIDE DEF q
  <2>1. QED BY <1>3, GraphAssumption, ReplayEditsType
<1>6. /\ t \in Transaction /\ t.changeId = top.changeId /\ t.deltas = top.deltas
      /\ t.lagging = top.lagging
      /\ t.edited = top.edited \cup NodeIds(current.optimistic)
                               \cup ReplayEdits(q, current.baseline)
  <2> HIDE DEF q
  <2>1. QED BY <1>2, <1>5 DEF Transaction
<1>7. /\ u \in Transaction /\ u.changeId = top.changeId /\ u.deltas = top.deltas
      /\ u.snapshot = top.snapshot /\ u.edited = top.edited
      /\ u.lagging = (top.lagging \/ top.snapshot = live)
  BY <1>2 DEF Transaction
<1>8. /\ v.baseline = current.baseline /\ v.shown = q
      /\ v.optimistic = Expressed(q, current.baseline)
  OBVIOUS
<1>9. \/ ~ReplayThrows(q, current.baseline) /\ Advance(h, t, v)
      \/ snap' = h /\ stack' = WithTop(u) /\ live' = live
  BY DEF Rollback
<1> HIDE DEF q, h, l, t, u, v
<1>10. top.changeId = NoChange => top.deltas = <<>>
  BY <1>2 DEF FrameOf
<1>11. CASE ~ReplayThrows(q, current.baseline) /\ Advance(h, t, v)
  <2>1. Sourced(v, q)
    BY <1>3, <1>8, <1>11, ReplayMerges, ReplaySourced
  <2>2. Sourced(v, Enqueue(v.shown, t.changeId, t.deltas))
    BY <1>3, <1>6, <1>8, <2>1, EnqueueExtends, SourcedMore
  <2>3. ~top.lagging => Grounded(t.edited, l) /\ Reported(t.edited, v, l)
    <3>1. top.edited \cup NodeIds(current.optimistic) \subseteq t.edited
      BY <1>6
    <3>2. ~top.lagging => Reported(top.edited, current, l)
      BY <1>2 DEF FrameOf
    <3>3. QED BY <1>3, <1>8, <3>1, <3>2, RollbackReported
  <2>4. FrameOf(t, v, l, FALSE)
    BY <1>6, <1>10, <2>2, <2>3 DEF FrameOf
  <2>5. QED BY <1>1, <1>4, <1>6, <1>11, <2>4, AdvanceEdits DEF l
<1>12. CASE snap' = h /\ stack' = WithTop(u) /\ live' = live
  <2> DEFINE w == h[top.snapshot]
             k == h[live]
  <2>1. /\ w.baseline = current.baseline /\ w.optimistic = current.optimistic
        /\ w.shown = current.shown
        /\ k.baseline = l.baseline /\ k.optimistic = l.optimistic /\ k.shown = l.shown
    BY <1>4 DEF SameShown
  <2>2. snap'[u.snapshot] = w /\ snap'[live] = k
    BY <1>7, <1>12
  <2> HIDE DEF w, k
  <2>3. Sourced(k, k.shown)
    BY <1>2, <2>1 DEF Sourced
  <2>4. Sourced(w, Enqueue(w.shown, u.changeId, u.deltas))
    BY <1>2, <1>7, <2>1 DEF Sourced, FrameOf
  <2>5. ASSUME ~u.lagging
        PROVE  /\ Reported(u.edited, w, k)
               /\ u.changeId = NoChange => Grounded(u.edited, k)
    <3>1. ~top.lagging /\ top.snapshot # live
      BY <1>7, <2>5
    <3>2. /\ Reported(top.edited, current, l)
          /\ top.changeId = NoChange => Grounded(top.edited, l)
      BY <1>2, <3>1 DEF FrameOf
    <3>3. QED BY <1>7, <2>1, <3>2 DEF Reported, Preserves, Grounded
  <2>6. FrameOf(u, w, k, u.snapshot = live)
    BY <1>7, <1>10, <2>4, <2>5 DEF FrameOf
  <2>7. QED BY <1>1, <1>7, <1>12, <2>2, <2>3, <2>6, TopGoesOnEdits
<1>13. QED
  BY <1>9, <1>11, <1>12

LEMMA ControlEdits ==
    ASSUME TypeOK, EditsInv, Catch \/ Throw \/ CallbackReturns \/ UpdaterReturns
    PROVE  EditsInv'
<1>1. stack # <<>> /\ UNCHANGED <<live, snap>>
  BY DEF Catch, Throw, CallbackReturns, UpdaterReturns, Running, Raise
<1>2. top \in Transaction
  BY <1>1, TopFrame
<1> DEFINE Same(t) == /\ t.snapshot = top.snapshot /\ t.changeId = top.changeId
                      /\ t.deltas = top.deltas /\ t.lagging = top.lagging
                      /\ top.edited \subseteq t.edited
<1>3. PICK t \in Transaction : Same(t) /\ stack' = WithTop(t)
  <2>1. ASSUME NEW r \in BOOLEAN
        PROVE  [top EXCEPT !.raised = r] \in Transaction /\ Same([top EXCEPT !.raised = r])
    BY <1>2 DEF Transaction
  <2>2. CASE Throw
    BY <2>1, <2>2 DEF Throw, Raise
  <2>3. CASE Catch
    BY <2>1, <2>3 DEF Catch
  <2>4. CASE CallbackReturns
    <3> DEFINE n == top.edited \cap HasUpdater
                      \cap (NodeIds(GraphOf(top)) \cup NodeIds(top.parent))
               s == [top EXCEPT !.phase = "updaters", !.updaters = n]
    <3>1. s \in Transaction /\ Same(s)
      BY <1>2 DEF Transaction
    <3>2. stack' = WithTop(s)
      BY <2>4 DEF CallbackReturns
    <3> HIDE DEF s, Same
    <3>3. QED BY <3>1, <3>2
  <2>5. CASE UpdaterReturns
    <3>1. PICK n \in top.updaters : stack' = WithTop([top EXCEPT !.updaters = @ \ {n}])
      BY <2>5 DEF UpdaterReturns
    <3> DEFINE s == [top EXCEPT !.updaters = @ \ {n}]
    <3>2. s \in Transaction /\ Same(s)
      BY <1>2 DEF Transaction
    <3>3. stack' = WithTop(s)
      BY <3>1
    <3> HIDE DEF s, Same
    <3>4. QED BY <3>2, <3>3
  <2>6. QED BY <2>2, <2>3, <2>4, <2>5
<1>4. QED
  BY <1>1, <1>3, SameHeapEdits

\* The transaction is given up: the live snapshot is what it was.
LEMMA AbortEdits ==
    ASSUME TypeOK, EditsInv, Abort \/ Escape
    PROVE  EditsInv'
<1>1. stack # <<>>
  BY DEF Abort, Escape
<1>2. Len(stack) = 1 /\ Popped = <<>>
  BY <1>1, OneRuns DEF EditsInv
<1>3. Store(snap, live, <<>>)
  <2>1. CASE Abort
    BY <1>2, <2>1 DEF Abort
  <2>2. CASE Escape
    <3>1. [i \in 1..0 |-> IF i = 0 THEN [stack[i] EXCEPT !.raised = TRUE] ELSE stack[i]] = <<>>
      OBVIOUS
    <3>2. Len(stack) - 1 = 0
      BY <1>2
    <3>3. QED BY <2>2, <3>1, <3>2 DEF Escape
  <2>3. QED BY <2>1, <2>2
<1>4. live' = live /\ stack' = <<>> /\ \A r \in Held(live, <<>>) : snap'[r] = snap[r]
  BY <1>3, StoreHeap
<1>5. snap'[live'] = snap[live]
  BY <1>4 DEF Held
<1>6. Sourced(snap'[live'], snap'[live'].shown)
  BY <1>5 DEF EditsInv
<1>7. QED
  BY <1>4, <1>6, NoneRunsEdits

\* What a commit makes live has the graphs of the transaction's snapshot.
LEMMA CommitResult ==
    ASSUME TypeOK, EditsInv, Commit
    PROVE  /\ stack # <<>> /\ stack' = <<>>
           /\ snap'[live'].baseline = current.baseline
           /\ snap'[live'].optimistic = current.optimistic
           /\ Sourced(snap'[live'], snap'[live'].shown)
<1> DEFINE c == top.changeId
           v == [current EXCEPT !.queue = Enqueue(@, c, top.deltas),
                                !.shown = Enqueue(@, c, top.deltas)]
<1>1. stack # <<>>
  BY DEF Commit
<1>2. /\ FrameOf(top, current, snap[live], top.snapshot = live)
      /\ current \in CacheSnapshot /\ top \in Transaction
  BY <1>1, TopFrame
<1>3. Popped = <<>>
  BY <1>1, OneRuns DEF EditsInv
<1>4. Sourced(current, Enqueue(current.shown, c, top.deltas))
  BY <1>2 DEF FrameOf
<1>5. CASE c = NoChange
  <2>1. Store(snap, top.snapshot, <<>>)
    BY <1>3, <1>5 DEF Commit
  <2>2. stack' = <<>> /\ snap'[live'] = current
    BY <2>1, StoreHeap DEF Held, current
  <2>3. top.deltas = <<>> /\ current.shown \in Seq(Update)
    BY <1>2, <1>5 DEF FrameOf, CacheSnapshot
  <2>4. Sourced(current, current.shown)
    BY <1>4, <2>3, EnqueueNothing
  <2>5. QED BY <1>1, <2>2, <2>4
<1>6. CASE c # NoChange
  <2>1. PICK s \in Fresh : Store(Put(snap, s, v), s, <<>>)
    BY <1>3, <1>6 DEF Commit
  <2>2. /\ v.shown = Enqueue(current.shown, c, top.deltas)
        /\ v.optimistic = current.optimistic
        /\ v.baseline = current.baseline
    BY <1>2 DEF CacheSnapshot
  <2> HIDE DEF v, c
  <2>3. stack' = <<>> /\ snap'[live'] = v
    <3>1. Put(snap, s, v)[s] = v
      BY DEF Put
    <3>2. QED BY <2>1, <3>1, StoreHeap DEF Held
  <2>4. Sourced(v, v.shown)
    BY <1>4, <2>2 DEF Sourced
  <2>5. QED BY <1>1, <2>2, <2>3, <2>4
<1>7. QED
  BY <1>5, <1>6

LEMMA CommitEdits ==
    ASSUME TypeOK, EditsInv, Commit PROVE EditsInv'
BY CommitResult, NoneRunsEdits

\* A restore or a reset makes both graphs the same.
LEMMA ReplaceEdits ==
    ASSUME TypeOK, Sequential, NEW g \in Graph, Replace(g)
    PROVE  EditsInv'
<1> DEFINE v == [baseline |-> g, optimistic |-> g, queue |-> <<>>, shown |-> <<>>]
<1>1. PICK s \in Fresh : Store(Put(snap, s, v), s, stack)
  BY DEF Replace
<1>2. stack = <<>>
  BY DEF Replace, CanCall, Sequential
<1>3. v.optimistic = v.baseline
  OBVIOUS
<1> HIDE DEF v
<1>4. Put(snap, s, v)[s] = v
  BY DEF Put
<1>5. stack' = <<>> /\ snap'[live'] = v
  BY <1>1, <1>2, <1>4, StoreHeap DEF Held
<1>6. Sourced(v, v.shown)
  BY <1>3 DEF Sourced
<1>7. QED
  BY <1>5, <1>6, NoneRunsEdits

LEMMA NextEdits ==
    ASSUME Sequential, TypeOK, EditsInv, [Next]_vars PROVE EditsInv'
<1>1. ASSUME NEW c \in ChangeId \cup {NoChange}, Begin(c) PROVE EditsInv'
  BY <1>1, BeginEdits
<1>2. ASSUME NEW p \in Payload, WriteBaseline(p) PROVE EditsInv'
  BY <1>2, WriteBaselineEdits
<1>3. ASSUME NEW p \in Payload, WriteBaselineRejected(p) \/ WriteBaselineNotReplayed(p)
      PROVE  EditsInv'
  BY <1>3, WriteBaselineThrowsEdits
<1>4. ASSUME NEW p \in Payload, WriteOptimistic(p) PROVE EditsInv'
  BY <1>4, WriteOptimisticEdits
<1>5. ASSUME NEW c \in ChangeId, Rollback(c) PROVE EditsInv'
  BY <1>5, RollbackEdits
<1>6. CASE Catch \/ Throw \/ CallbackReturns \/ UpdaterReturns
  BY <1>6, ControlEdits
<1>7. CASE Abort \/ Escape
  BY <1>7, AbortEdits
<1>8. CASE Commit
  BY <1>8, CommitEdits
<1>9. CASE Restore
  BY <1>9, ReplaceEdits, GraphAssumption DEF Restore
<1>10. CASE Reset
  BY <1>10, ReplaceEdits, GraphAssumption DEF Reset
<1>11. CASE UNCHANGED vars
  <2>1. /\ live' = live /\ snap' = snap /\ stack' = stack
        /\ top' = top /\ current' = current
    BY <1>11 DEF vars, top, current
  <2>2. /\ snap'[live'] = snap[live] /\ Sourced(snap[live], snap[live].shown)
    BY <2>1 DEF EditsInv
  <2>3. CASE stack = <<>>
    BY <2>1, <2>2, <2>3, NoneRunsEdits
  <2>4. CASE stack # <<>>
    <3>1. top \in Transaction /\ FrameOf(top, current, snap[live], top.snapshot = live)
      BY <2>4, TopFrame
    <3>2. stack' = WithTop(top)
      BY <2>1, <2>4, TopType DEF WithTop, top, TypeOK
    <3>3. QED BY <2>1, <2>4, <3>1, <3>2, SameHeapEdits
  <2>5. QED BY <2>3, <2>4
<1>12. QED
  BY <1>1, <1>2, <1>3, <1>4, <1>5, <1>6, <1>7, <1>8, <1>9, <1>10, <1>11 DEF Next

-----------------------------------------------------------------------------
(* The properties.                                                         *)

LEMMA StepCovers ==
    ASSUME TypeOK, EditsInv PROVE CellsCovered
<1> DEFINE l == snap[live]
<1>1. ASSUME Commit, ~top.lagging
      PROVE  /\ Preserves(top.edited, l.baseline, snap'[live'].baseline)
             /\ Preserves(top.edited, l.optimistic, snap'[live'].optimistic)
  <2>1. /\ stack # <<>>
        /\ snap'[live'].baseline = current.baseline
        /\ snap'[live'].optimistic = current.optimistic
    BY <1>1, CommitResult
  <2>2. Reported(top.edited, current, l)
    BY <1>1, <2>1, TopFrame DEF FrameOf
  <2>3. QED BY <2>1, <2>2 DEF Reported, Preserves
<1>2. Preserves(ResetEdits, l.optimistic, snap'[live'].optimistic)
  <2>1. l.optimistic \in Graph
    BY DEF TypeOK, CacheSnapshot
  <2>2. ASSUME NEW n \in Node \ ResetEdits, NEW f \in Field
        PROVE  Cell(l.optimistic, n, f) = NoValue
    BY <2>1, CellInNode DEF ResetEdits
  <2>3. QED BY <2>2 DEF Preserves
<1>3. QED
  BY <1>1, <1>2 DEF CellsCovered

\* Where readers follow cells, to preserve the cells is to preserve the reads.
LEMMA StepCoversReads ==
    ASSUME ReadersFollowCells(Graph), TypeOK, TypeOK', EditsInv PROVE ReadsCovered
<1> DEFINE l == snap[live]
           m == snap'[live']
<1>1. /\ l.baseline \in Graph /\ l.optimistic \in Graph
      /\ m.baseline \in Graph /\ m.optimistic \in Graph
  BY DEF TypeOK, CacheSnapshot
<1>2. ResetEdits \subseteq Node
  BY <1>1, GraphAssumption DEF ResetEdits
<1>3. Commit => top.edited \subseteq Node
  BY TopFrame DEF Commit, Transaction
<1>4. CellsCovered
  BY StepCovers
<1> HIDE DEF l, m
<1>5. ASSUME NEW E \in SUBSET Node
      PROVE  /\ Preserves(E, l.baseline, m.baseline) => Covers(E, l.baseline, m.baseline)
             /\ Preserves(E, l.optimistic, m.optimistic) => Covers(E, l.optimistic, m.optimistic)
  BY <1>1 DEF ReadersFollowCells
<1>6. QED
  BY <1>2, <1>3, <1>4, <1>5 DEF CellsCovered, ReadsCovered, l, m

\* What a transaction that runs has reported so far covers all that its
\* snapshot changed of the live one, in both graphs and whatever application
\* code catches, throws and rolls back, as long as transactions do not nest.
THEOREM EditsInvariant == Sequential /\ Spec => []EditsInv
<1>1. Sequential /\ Init => TypeOK /\ EditsInv
  BY InitType, InitEdits
<1>2. Sequential /\ TypeOK /\ EditsInv /\ [Next]_vars => TypeOK' /\ EditsInv'
  BY NextType, NextEdits
<1>3. Sequential => []Sequential
  OBVIOUS
<1>4. QED
  BY <1>1, <1>2, <1>3, PTL DEF Spec

\* No node loses or changes a value, in the baseline or in the optimistic
\* graph, whose id a commit does not hand to the observers; nor in the
\* optimistic graph at a reset.
THEOREM EditsAlwaysCoverCells == Sequential /\ Spec => EditsCoverCells
<1>1. TypeOK /\ EditsInv /\ [Next]_vars => [CellsCovered]_vars
  BY StepCovers
<1>2. QED
  BY <1>1, TypeCorrect, EditsInvariant, PTL DEF Spec, EditsCoverCells

\* An observer that a commit or a reset passes over would read what it last
\* read, and a cached read that is carried over is still right: wherever what
\* a complete read returns depends on the cells of the nodes in it alone.
THEOREM EditsAlwaysCoverReads ==
    ReadersFollowCells(Graph) /\ Sequential /\ Spec => EditsCoverReads
<1>1. ReadersFollowCells(Graph) /\ TypeOK /\ TypeOK' /\ EditsInv /\ [Next]_vars => [ReadsCovered]_vars
  BY StepCoversReads
<1>2. ReadersFollowCells(Graph) => []ReadersFollowCells(Graph)
  OBVIOUS
<1>3. QED
  BY <1>1, <1>2, TypeCorrect, EditsInvariant, PTL DEF Spec, EditsCoverReads
=============================================================================
