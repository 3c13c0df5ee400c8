---------------------- MODULE CacheTransactions_proofs ----------------------
(***************************************************************************)
(* What TLAPS proves of CacheTransactions, for every graph domain, every   *)
(* merge function, every set of payloads and change ids and every bound.   *)
(***************************************************************************)
EXTENDS CacheTransactions, FoldTheorems, SequenceTheorems

-----------------------------------------------------------------------------
(* The queue: what replaying, enqueueing and removing do.                  *)

\* Replaying a queue goes through graphs, one per delta, from the first.
LEMMA ReplayGraphs ==
    ASSUME NEW q \in Seq(Update), NEW g \in Graph
    PROVE  /\ Replay(q, g) \in [0..Len(q) -> Graph]
           /\ Replay(q, g)[0] = g
           /\ \A i \in 1..Len(q) :
                Replay(q, g)[i] = Merge(Replay(q, g)[i - 1], q[i].delta)
<1> DEFINE n    == Len(q)
           step == [i \in 1..n |-> [h \in Graph |-> Merge(h, q[i].delta)]]
           IsReplay(f) == f = [i \in 0..n |-> IF i = 0 THEN g ELSE Merge(f[i - 1], q[i].delta)]
<1>1. n \in Nat /\ \A i \in 1..n : q[i].delta \in Payload
  <2>1. n \in Nat
    BY LenProperties
  <2>2. \A i \in 1..n : q[i] \in Update
    BY ElementOfSeq
  <2>3. QED BY <2>1, <2>2 DEF Update
<1>2. step \in [1..n -> [Graph -> Graph]]
  BY <1>1, MergeAssumption
<1>3. PICK f : f \in [0..n -> Graph] /\ f[0] = g /\ \A i \in 1..n : f[i] = step[i][f[i - 1]]
  <2>1. n \in Nat
    BY <1>1
  <2>2. FoldsOf(Graph, n, g, step) # {}
    <3> HIDE DEF step, n, IsReplay
    <3>1. QED BY <2>1, <1>2, FoldExists
  <2>3. QED
    <3> HIDE DEF step, n, IsReplay
    <3>1. QED BY <2>2 DEF FoldsOf
<1>4. ASSUME NEW i \in 1..n PROVE f[i] = Merge(f[i - 1], q[i].delta)
  <2>1. f[i - 1] \in Graph
    BY <1>1, <1>3
  <2>2. step[i] = [h \in Graph |-> Merge(h, q[i].delta)]
    OBVIOUS
  <2>3. QED BY <1>3, <2>1, <2>2
<1>5. IsReplay(f)
  BY <1>1, <1>3, <1>4
<1>6. Replay(q, g) = CHOOSE h : IsReplay(h)
  BY DEF Replay
<1>7. IsReplay(Replay(q, g))
  <2> HIDE DEF IsReplay
  <2>1. QED BY <1>5, <1>6
<1>8. \A i \in 0..n : f[i] = Replay(q, g)[i]
  <2> DEFINE r == Replay(q, g)
  <2>1. n \in Nat
    BY <1>1
  <2>2. r = [i \in 0..n |-> IF i = 0 THEN g ELSE Merge(r[i - 1], q[i].delta)]
    BY <1>7
  <2> HIDE DEF n, r
  <2>3. r[0] = g /\ \A i \in 1..n : r[i] = Merge(r[i - 1], q[i].delta)
    BY <2>1, <2>2
  <2>4. f[0] = r[0]
    BY <1>3, <2>3
  <2>5. StepsAgree(n, f, r)
    BY <1>4, <2>3 DEF StepsAgree
  <2>6. \A i \in 0..n : f[i] = r[i]
    BY <2>1, <2>4, <2>5, FoldUnique
  <2>7. QED BY <2>6 DEF r
<1>9. QED
  <2> DEFINE r == Replay(q, g)
  <2>1. r = [i \in 0..n |-> IF i = 0 THEN g ELSE Merge(r[i - 1], q[i].delta)]
    BY <1>7
  <2>2. \A i \in 0..n : r[i] \in Graph
    BY <1>3, <1>8
  <2> HIDE DEF r
  <2>3. r \in [0..n -> Graph]
    BY <2>1, <2>2
  <2>4. r[0] = g /\ \A i \in 1..n : r[i] = Merge(r[i - 1], q[i].delta)
    BY <1>1, <2>1
  <2>5. QED BY <2>3, <2>4 DEF r

\* What a queue expresses on top of a graph is a graph.
LEMMA ExpressedType ==
    ASSUME NEW q \in Seq(Update), NEW g \in Graph
    PROVE  Expressed(q, g) \in Graph
<1>1. Len(q) \in 0..Len(q)
  BY LenProperties
<1>2. QED
  BY <1>1, ReplayGraphs DEF Expressed

\* The nodes that a replay edits are nodes.
LEMMA ReplayEditsType ==
    ASSUME NEW q \in Seq(Update), NEW g \in Graph
    PROVE  ReplayEdits(q, g) \subseteq Node
<1>1. ASSUME NEW i \in 1..Len(q)
      PROVE  Edits(Replay(q, g)[i - 1], q[i].delta) \subseteq Node
  <2>1. q[i].delta \in Payload
    <3>1. q[i] \in Update
      BY ElementOfSeq
    <3>2. QED BY <3>1 DEF Update
  <2>2. Replay(q, g)[i - 1] \in Graph
    <3>1. i - 1 \in 0..Len(q)
      BY LenProperties
    <3>2. QED BY <3>1, ReplayGraphs
  <2>3. QED BY <2>1, <2>2, MergeAssumption
<1>2. QED
  BY <1>1 DEF ReplayEdits

\* An empty queue expresses the graph it is applied to.
LEMMA ExpressedEmpty ==
    ASSUME NEW g \in Graph
    PROVE  Expressed(<<>>, g) = g
<1>1. <<>> \in Seq(Update) /\ Len(<<>>) = 0
  OBVIOUS
<1>2. QED
  BY <1>1, ReplayGraphs DEF Expressed

\* Replaying a longer queue goes through the same graphs at first.
LEMMA ReplayAppend ==
    ASSUME NEW q \in Seq(Update), NEW u \in Update, NEW g \in Graph
    PROVE  \A i \in 0..Len(q) : Replay(Append(q, u), g)[i] = Replay(q, g)[i]
<1> DEFINE n == Len(q)
           r == Append(q, u)
<1>1. /\ n \in Nat
      /\ r \in Seq(Update)
      /\ Len(r) = n + 1
      /\ \A i \in 1..n : r[i] = q[i]
      /\ r[n + 1] = u
  BY AppendProperties, LenProperties
<1>2. \A i \in 1..n : Replay(q, g)[i] = Merge(Replay(q, g)[i - 1], q[i].delta)
  BY ReplayGraphs
<1>3. \A i \in 1..(n + 1) : Replay(r, g)[i] = Merge(Replay(r, g)[i - 1], r[i].delta)
  <2> HIDE DEF r
  <2>1. QED BY <1>1, ReplayGraphs
<1>4. Replay(r, g)[0] = Replay(q, g)[0]
  <2> HIDE DEF r
  <2>1. QED BY <1>1, ReplayGraphs
<1>5. \A i \in 0..n : Replay(r, g)[i] = Replay(q, g)[i]
  <2>1. \A i \in 1..n : Replay(r, g)[i - 1] = Replay(q, g)[i - 1]
                         => Replay(r, g)[i] = Replay(q, g)[i]
    <3> HIDE DEF r
    <3>1. QED BY <1>1, <1>2, <1>3
  <2>2. n \in Nat
    BY <1>1
  <2> DEFINE longer  == Replay(r, g)
             shorter == Replay(q, g)
  <2>3. longer[0] = shorter[0]
    BY <1>4
  <2>4. StepsAgree(n, longer, shorter)
    BY <2>1 DEF StepsAgree
  <2>5. \A i \in 0..n : longer[i] = shorter[i]
    <3> HIDE DEF n, longer, shorter
    <3>1. QED BY <2>2, <2>3, <2>4, FoldUnique
  <2>6. QED BY <2>5
<1>6. QED
  BY <1>5

\* One more delta is merged into what the queue before it expresses.
LEMMA ExpressedAppend ==
    ASSUME NEW q \in Seq(Update), NEW u \in Update, NEW g \in Graph
    PROVE  Expressed(Append(q, u), g) = Merge(Expressed(q, g), u.delta)
<1> DEFINE n == Len(q)
           r == Append(q, u)
<1>1. n \in Nat /\ r \in Seq(Update) /\ Len(r) = n + 1 /\ r[n + 1] = u
  BY AppendProperties, LenProperties
<1>2. n + 1 \in 1..(n + 1) /\ n \in 0..n /\ (n + 1) - 1 = n
  BY <1>1
<1>3. Replay(r, g)[n] = Replay(q, g)[n]
  BY <1>2, ReplayAppend
<1>4. Replay(r, g)[n + 1] = Merge(Replay(r, g)[n], u.delta)
  <2> HIDE DEF r, n
  <2>1. \A i \in 1..(n + 1) : Replay(r, g)[i] = Merge(Replay(r, g)[i - 1], r[i].delta)
    BY <1>1, ReplayGraphs
  <2>2. Replay(r, g)[n + 1] = Merge(Replay(r, g)[(n + 1) - 1], r[n + 1].delta)
    BY <1>2, <2>1
  <2>3. QED BY <1>1, <1>2, <2>2
<1>5. Expressed(r, g) = Merge(Expressed(q, g), u.delta)
  <2> HIDE DEF r
  <2>1. QED BY <1>1, <1>3, <1>4 DEF Expressed
<1>6. QED
  BY <1>5

\* An empty queue merges.
LEMMA MergesEmpty == ASSUME NEW g PROVE Merges(<<>>, g)
BY DEF Merges

\* A queue that merges still does when a delta is added that what it
\* expresses does not reject.
LEMMA MergesAppend ==
    ASSUME NEW q \in Seq(Update), NEW u \in Update, NEW g \in Graph,
           Merges(q, g), ~Rejects(Expressed(q, g), u.delta)
    PROVE  Merges(Append(q, u), g)
<1> DEFINE n == Len(q)
           r == Append(q, u)
<1>1. /\ n \in Nat
      /\ Len(r) = n + 1
      /\ \A i \in 1..n : r[i] = q[i]
      /\ r[n + 1] = u
  BY AppendProperties, LenProperties
<1>2. \A i \in 0..n : Replay(r, g)[i] = Replay(q, g)[i]
  BY ReplayAppend
<1>3. ASSUME NEW i \in 1..(n + 1) PROVE ~Rejects(Replay(r, g)[i - 1], r[i].delta)
  <2>1. i - 1 \in 0..n /\ (i \in 1..n \/ i = n + 1)
    BY <1>1
  <2>2. Replay(r, g)[i - 1] = Replay(q, g)[i - 1]
    BY <1>2, <2>1
  <2>3. CASE i \in 1..n
    <3> HIDE DEF r, n
    <3>1. r[i] = q[i] /\ i \in 1..Len(q)
      BY <1>1, <2>3 DEF n
    <3>2. QED BY <2>2, <3>1 DEF Merges
  <2>4. CASE i = n + 1
    <3>1. i - 1 = n
      BY <1>1, <2>4
    <3> HIDE DEF r
    <3>2. QED BY <1>1, <2>2, <2>4, <3>1 DEF Expressed
  <2>5. QED BY <2>1, <2>3, <2>4
<1>4. Merges(r, g)
  <2> HIDE DEF r
  <2>1. QED BY <1>1, <1>3 DEF Merges
<1>5. QED
  BY <1>4

\* A replay that does not throw merges every delta.
LEMMA ReplayMerges ==
    ASSUME NEW q, NEW g, ~ReplayThrows(q, g)
    PROVE  Merges(q, g)
BY DEF Merges, ReplayThrows

\* Enqueueing no deltas leaves the queue as it is.
LEMMA EnqueueNothing ==
    ASSUME NEW q \in Seq(Update), NEW c
    PROVE  Enqueue(q, c, <<>>) = q
<1>1. [i \in 1..Len(<<>>) |-> [id |-> c, delta |-> <<>>[i]]] = <<>>
  OBVIOUS
<1>2. QED
  BY <1>1, ConcatEmptySeq DEF Enqueue

\* An update's deltas become entries of the queue.
LEMMA EnqueueType ==
    ASSUME NEW q \in Seq(Update), NEW c \in ChangeId, NEW deltas \in Seq(Payload)
    PROVE  Enqueue(q, c, deltas) \in Seq(Update)
<1> DEFINE tagged == [i \in 1..Len(deltas) |-> [id |-> c, delta |-> deltas[i]]]
<1>1. Len(deltas) \in Nat /\ \A i \in 1..Len(deltas) : deltas[i] \in Payload
  BY LenProperties, ElementOfSeq
<1>2. \A i \in 1..Len(deltas) : [id |-> c, delta |-> deltas[i]] \in Update
  BY <1>1 DEF Update
<1>3. tagged \in Seq(Update)
  BY <1>1, <1>2, IsASeq
<1>4. QED
  BY <1>3, ConcatProperties DEF Enqueue

\* Enqueueing one more delta appends one more entry.
LEMMA EnqueueAppend ==
    ASSUME NEW q \in Seq(Update), NEW c \in ChangeId, NEW deltas \in Seq(Payload),
           NEW p \in Payload
    PROVE  Enqueue(q, c, Append(deltas, p))
             = Append(Enqueue(q, c, deltas), [id |-> c, delta |-> p])
<1> DEFINE n == Len(deltas)
           tag(ds) == [i \in 1..Len(ds) |-> [id |-> c, delta |-> ds[i]]]
           u == [id |-> c, delta |-> p]
<1>1. /\ n \in Nat
      /\ Append(deltas, p) \in Seq(Payload)
      /\ Len(Append(deltas, p)) = n + 1
      /\ \A i \in 1..n : Append(deltas, p)[i] = deltas[i]
      /\ Append(deltas, p)[n + 1] = p
      /\ \A i \in 1..n : deltas[i] \in Payload
  BY AppendProperties, LenProperties, ElementOfSeq
<1>2. u \in Update
  BY DEF Update
<1>3. tag(deltas) \in Seq(Update) /\ Len(tag(deltas)) = n
  <2>1. \A i \in 1..n : [id |-> c, delta |-> deltas[i]] \in Update
    BY <1>1 DEF Update
  <2>2. QED BY <1>1, <2>1, IsASeq
<1>4. tag(Append(deltas, p)) = Append(tag(deltas), u)
  BY <1>1
<1>5. q \o Append(tag(deltas), u) = Append(q \o tag(deltas), u)
  <2> HIDE DEF tag, u
  <2>1. QED BY <1>2, <1>3
<1>6. QED
  BY <1>4, <1>5 DEF Enqueue

\* The queues that taking ids out of q goes through, one entry at a time.
Keeps(f, q, ids) ==
    /\ f \in [0..Len(q) -> Seq(Update)]
    /\ f[0] = <<>>
    /\ \A i \in 1..Len(q) : f[i] = IF q[i].id \in ids THEN f[i - 1]
                                   ELSE Append(f[i - 1], q[i])

LEMMA RemoveKeeps ==
    ASSUME NEW q \in Seq(Update), NEW c
    PROVE  \E f : Keeps(f, q, {c}) /\ Remove(q, c) = f[Len(q)]
<1> DEFINE n == Len(q)
           keep(i, k) == IF q[i].id = c THEN k ELSE Append(k, q[i])
           step == [i \in 1..n |-> [k \in Seq(Update) |-> keep(i, k)]]
           IsKept(f) == f = [i \in 0..n |-> IF i = 0 THEN <<>> ELSE keep(i, f[i - 1])]
<1>1. n \in Nat /\ \A i \in 1..n : q[i] \in Update
  BY LenProperties, ElementOfSeq
<1>2. step \in [1..n -> [Seq(Update) -> Seq(Update)]]
  BY <1>1, AppendProperties
<1>3. PICK f :
        f \in [0..n -> Seq(Update)] /\ f[0] = <<>> /\ \A i \in 1..n : f[i] = step[i][f[i - 1]]
  <2>1. n \in Nat /\ <<>> \in Seq(Update)
    BY <1>1
  <2>2. FoldsOf(Seq(Update), n, <<>>, step) # {}
    <3> HIDE DEF step, n, IsKept
    <3>1. QED BY <2>1, <1>2, FoldExists
  <2>3. QED
    <3> HIDE DEF step, n, IsKept
    <3>1. QED BY <2>2 DEF FoldsOf
<1>4. ASSUME NEW i \in 1..n PROVE f[i] = keep(i, f[i - 1])
  <2>1. f[i - 1] \in Seq(Update)
    BY <1>1, <1>3
  <2>2. step[i] = [k \in Seq(Update) |-> keep(i, k)]
    OBVIOUS
  <2>3. QED
    <3> HIDE DEF keep, step
    <3>1. QED BY <1>3, <2>1, <2>2
<1>5. IsKept(f)
  <2> HIDE DEF keep
  <2>1. QED BY <1>1, <1>3, <1>4
<1>6. Remove(q, c) = (CHOOSE h : IsKept(h))[n]
  BY DEF Remove
<1>7. PICK h : IsKept(h) /\ Remove(q, c) = h[n]
  <2> HIDE DEF IsKept
  <2>1. QED BY <1>5, <1>6
<1>8. \A i \in 0..n : f[i] = h[i]
  <2>1. f[0] = h[0]
    BY <1>1, <1>3, <1>7
  <2>2. StepsAgree(n, f, h)
    <3> HIDE DEF keep
    <3>1. QED BY <1>1, <1>4, <1>7 DEF StepsAgree
  <2>3. n \in Nat
    BY <1>1
  <2> HIDE DEF n, keep, step, IsKept
  <2>4. QED BY <2>1, <2>2, <2>3, FoldUnique
<1>9. h[n] = f[n]
  <2>1. n \in 0..n
    BY <1>1
  <2> HIDE DEF n
  <2>2. QED BY <1>8, <2>1
<1>10. Keeps(f, q, {c})
  <2>1. \A i \in 1..n : f[i] = keep(i, f[i - 1])
    BY <1>4
  <2>2. QED BY <1>3, <2>1 DEF Keeps
<1>11. QED
  BY <1>7, <1>9, <1>10

\* Removing an update leaves a queue.
LEMMA RemoveType ==
    ASSUME NEW q \in Seq(Update), NEW c
    PROVE  Remove(q, c) \in Seq(Update)
<1>1. Len(q) \in 0..Len(q)
  BY LenProperties
<1>2. QED
  BY <1>1, RemoveKeeps DEF Keeps

-----------------------------------------------------------------------------
(* The heap of snapshots.                                                  *)

\* What a step that stores a heap leaves in it: every snapshot that is held.
LEMMA StoreHeap ==
    ASSUME NEW h, NEW l, NEW st, Store(h, l, st)
    PROVE  /\ live' = l
           /\ stack' = st
           /\ DOMAIN snap' = Held(l, st)
           /\ \A r \in Held(l, st) : snap'[r] = h[r]
BY DEF Store, Restrict

\* Storing typed snapshots and transactions keeps the type invariant.
LEMMA StoreType ==
    ASSUME NEW h, NEW l, NEW st, Store(h, l, st),
           DOMAIN h \subseteq SnapId,
           \A s \in DOMAIN h : h[s] \in CacheSnapshot,
           l \in DOMAIN h,
           st \in Seq(Transaction), Len(st) <= MaxDepth,
           \A i \in 1..Len(st) : st[i].snapshot \in DOMAIN h
    PROVE  TypeOK'
<1>1. Held(l, st) \subseteq DOMAIN h
  BY DEF Held
<1>2. /\ live' = l
      /\ stack' = st
      /\ DOMAIN snap' = Held(l, st)
      /\ \A r \in Held(l, st) : snap'[r] = h[r]
  BY StoreHeap
<1>3. live' \in DOMAIN snap'
  BY <1>2 DEF Held
<1>4. \A i \in 1..Len(st) : st[i].snapshot \in DOMAIN snap'
  BY <1>2 DEF Held
<1>5. QED
  BY <1>1, <1>2, <1>3, <1>4 DEF TypeOK

\* The innermost transaction of a non-empty stack.
LEMMA TopType ==
    ASSUME TypeOK, stack # <<>>
    PROVE  /\ Len(stack) \in 1..MaxDepth
           /\ top \in Transaction
           /\ top.snapshot \in DOMAIN snap
           /\ current \in CacheSnapshot
<1>1. stack \in Seq(Transaction) /\ Len(stack) \in Nat /\ Len(stack) # 0
  BY LenProperties, EmptySeq DEF TypeOK
<1>2. Len(stack) \in 1..Len(stack)
  BY <1>1
<1>3. top \in Transaction
  BY <1>1, <1>2, ElementOfSeq DEF top
<1>4. QED
  BY <1>1, <1>2, <1>3, BoundAssumption DEF TypeOK, top, current

\* Replacing or removing the innermost transaction.
LEMMA WithTopType ==
    ASSUME TypeOK, stack # <<>>, NEW t \in Transaction
    PROVE  /\ WithTop(t) \in Seq(Transaction)
           /\ Len(WithTop(t)) = Len(stack)
           /\ WithTop(t)[Len(stack)] = t
           /\ \A i \in 1..(Len(stack) - 1) : WithTop(t)[i] = stack[i]
<1>1. stack \in Seq(Transaction) /\ Len(stack) \in Nat /\ Len(stack) \in 1..Len(stack)
  BY TopType DEF TypeOK
<1>2. QED
  BY <1>1, ExceptSeq DEF WithTop

LEMMA PoppedType ==
    ASSUME TypeOK, stack # <<>>
    PROVE  /\ Popped \in Seq(Transaction)
           /\ Len(Popped) = Len(stack) - 1
           /\ \A i \in 1..(Len(stack) - 1) : Popped[i] = stack[i]
<1>1. stack \in Seq(Transaction) /\ Len(stack) \in Nat /\ Len(stack) \in 1..Len(stack)
  BY TopType DEF TypeOK
<1> DEFINE n == Len(stack) - 1
<1>2. n \in Int /\ 1 \in Int /\ \A i \in 1..n : stack[i] \in Transaction
  BY <1>1, ElementOfSeq
<1>3. /\ SubSeq(stack, 1, n) \in Seq(Transaction)
      /\ Len(SubSeq(stack, 1, n)) = IF 1 <= n THEN n - 1 + 1 ELSE 0
      /\ \A i \in 1..(n - 1 + 1) : SubSeq(stack, 1, n)[i] = stack[1 + i - 1]
  <2> HIDE DEF n
  <2>1. QED BY <1>2, SubSeqProperties
<1>4. Popped = SubSeq(stack, 1, n)
  BY DEF Popped
<1>5. n \in Nat /\ n - 1 + 1 = n /\ \A i \in 1..n : 1 + i - 1 = i
  BY <1>1
<1>6. QED
  <2>1. n = Len(stack) - 1
    OBVIOUS
  <2> HIDE DEF n
  <2>2. Popped \in Seq(Transaction) /\ Len(Popped) = n
    BY <1>3, <1>4, <1>5
  <2>3. \A i \in 1..n : Popped[i] = stack[i]
    BY <1>3, <1>4, <1>5
  <2>4. QED BY <2>1, <2>2, <2>3

\* A step that advances the innermost transaction.
LEMMA AdvanceType ==
    ASSUME TypeOK, stack # <<>>,
           NEW h, DOMAIN h = DOMAIN snap, \A s \in DOMAIN h : h[s] \in CacheSnapshot,
           NEW t \in Transaction, NEW v \in CacheSnapshot,
           Advance(h, t, v)
    PROVE  TypeOK'
<1>1. PICK s \in Fresh : Store(Put(h, s, v), live, WithTop([t EXCEPT !.snapshot = s]))
  BY DEF Advance
<1> DEFINE u == [t EXCEPT !.snapshot = s]
           k == Put(h, s, v)
<1>2. s \in SnapId /\ s \notin DOMAIN snap
  BY <1>1 DEF Fresh
<1>3. u \in Transaction /\ u.snapshot = s
  BY <1>2 DEF Transaction
<1>4. DOMAIN k = DOMAIN snap \cup {s} /\ \A r \in DOMAIN k : k[r] \in CacheSnapshot
  BY DEF Put
<1>5. /\ WithTop(u) \in Seq(Transaction)
      /\ Len(WithTop(u)) = Len(stack)
      /\ WithTop(u)[Len(stack)] = u
      /\ \A i \in 1..(Len(stack) - 1) : WithTop(u)[i] = stack[i]
  BY <1>3, WithTopType
<1>6. \A i \in 1..Len(stack) : WithTop(u)[i].snapshot \in DOMAIN k
  <2>1. \A i \in 1..(Len(stack) - 1) : stack[i].snapshot \in DOMAIN snap
    BY TopType DEF TypeOK
  <2>2. \A i \in 1..Len(stack) : i = Len(stack) \/ i \in 1..(Len(stack) - 1)
    BY TopType
  <2> HIDE DEF u, k
  <2>3. QED BY <1>3, <1>4, <1>5, <2>1, <2>2
<1>7. DOMAIN k \subseteq SnapId /\ live \in DOMAIN k /\ Len(stack) <= MaxDepth
  BY <1>2, <1>4 DEF TypeOK
<1>8. QED
  <2> HIDE DEF u, k
  <2>1. Store(k, live, WithTop(u))
    BY <1>1 DEF u, k
  <2>2. QED BY <2>1, <1>4, <1>5, <1>6, <1>7, StoreType

\* A step that only changes the innermost transaction, but not its snapshot.
LEMMA SameHeapType ==
    ASSUME TypeOK, stack # <<>>, NEW t \in Transaction, t.snapshot = top.snapshot,
           stack' = WithTop(t), UNCHANGED <<live, snap>>
    PROVE  TypeOK'
<1>1. /\ WithTop(t) \in Seq(Transaction)
      /\ Len(WithTop(t)) = Len(stack)
      /\ WithTop(t)[Len(stack)] = t
      /\ \A i \in 1..(Len(stack) - 1) : WithTop(t)[i] = stack[i]
  BY WithTopType
<1>2. \A i \in 1..Len(stack) : i = Len(stack) \/ i \in 1..(Len(stack) - 1)
  BY TopType
<1>3. \A i \in 1..Len(stack) : WithTop(t)[i].snapshot \in DOMAIN snap
  BY <1>1, <1>2, TopType DEF TypeOK
<1>4. QED
  BY <1>1, <1>3 DEF TypeOK

-----------------------------------------------------------------------------
(* Type correctness, action by action.                                     *)

LEMMA InitType == Init => TypeOK
<1> SUFFICES ASSUME Init PROVE TypeOK
  OBVIOUS
<1>1. PICK s \in SnapId :
        /\ live = s
        /\ snap = [r \in {s} |-> [baseline |-> EmptyGraph, optimistic |-> EmptyGraph,
                                  queue |-> <<>>, shown |-> <<>>]]
        /\ stack = <<>>
  BY DEF Init
<1>2. <<>> \in Seq(Update) /\ <<>> \in Seq(Transaction) /\ Len(<<>>) = 0
  OBVIOUS
<1>3. QED
  BY <1>1, <1>2, GraphAssumption, BoundAssumption DEF TypeOK, CacheSnapshot

LEMMA BeginType ==
    ASSUME TypeOK, NEW c \in ChangeId \cup {NoChange}, Begin(c)
    PROVE  TypeOK'
<1> DEFINE t == [changeId |-> c, snapshot |-> live,
                 parent |-> IF c = NoChange THEN snap[live].baseline
                                            ELSE snap[live].optimistic,
                 edited |-> {}, deltas |-> <<>>, phase |-> "callback",
                 updaters |-> {}, raised |-> FALSE,
                 lagging |-> snap[live].queue # snap[live].shown]
<1>1. snap[live] \in CacheSnapshot /\ live \in SnapId /\ live \in DOMAIN snap
  BY DEF TypeOK
<1>2. t \in Transaction /\ t.snapshot = live
  BY <1>1 DEF Transaction, CacheSnapshot
<1>3. stack' = Append(stack, t) /\ Len(stack) < MaxDepth /\ snap' = snap /\ live' = live
  BY DEF Begin
<1>4. stack \in Seq(Transaction) /\ Len(stack) \in Nat
  BY LenProperties DEF TypeOK
<1>5. /\ stack' \in Seq(Transaction)
      /\ Len(stack') = Len(stack) + 1
      /\ \A i \in 1..Len(stack) : stack'[i] = stack[i]
      /\ stack'[Len(stack) + 1] = t
  <2> HIDE DEF t
  <2>1. QED BY <1>2, <1>3, <1>4, AppendProperties
<1>6. \A i \in 1..Len(stack') : i \in 1..Len(stack) \/ i = Len(stack) + 1
  BY <1>4, <1>5
<1>7. \A i \in 1..Len(stack') : stack'[i].snapshot \in DOMAIN snap
  <2> HIDE DEF t
  <2>1. QED BY <1>1, <1>2, <1>5, <1>6 DEF TypeOK
<1>8. QED
  <2> HIDE DEF t
  <2>1. QED BY <1>3, <1>4, <1>5, <1>7, BoundAssumption DEF TypeOK

LEMMA WriteBaselineType ==
    ASSUME TypeOK, NEW p \in Payload, WriteBaseline(p)
    PROVE  TypeOK'
<1> DEFINE b == Merge(current.baseline, p)
           t == [top EXCEPT !.edited = @ \cup Edits(current.baseline, p)
                                         \cup ReplayEdits(current.queue, b)]
           v == [baseline |-> b, optimistic |-> Expressed(current.queue, b),
                 queue |-> current.queue, shown |-> current.queue]
<1>1. stack # <<>> /\ Advance(snap, t, v)
  BY DEF WriteBaseline, Running
<1>2. top \in Transaction /\ current \in CacheSnapshot
  BY <1>1, TopType
<1>3. current.baseline \in Graph /\ current.queue \in Seq(Update)
  BY <1>2 DEF CacheSnapshot
<1>4. b \in Graph /\ Edits(current.baseline, p) \subseteq Node
  BY <1>3, MergeAssumption
<1>5. v \in CacheSnapshot
  BY <1>3, <1>4, ExpressedType DEF CacheSnapshot
<1>6. t \in Transaction
  BY <1>2, <1>3, <1>4, ReplayEditsType DEF Transaction
<1>7. QED
  <2> HIDE DEF t, v
  <2>1. \A s \in DOMAIN snap : snap[s] \in CacheSnapshot
    BY DEF TypeOK
  <2>2. QED BY <1>1, <1>5, <1>6, <2>1, AdvanceType

LEMMA RaiseType ==
    ASSUME TypeOK, stack # <<>>, NEW t \in Transaction, t.snapshot = top.snapshot,
           Raise(t)
    PROVE  TypeOK'
<1> DEFINE u == [t EXCEPT !.raised = TRUE]
<1>1. u \in Transaction /\ u.snapshot = top.snapshot
  BY DEF Transaction
<1>2. stack' = WithTop(u) /\ UNCHANGED <<live, snap>>
  BY DEF Raise
<1>3. QED
  <2> HIDE DEF u
  <2>1. QED BY <1>1, <1>2, SameHeapType

LEMMA WriteBaselineThrowsType ==
    ASSUME TypeOK, NEW p \in Payload,
           WriteBaselineRejected(p) \/ WriteBaselineNotReplayed(p)
    PROVE  TypeOK'
<1>1. stack # <<>>
  BY DEF WriteBaselineRejected, WriteBaselineNotReplayed, Running
<1>2. top \in Transaction /\ current \in CacheSnapshot
  BY <1>1, TopType
<1>3. CASE WriteBaselineRejected(p)
  BY <1>1, <1>2, <1>3, RaiseType DEF WriteBaselineRejected
<1>4. CASE WriteBaselineNotReplayed(p)
  <2> DEFINE t == [top EXCEPT !.edited = @ \cup Edits(current.baseline, p)]
  <2>1. Edits(current.baseline, p) \subseteq Node
    BY <1>2, MergeAssumption DEF CacheSnapshot
  <2>2. t \in Transaction /\ t.snapshot = top.snapshot
    BY <1>2, <2>1 DEF Transaction
  <2>3. Raise(t)
    BY <1>4 DEF WriteBaselineNotReplayed
  <2>4. QED
    <3> HIDE DEF t
    <3>1. QED BY <1>1, <2>2, <2>3, RaiseType
<1>5. QED
  BY <1>3, <1>4

LEMMA WriteOptimisticType ==
    ASSUME TypeOK, NEW p \in Payload, WriteOptimistic(p)
    PROVE  TypeOK'
<1> DEFINE t == [top EXCEPT !.deltas = Append(@, p)]
           u == [t EXCEPT !.edited = @ \cup Edits(current.optimistic, p)]
           v == [current EXCEPT !.optimistic = Merge(@, p)]
<1>1. stack # <<>>
  BY DEF WriteOptimistic, Running
<1>2. top \in Transaction /\ current \in CacheSnapshot
  BY <1>1, TopType
<1>3. /\ Merge(current.optimistic, p) \in Graph
      /\ Edits(current.optimistic, p) \subseteq Node
  BY <1>2, MergeAssumption DEF CacheSnapshot
<1>4. top.deltas \in Seq(Payload) /\ Append(top.deltas, p) \in Seq(Payload)
  BY <1>2, AppendProperties DEF Transaction
<1>5. t \in Transaction /\ t.snapshot = top.snapshot
  BY <1>2, <1>4 DEF Transaction
<1>6. u \in Transaction
  <2> HIDE DEF t
  <2>1. QED BY <1>3, <1>5 DEF Transaction
<1>7. v \in CacheSnapshot
  BY <1>2, <1>3 DEF CacheSnapshot
<1>8. Advance(snap, u, v) \/ Raise(t)
  BY DEF WriteOptimistic
<1>9. QED
  <2> HIDE DEF t, u, v
  <2>1. \A s \in DOMAIN snap : snap[s] \in CacheSnapshot
    BY DEF TypeOK
  <2>2. QED BY <1>1, <1>5, <1>6, <1>7, <1>8, <2>1, AdvanceType, RaiseType

LEMMA RollbackType ==
    ASSUME TypeOK, NEW c \in ChangeId, Rollback(c)
    PROVE  TypeOK'
<1> DEFINE q == Remove(current.queue, c)
           h == [snap EXCEPT ![top.snapshot].queue = q]
           t == [top EXCEPT !.edited = @ \cup NodeIds(current.optimistic)
                                         \cup ReplayEdits(q, current.baseline)]
           v == [baseline |-> current.baseline,
                 optimistic |-> Expressed(q, current.baseline),
                 queue |-> q, shown |-> q]
<1>1. stack # <<>>
  BY DEF Rollback, Running
<1>2. top \in Transaction /\ top.snapshot \in DOMAIN snap /\ current \in CacheSnapshot
  BY <1>1, TopType
<1>3. /\ current.baseline \in Graph
      /\ current.optimistic \in Graph
      /\ current.queue \in Seq(Update)
  BY <1>2 DEF CacheSnapshot
<1>4. q \in Seq(Update)
  BY <1>3, RemoveType
<1>5. DOMAIN h = DOMAIN snap /\ \A s \in DOMAIN h : h[s] \in CacheSnapshot
  <2> HIDE DEF q
  <2>1. QED BY <1>4 DEF TypeOK, CacheSnapshot
<1>6. t \in Transaction
  <2> HIDE DEF q
  <2>1. QED BY <1>2, <1>3, <1>4, GraphAssumption, ReplayEditsType DEF Transaction
<1>7. v \in CacheSnapshot
  <2> HIDE DEF q
  <2>1. QED BY <1>3, <1>4, ExpressedType DEF CacheSnapshot
<1>8. CASE Advance(h, t, v)
  <2> HIDE DEF h, t, v
  <2>1. QED BY <1>1, <1>5, <1>6, <1>7, <1>8, AdvanceType
<1>9. CASE /\ snap' = h
           /\ stack' = WithTop([top EXCEPT !.raised = TRUE, !.lagging = @ \/ top.snapshot = live])
           /\ UNCHANGED live
  <2> DEFINE u == [top EXCEPT !.raised = TRUE, !.lagging = @ \/ top.snapshot = live]
  <2>1. u \in Transaction /\ u.snapshot = top.snapshot
    BY <1>2 DEF Transaction
  <2>2. /\ WithTop(u) \in Seq(Transaction)
        /\ Len(WithTop(u)) = Len(stack)
        /\ WithTop(u)[Len(stack)] = u
        /\ \A i \in 1..(Len(stack) - 1) : WithTop(u)[i] = stack[i]
    BY <2>1, <1>1, WithTopType
  <2>3. \A i \in 1..Len(stack) : i = Len(stack) \/ i \in 1..(Len(stack) - 1)
    BY <1>1, TopType
  <2>4. \A i \in 1..Len(stack) : WithTop(u)[i].snapshot \in DOMAIN snap
    BY <1>2, <2>1, <2>2, <2>3 DEF TypeOK
  <2>5. stack' = WithTop(u) /\ snap' = h /\ live' = live
    BY <1>9
  <2>6. QED
    <3> HIDE DEF h, u
    <3>1. QED BY <1>5, <2>2, <2>4, <2>5 DEF TypeOK
<1>10. QED
  BY <1>8, <1>9 DEF Rollback

LEMMA ControlType ==
    ASSUME TypeOK, Catch \/ Throw \/ CallbackReturns \/ UpdaterReturns
    PROVE  TypeOK'
<1>1. stack # <<>> /\ UNCHANGED <<live, snap>>
  BY DEF Catch, Throw, CallbackReturns, UpdaterReturns, Running, Raise
<1>2. top \in Transaction
  BY <1>1, TopType
<1>3. PICK t \in Transaction : t.snapshot = top.snapshot /\ stack' = WithTop(t)
  <2>1. CASE Catch
    <3>1. [top EXCEPT !.raised = FALSE] \in Transaction
      BY <1>2 DEF Transaction
    <3>2. QED BY <1>2, <2>1, <3>1 DEF Catch, Transaction
  <2>2. CASE Throw
    <3>1. [top EXCEPT !.raised = TRUE] \in Transaction
      BY <1>2 DEF Transaction
    <3>2. QED BY <1>2, <2>2, <3>1 DEF Throw, Raise, Transaction
  <2>3. CASE CallbackReturns
    <3> DEFINE u == top.edited \cap HasUpdater
                      \cap (NodeIds(GraphOf(top)) \cup NodeIds(top.parent))
    <3>1. [top EXCEPT !.phase = "updaters", !.updaters = u] \in Transaction
      BY <1>2 DEF Transaction
    <3>2. QED BY <1>2, <2>3, <3>1 DEF CallbackReturns, Transaction
  <2>4. CASE UpdaterReturns
    <3>1. PICK n \in top.updaters : stack' = WithTop([top EXCEPT !.updaters = @ \ {n}])
      BY <2>4 DEF UpdaterReturns
    <3>2. [top EXCEPT !.updaters = @ \ {n}] \in Transaction
      BY <1>2 DEF Transaction
    <3>3. QED BY <1>2, <3>1, <3>2 DEF Transaction
  <2>5. QED
    BY <2>1, <2>2, <2>3, <2>4
<1>4. QED
  BY <1>1, <1>3, SameHeapType

LEMMA AbortType ==
    ASSUME TypeOK, Abort PROVE TypeOK'
<1>1. stack # <<>> /\ Store(snap, live, Popped)
  BY DEF Abort
<1>2. /\ Popped \in Seq(Transaction)
      /\ Len(Popped) = Len(stack) - 1
      /\ \A i \in 1..(Len(stack) - 1) : Popped[i] = stack[i]
  BY <1>1, PoppedType
<1>3. Len(stack) \in 1..MaxDepth /\ Len(stack) <= MaxDepth
  BY <1>1, TopType DEF TypeOK
<1>4. Len(Popped) <= MaxDepth /\ \A i \in 1..Len(Popped) : Popped[i].snapshot \in DOMAIN snap
  BY <1>2, <1>3, BoundAssumption DEF TypeOK
<1>5. QED
  BY <1>1, <1>2, <1>4, StoreType DEF TypeOK

LEMMA EscapeType ==
    ASSUME TypeOK, Escape PROVE TypeOK'
<1> DEFINE n  == Len(stack) - 1
           st == [i \in 1..n |-> IF i = n THEN [stack[i] EXCEPT !.raised = TRUE] ELSE stack[i]]
<1>1. stack # <<>> /\ Store(snap, live, st)
  BY DEF Escape
<1>2. Len(stack) \in 1..MaxDepth /\ Len(stack) <= MaxDepth
  BY <1>1, TopType DEF TypeOK
<1>3. n \in Nat /\ n <= MaxDepth /\ \A i \in 1..n : i \in 1..Len(stack)
  BY <1>2, BoundAssumption
<1>4. \A i \in 1..n : stack[i] \in Transaction /\ stack[i].snapshot \in DOMAIN snap
  <2>1. stack \in Seq(Transaction)
    BY DEF TypeOK
  <2>2. QED BY <1>3, <2>1, ElementOfSeq DEF TypeOK
<1>5. \A i \in 1..n : st[i] \in Transaction /\ st[i].snapshot \in DOMAIN snap
  <2>1. ASSUME NEW t \in Transaction
        PROVE  /\ [t EXCEPT !.raised = TRUE] \in Transaction
               /\ [t EXCEPT !.raised = TRUE].snapshot = t.snapshot
    BY DEF Transaction
  <2>2. \A i \in 1..n : st[i] = [stack[i] EXCEPT !.raised = TRUE] \/ st[i] = stack[i]
    OBVIOUS
  <2> HIDE DEF st, n
  <2>3. QED BY <1>4, <2>1, <2>2
<1>6. st \in Seq(Transaction) /\ Len(st) = n
  <2>1. DOMAIN st = 1..n /\ st = [i \in 1..n |-> st[i]]
    OBVIOUS
  <2> HIDE DEF st, n
  <2>2. st \in [1..n -> Transaction]
    BY <1>5, <2>1
  <2>3. QED BY <1>3, <2>2
<1>7. QED
  <2> HIDE DEF st, n
  <2>1. QED BY <1>1, <1>3, <1>5, <1>6, StoreType DEF TypeOK

LEMMA CommitType ==
    ASSUME TypeOK, Commit PROVE TypeOK'
<1>1. stack # <<>>
  BY DEF Commit
<1>2. top \in Transaction /\ top.snapshot \in DOMAIN snap /\ current \in CacheSnapshot
  BY <1>1, TopType
<1>3. /\ Popped \in Seq(Transaction)
      /\ Len(Popped) = Len(stack) - 1
      /\ \A i \in 1..(Len(stack) - 1) : Popped[i] = stack[i]
  BY <1>1, PoppedType
<1>4. Len(stack) \in 1..MaxDepth /\ Len(stack) <= MaxDepth
  BY <1>1, TopType DEF TypeOK
<1>5. Len(Popped) <= MaxDepth /\ \A i \in 1..Len(Popped) : Popped[i].snapshot \in DOMAIN snap
  BY <1>3, <1>4, BoundAssumption DEF TypeOK
<1>6. CASE Store(snap, top.snapshot, Popped)
  BY <1>2, <1>3, <1>5, <1>6, StoreType DEF TypeOK
<1>7. CASE top.changeId # NoChange
  <2> DEFINE v == [current EXCEPT !.queue = Enqueue(@, top.changeId, top.deltas),
                                  !.shown = Enqueue(@, top.changeId, top.deltas)]
  <2>1. SUFFICES ASSUME NEW s \in Fresh, Store(Put(snap, s, v), s, Popped)
                 PROVE  TypeOK'
    BY <1>6, <1>7 DEF Commit
  <2>2. top.changeId \in ChangeId /\ top.deltas \in Seq(Payload)
    BY <1>2, <1>7 DEF Transaction
  <2>3. v \in CacheSnapshot
    BY <1>2, <2>2, EnqueueType DEF CacheSnapshot
  <2>4. /\ DOMAIN Put(snap, s, v) = DOMAIN snap \cup {s}
        /\ \A r \in DOMAIN Put(snap, s, v) : Put(snap, s, v)[r] \in CacheSnapshot
    <3> HIDE DEF v
    <3>1. QED BY <2>3 DEF Put, TypeOK
  <2>5. DOMAIN Put(snap, s, v) \subseteq SnapId
    BY <2>4 DEF Fresh, TypeOK
  <2>6. QED
    <3> HIDE DEF v
    <3>1. QED BY <1>3, <1>5, <2>1, <2>4, <2>5, StoreType
<1>8. QED
  BY <1>6, <1>7 DEF Commit

LEMMA ReplaceType ==
    ASSUME TypeOK, NEW g \in Graph, Replace(g) PROVE TypeOK'
<1> DEFINE v == [baseline |-> g, optimistic |-> g, queue |-> <<>>, shown |-> <<>>]
<1>1. PICK s \in Fresh : Store(Put(snap, s, v), s, stack)
  BY DEF Replace
<1>2. <<>> \in Seq(Update)
  OBVIOUS
<1>3. v \in CacheSnapshot
  BY <1>2 DEF CacheSnapshot
<1>4. /\ DOMAIN Put(snap, s, v) = DOMAIN snap \cup {s}
      /\ \A r \in DOMAIN Put(snap, s, v) : Put(snap, s, v)[r] \in CacheSnapshot
  <2> HIDE DEF v
  <2>1. QED BY <1>3 DEF Put, TypeOK
<1>5. DOMAIN Put(snap, s, v) \subseteq SnapId
  BY <1>4 DEF Fresh, TypeOK
<1>6. \A i \in 1..Len(stack) : stack[i].snapshot \in DOMAIN Put(snap, s, v)
  BY <1>4 DEF TypeOK
<1>7. stack \in Seq(Transaction) /\ Len(stack) <= MaxDepth /\ s \in DOMAIN Put(snap, s, v)
  BY <1>4 DEF TypeOK
<1>8. QED
  <2> HIDE DEF v
  <2>1. QED BY <1>1, <1>4, <1>5, <1>6, <1>7, StoreType

LEMMA NextType == TypeOK /\ [Next]_vars => TypeOK'
<1> SUFFICES ASSUME TypeOK, [Next]_vars PROVE TypeOK'
  OBVIOUS
<1>1. ASSUME NEW c \in ChangeId \cup {NoChange}, Begin(c) PROVE TypeOK'
  BY <1>1, BeginType
<1>2. ASSUME NEW p \in Payload, WriteBaseline(p) PROVE TypeOK'
  BY <1>2, WriteBaselineType
<1>3. ASSUME NEW p \in Payload, WriteBaselineRejected(p) \/ WriteBaselineNotReplayed(p)
      PROVE  TypeOK'
  BY <1>3, WriteBaselineThrowsType
<1>4. ASSUME NEW p \in Payload, WriteOptimistic(p) PROVE TypeOK'
  BY <1>4, WriteOptimisticType
<1>5. ASSUME NEW c \in ChangeId, Rollback(c) PROVE TypeOK'
  BY <1>5, RollbackType
<1>6. CASE Catch \/ Throw \/ CallbackReturns \/ UpdaterReturns
  BY <1>6, ControlType
<1>7. CASE Abort
  BY <1>7, AbortType
<1>8. CASE Escape
  BY <1>8, EscapeType
<1>9. CASE Commit
  BY <1>9, CommitType
<1>10. CASE Restore
  BY <1>10, ReplaceType, GraphAssumption DEF Restore
<1>11. CASE Reset
  BY <1>11, ReplaceType, GraphAssumption DEF Reset
<1>12. CASE UNCHANGED vars
  BY <1>12 DEF vars, TypeOK
<1>13. QED
  BY <1>1, <1>2, <1>3, <1>4, <1>5, <1>6, <1>7, <1>8, <1>9, <1>10, <1>11, <1>12 DEF Next

\* Every transaction, and the cache, always refers to a CacheSnapshot that
\* exists, and every snapshot and transaction has its type: the fields that
\* CacheTransaction.ts and CacheSnapshot.ts declare.
THEOREM TypeCorrect == Spec => []TypeOK
<1>1. Init => TypeOK
  BY InitType
<1>2. TypeOK /\ [Next]_vars => TypeOK'
  BY NextType
<1>3. QED
  BY <1>1, <1>2, PTL DEF Spec

-----------------------------------------------------------------------------
(* Transactions that do not nest.                                          *)

Sequential == "nest" \notin Usage

\* The only transaction of a stack.
LEMMA OneRuns ==
    ASSUME TypeOK, Len(stack) <= 1, stack # <<>>
    PROVE  /\ Len(stack) = 1
           /\ top = stack[1]
           /\ Popped = <<>>
<1>1. Len(stack) = 1
  <2> DEFINE n == Len(stack)
  <2>1. n <= 1
    OBVIOUS
  <2>2. n \in Nat /\ n # 0
    BY LenProperties, EmptySeq DEF TypeOK
  <2>3. n = 1
    <3> HIDE DEF n
    <3>1. QED BY <2>1, <2>2
  <2>4. QED BY <2>3
<1>2. Len(Popped) = 0 /\ Popped \in Seq(Transaction)
  BY <1>1, PoppedType
<1>3. QED
  BY <1>1, <1>2, EmptySeq DEF top

-----------------------------------------------------------------------------
(* The optimistic graph is a replay, and the queue merges.  This is proved *)
(* of applications that let what a write or a rollback throws abort the    *)
(* transaction, and that do not roll back in an optimistic transaction     *)
(* that has written.  A write that throws has recorded a delta that it did *)
(* not merge, and a rollback makes the optimistic graph anew, without the  *)
(* deltas written so far: a transaction that goes on commits them, though. *)

Disciplined == "catch" \notin Usage /\ "mix" \notin Usage

\* A snapshot shows the updates of q, and all of them merge.
Settled(v, q) == v.optimistic = Expressed(q, v.baseline) /\ Merges(q, v.baseline)

\* ShowsDeltas of a transaction whose snapshot has the value v.
FrameOK(v, t) ==
    /\ t.changeId = NoChange => t.deltas = <<>>
    /\ ~t.raised => Settled(v, Enqueue(v.shown, t.changeId, t.deltas))

\* Two values of a snapshot that differ in no more than the queue.
SameShown(v, w) ==
    v.baseline = w.baseline /\ v.optimistic = w.optimistic /\ v.shown = w.shown

LEMMA ReplayInvFrames ==
    ReplayInv <=> /\ Settled(snap[live], snap[live].shown)
                  /\ \A i \in 1..Len(stack) : FrameOK(snap[stack[i].snapshot], stack[i])
BY DEF ReplayInv, OptimisticIsReplay, ShownMerges, ShowsDeltas, FrameOK, Settled

LEMMA FrameSame ==
    ASSUME NEW v, NEW w, NEW t, SameShown(v, w), FrameOK(v, t)
    PROVE  FrameOK(w, t)
BY DEF SameShown, FrameOK, Settled

\* The invariant of the next state.
LEMMA ReplayInvNext ==
    ReplayInv' <=> /\ Settled(snap'[live'], snap'[live'].shown)
                   /\ \A i \in 1..Len(stack') : FrameOK(snap'[stack'[i].snapshot], stack'[i])
BY DEF ReplayInv, OptimisticIsReplay, ShownMerges, ShowsDeltas, FrameOK, Settled

\* Storing a heap in which the live snapshot and every transaction's snapshot
\* show what they should keeps the invariant.
LEMMA StoreReplay ==
    ASSUME NEW h, NEW l, NEW st, Store(h, l, st),
           Settled(h[l], h[l].shown),
           \A i \in 1..Len(st) : FrameOK(h[st[i].snapshot], st[i])
    PROVE  ReplayInv'
<1>1. live' = l /\ stack' = st /\ \A r \in Held(l, st) : snap'[r] = h[r]
  BY StoreHeap
<1>2. l \in Held(l, st) /\ \A i \in 1..Len(st) : st[i].snapshot \in Held(l, st)
  BY DEF Held
<1>3. snap'[l] = h[l] /\ \A i \in 1..Len(st) : snap'[st[i].snapshot] = h[st[i].snapshot]
  BY <1>1, <1>2
<1>4. QED
  BY <1>1, <1>3, ReplayInvNext

\* A step that advances the innermost transaction to a new snapshot.
LEMMA AdvanceReplay ==
    ASSUME TypeOK, ReplayInv, stack # <<>>,
           NEW h, DOMAIN h = DOMAIN snap,
           \A r \in DOMAIN snap : SameShown(snap[r], h[r]),
           NEW t \in Transaction, NEW v, FrameOK(v, t), Advance(h, t, v)
    PROVE  ReplayInv'
<1>1. PICK s \in Fresh : Store(Put(h, s, v), live, WithTop([t EXCEPT !.snapshot = s]))
  BY DEF Advance
<1> DEFINE u == [t EXCEPT !.snapshot = s]
           k == Put(h, s, v)
<1>2. s \in SnapId /\ s \notin DOMAIN snap
  BY <1>1 DEF Fresh
<1>3. u \in Transaction /\ u.snapshot = s /\ FrameOK(v, u)
  BY <1>2 DEF Transaction, FrameOK
<1>4. k[s] = v /\ \A r \in DOMAIN snap : k[r] = h[r]
  BY <1>2 DEF Put
<1>5. /\ WithTop(u) \in Seq(Transaction)
      /\ Len(WithTop(u)) = Len(stack)
      /\ WithTop(u)[Len(stack)] = u
      /\ \A i \in 1..(Len(stack) - 1) : WithTop(u)[i] = stack[i]
  BY <1>3, WithTopType
<1>6. ASSUME NEW i \in 1..Len(stack)
      PROVE  FrameOK(k[WithTop(u)[i].snapshot], WithTop(u)[i])
  <2> HIDE DEF u, k
  <2>1. CASE i = Len(stack)
    BY <1>3, <1>4, <1>5, <2>1
  <2>2. CASE i # Len(stack)
    <3>1. i \in 1..(Len(stack) - 1)
      BY <2>2, TopType
    <3>2. stack[i].snapshot \in DOMAIN snap
      BY DEF TypeOK
    <3>3. FrameOK(snap[stack[i].snapshot], stack[i])
      BY ReplayInvFrames
    <3>4. SameShown(snap[stack[i].snapshot], k[stack[i].snapshot])
      BY <1>4, <3>2
    <3>5. QED BY <1>5, <3>1, <3>3, <3>4, FrameSame
  <2>3. QED BY <2>1, <2>2
<1>7. Settled(k[live], k[live].shown)
  <2> HIDE DEF k
  <2>1. live \in DOMAIN snap /\ SameShown(snap[live], k[live])
    BY <1>4 DEF TypeOK
  <2>2. QED BY <2>1, ReplayInvFrames DEF SameShown, Settled
<1>8. QED
  <2> HIDE DEF u, k
  <2>1. Store(k, live, WithTop(u))
    BY <1>1 DEF u, k
  <2>2. QED BY <2>1, <1>5, <1>6, <1>7, StoreReplay

\* A step that changes nothing but the innermost transaction and queues.
LEMMA SameHeapReplay ==
    ASSUME TypeOK, ReplayInv, stack # <<>>,
           live' = live, DOMAIN snap' = DOMAIN snap,
           \A r \in DOMAIN snap : SameShown(snap[r], snap'[r]),
           NEW t \in Transaction, t.snapshot = top.snapshot,
           stack' = WithTop(t), FrameOK(current, t)
    PROVE  ReplayInv'
<1>1. /\ WithTop(t) \in Seq(Transaction)
      /\ Len(WithTop(t)) = Len(stack)
      /\ WithTop(t)[Len(stack)] = t
      /\ \A i \in 1..(Len(stack) - 1) : WithTop(t)[i] = stack[i]
  BY WithTopType
<1>2. ASSUME NEW i \in 1..Len(stack)
      PROVE  FrameOK(snap'[stack'[i].snapshot], stack'[i])
  <2>1. CASE i = Len(stack)
    <3>1. top.snapshot \in DOMAIN snap
      BY TopType
    <3>2. SameShown(current, snap'[t.snapshot])
      BY <3>1 DEF current
    <3>3. QED BY <1>1, <2>1, <3>2, FrameSame
  <2>2. CASE i # Len(stack)
    <3>1. i \in 1..(Len(stack) - 1)
      BY <2>2, TopType
    <3>2. stack[i].snapshot \in DOMAIN snap
      BY DEF TypeOK
    <3>3. FrameOK(snap[stack[i].snapshot], stack[i])
      BY ReplayInvFrames
    <3>4. SameShown(snap[stack[i].snapshot], snap'[stack[i].snapshot])
      BY <3>2
    <3>5. QED BY <1>1, <3>1, <3>3, <3>4, FrameSame
  <2>3. QED BY <2>1, <2>2
<1>3. Settled(snap'[live'], snap'[live'].shown)
  <2>1. live \in DOMAIN snap /\ SameShown(snap[live], snap'[live])
    BY DEF TypeOK
  <2>2. QED BY <2>1, ReplayInvFrames DEF SameShown, Settled
<1>4. Len(stack') = Len(stack)
  BY <1>1
<1>5. QED
  BY <1>2, <1>3, <1>4, ReplayInvNext

\* The innermost transaction shows its deltas, unless an exception propagates.
LEMMA TopReplay ==
    ASSUME TypeOK, ReplayInv, stack # <<>>
    PROVE  FrameOK(current, top)
<1>1. Len(stack) \in 1..Len(stack)
  BY TopType
<1>2. QED
  BY <1>1, ReplayInvFrames DEF top, current

LEMMA InitReplay == Init => ReplayInv
<1> SUFFICES ASSUME Init PROVE ReplayInv
  OBVIOUS
<1>1. PICK s \in SnapId :
        /\ live = s
        /\ snap = [r \in {s} |-> [baseline |-> EmptyGraph, optimistic |-> EmptyGraph,
                                  queue |-> <<>>, shown |-> <<>>]]
        /\ stack = <<>>
  BY DEF Init
<1>2. Len(stack) = 0
  BY <1>1
<1>3. QED
  BY <1>1, <1>2, GraphAssumption, ExpressedEmpty, MergesEmpty, ReplayInvFrames DEF Settled

LEMMA BeginReplay ==
    ASSUME TypeOK, ReplayInv, NEW c \in ChangeId \cup {NoChange}, Begin(c)
    PROVE  ReplayInv'
<1> DEFINE t == [changeId |-> c, snapshot |-> live,
                 parent |-> IF c = NoChange THEN snap[live].baseline
                                            ELSE snap[live].optimistic,
                 edited |-> {}, deltas |-> <<>>, phase |-> "callback",
                 updaters |-> {}, raised |-> FALSE,
                 lagging |-> snap[live].queue # snap[live].shown]
<1>1. stack' = Append(stack, t) /\ snap' = snap /\ live' = live
  BY DEF Begin
<1>2. Len(stack) \in Nat /\ stack \in Seq(Transaction)
  BY LenProperties DEF TypeOK
<1>3. /\ Len(stack') = Len(stack) + 1
      /\ \A i \in 1..Len(stack) : stack'[i] = stack[i]
      /\ stack'[Len(stack) + 1] = t
  <2> HIDE DEF t
  <2>1. QED BY <1>1, <1>2
<1>4. FrameOK(snap[live], t)
  <2>1. snap[live].shown \in Seq(Update)
    BY DEF TypeOK, CacheSnapshot
  <2>2. Enqueue(snap[live].shown, c, <<>>) = snap[live].shown
    BY <2>1, EnqueueNothing
  <2>3. QED BY <2>2, ReplayInvFrames DEF FrameOK, Settled
<1>5. ASSUME NEW i \in 1..Len(stack')
      PROVE  FrameOK(snap'[stack'[i].snapshot], stack'[i])
  <2>1. CASE i = Len(stack) + 1
    <3>1. stack'[i] = t /\ t.snapshot = live
      BY <1>3, <2>1
    <3> HIDE DEF t
    <3>2. QED BY <1>1, <1>4, <3>1
  <2>2. CASE i \in 1..Len(stack)
    <3> HIDE DEF t
    <3>1. QED BY <1>1, <1>3, <2>2, ReplayInvFrames
  <2>3. QED BY <1>2, <1>3, <2>1, <2>2
<1>6. QED
  <2> HIDE DEF t
  <2>1. Settled(snap'[live'], snap'[live'].shown)
    BY <1>1, ReplayInvFrames
  <2>2. QED BY <1>5, <2>1, ReplayInvNext

LEMMA WriteBaselineReplay ==
    ASSUME TypeOK, ReplayInv, NEW p \in Payload, WriteBaseline(p)
    PROVE  ReplayInv'
<1> DEFINE b == Merge(current.baseline, p)
           t == [top EXCEPT !.edited = @ \cup Edits(current.baseline, p)
                                         \cup ReplayEdits(current.queue, b)]
           v == [baseline |-> b, optimistic |-> Expressed(current.queue, b),
                 queue |-> current.queue, shown |-> current.queue]
<1>1. stack # <<>> /\ Advance(snap, t, v) /\ top.changeId = NoChange
  BY DEF WriteBaseline, Running
<1>2. top \in Transaction /\ current \in CacheSnapshot /\ FrameOK(current, top)
  BY <1>1, TopType, TopReplay
<1>3. /\ current.queue \in Seq(Update)
      /\ b \in Graph
      /\ Edits(current.baseline, p) \subseteq Node
  BY <1>2, MergeAssumption DEF CacheSnapshot
<1>4. t \in Transaction
  BY <1>2, <1>3, ReplayEditsType DEF Transaction
<1>5. t.changeId = NoChange /\ t.deltas = <<>>
  BY <1>1, <1>2 DEF FrameOK, Transaction
<1>6. Enqueue(v.shown, NoChange, <<>>) = v.shown
  BY <1>3, EnqueueNothing
<1>7. FrameOK(v, t)
  <2>1. v.optimistic = Expressed(v.shown, v.baseline)
    OBVIOUS
  <2>2. Merges(v.shown, v.baseline)
    BY ReplayMerges DEF WriteBaseline
  <2> HIDE DEF t, v
  <2>3. QED BY <1>5, <1>6, <2>1, <2>2 DEF FrameOK, Settled
<1>8. QED
  <2> HIDE DEF t, v
  <2>1. \A r \in DOMAIN snap : SameShown(snap[r], snap[r])
    BY DEF SameShown
  <2>2. QED BY <1>1, <1>4, <1>7, <2>1, AdvanceReplay

LEMMA RaiseReplay ==
    ASSUME TypeOK, ReplayInv, stack # <<>>, NEW t \in Transaction,
           t.snapshot = top.snapshot, t.changeId = NoChange => t.deltas = <<>>,
           Raise(t)
    PROVE  ReplayInv'
<1> DEFINE u == [t EXCEPT !.raised = TRUE]
<1>1. u \in Transaction /\ u.snapshot = top.snapshot /\ FrameOK(current, u)
  BY DEF Transaction, FrameOK
<1>2. stack' = WithTop(u) /\ live' = live /\ snap' = snap
  BY DEF Raise
<1>3. DOMAIN snap' = DOMAIN snap /\ \A r \in DOMAIN snap : SameShown(snap[r], snap'[r])
  BY <1>2 DEF SameShown
<1>4. QED
  <2> HIDE DEF u
  <2>1. QED BY <1>1, <1>2, <1>3, SameHeapReplay

LEMMA WriteBaselineThrowsReplay ==
    ASSUME TypeOK, ReplayInv, NEW p \in Payload,
           WriteBaselineRejected(p) \/ WriteBaselineNotReplayed(p)
    PROVE  ReplayInv'
<1>1. stack # <<>> /\ top.changeId = NoChange
  BY DEF WriteBaselineRejected, WriteBaselineNotReplayed, Running
<1>2. top \in Transaction /\ current \in CacheSnapshot /\ FrameOK(current, top)
  BY <1>1, TopType, TopReplay
<1>3. CASE WriteBaselineRejected(p)
  BY <1>1, <1>2, <1>3, RaiseReplay DEF WriteBaselineRejected, FrameOK
<1>4. CASE WriteBaselineNotReplayed(p)
  <2> DEFINE t == [top EXCEPT !.edited = @ \cup Edits(current.baseline, p)]
  <2>1. Edits(current.baseline, p) \subseteq Node
    BY <1>2, MergeAssumption DEF CacheSnapshot
  <2>2. /\ t \in Transaction
        /\ t.snapshot = top.snapshot
        /\ t.changeId = NoChange => t.deltas = <<>>
    BY <1>2, <2>1 DEF Transaction, FrameOK
  <2>3. Raise(t)
    BY <1>4 DEF WriteBaselineNotReplayed
  <2>4. QED
    <3> HIDE DEF t
    <3>1. QED BY <1>1, <2>2, <2>3, RaiseReplay
<1>5. QED
  BY <1>3, <1>4

LEMMA WriteOptimisticReplay ==
    ASSUME TypeOK, ReplayInv, NEW p \in Payload, WriteOptimistic(p)
    PROVE  ReplayInv'
<1> DEFINE t == [top EXCEPT !.deltas = Append(@, p)]
           u == [t EXCEPT !.edited = @ \cup Edits(current.optimistic, p)]
           v == [current EXCEPT !.optimistic = Merge(@, p)]
           c == top.changeId
<1>1. stack # <<>> /\ ~top.raised /\ c # NoChange
  BY DEF WriteOptimistic, Running
<1>2. top \in Transaction /\ current \in CacheSnapshot /\ FrameOK(current, top)
  BY <1>1, TopType, TopReplay
<1>3. /\ c \in ChangeId
      /\ top.deltas \in Seq(Payload)
      /\ Append(top.deltas, p) \in Seq(Payload)
      /\ current.shown \in Seq(Update)
      /\ current.baseline \in Graph
      /\ Edits(current.optimistic, p) \subseteq Node
  BY <1>1, <1>2, AppendProperties, MergeAssumption DEF Transaction, CacheSnapshot
<1>4. t \in Transaction /\ t.snapshot = top.snapshot /\ t.changeId = c
  BY <1>2, <1>3 DEF Transaction
<1>5. u \in Transaction /\ u.changeId = c /\ u.deltas = Append(top.deltas, p)
  <2>1. t.deltas = Append(top.deltas, p)
    BY <1>2 DEF Transaction
  <2> HIDE DEF t
  <2>2. QED BY <1>3, <1>4, <2>1 DEF Transaction
<1>6. ASSUME ~Rejects(current.optimistic, p)
      PROVE  Settled(v, Enqueue(v.shown, c, Append(top.deltas, p)))
  <2> DEFINE q == Enqueue(current.shown, c, top.deltas)
             e == [id |-> c, delta |-> p]
  <2>1. current.optimistic = Expressed(q, current.baseline) /\ Merges(q, current.baseline)
    BY <1>1, <1>2 DEF FrameOK, Settled
  <2>2. q \in Seq(Update) /\ e \in Update /\ e.delta = p
    BY <1>3, EnqueueType DEF Update
  <2>3. Expressed(Append(q, e), current.baseline) = Merge(current.optimistic, p)
    <3> HIDE DEF q, e
    <3>1. QED BY <1>3, <2>1, <2>2, ExpressedAppend
  <2>4. Enqueue(current.shown, c, Append(top.deltas, p)) = Append(q, e)
    BY <1>3, EnqueueAppend
  <2>5. Merges(Append(q, e), current.baseline)
    <3> HIDE DEF q, e
    <3>1. QED BY <1>3, <1>6, <2>1, <2>2, MergesAppend
  <2>6. /\ v.optimistic = Merge(current.optimistic, p)
        /\ v.shown = current.shown
        /\ v.baseline = current.baseline
    BY <1>2 DEF CacheSnapshot
  <2>7. QED
    <3> HIDE DEF q, e, v
    <3>1. QED BY <2>3, <2>4, <2>5, <2>6 DEF Settled
<1>7. ASSUME ~Rejects(current.optimistic, p) PROVE FrameOK(v, u)
  <2> HIDE DEF t, u, v
  <2>1. QED BY <1>1, <1>5, <1>6, <1>7 DEF FrameOK
<1>8. (~Rejects(current.optimistic, p) /\ Advance(snap, u, v)) \/ Raise(t)
  BY DEF WriteOptimistic
<1>9. QED
  <2> HIDE DEF t, u, v
  <2>1. \A r \in DOMAIN snap : SameShown(snap[r], snap[r])
    BY DEF SameShown
  <2>2. QED BY <1>1, <1>4, <1>5, <1>7, <1>8, <2>1, AdvanceReplay, RaiseReplay

LEMMA RollbackReplay ==
    ASSUME TypeOK, ReplayInv, Disciplined, NEW c \in ChangeId, Rollback(c)
    PROVE  ReplayInv'
<1> DEFINE q == Remove(current.queue, c)
           h == [snap EXCEPT ![top.snapshot].queue = q]
           t == [top EXCEPT !.edited = @ \cup NodeIds(current.optimistic)
                                         \cup ReplayEdits(q, current.baseline)]
           v == [baseline |-> current.baseline,
                 optimistic |-> Expressed(q, current.baseline),
                 queue |-> q, shown |-> q]
<1>1. stack # <<>> /\ ~top.raised
  BY DEF Rollback, Running
<1>2. /\ top \in Transaction
      /\ top.snapshot \in DOMAIN snap
      /\ current \in CacheSnapshot
      /\ FrameOK(current, top)
  BY <1>1, TopType, TopReplay
<1>3. /\ current.baseline \in Graph
      /\ current.optimistic \in Graph
      /\ current.queue \in Seq(Update)
  BY <1>2 DEF CacheSnapshot
<1>4. q \in Seq(Update)
  BY <1>3, RemoveType
<1>5. DOMAIN h = DOMAIN snap /\ \A r \in DOMAIN snap : SameShown(snap[r], h[r])
  <2> HIDE DEF q
  <2>1. QED BY DEF TypeOK, CacheSnapshot, SameShown
<1>6. t \in Transaction
  <2> HIDE DEF q
  <2>1. QED BY <1>2, <1>3, <1>4, GraphAssumption, ReplayEditsType DEF Transaction
<1>7. top.deltas = <<>>
  BY <1>2 DEF Rollback, Disciplined, FrameOK
<1>8. ASSUME ~ReplayThrows(q, current.baseline) PROVE FrameOK(v, t)
  <2>1. t.deltas = <<>>
    BY <1>2, <1>7 DEF Transaction
  <2>2. /\ v.optimistic = Expressed(v.shown, v.baseline)
        /\ Merges(v.shown, v.baseline)
        /\ v.shown \in Seq(Update)
    BY <1>4, <1>8, ReplayMerges
  <2> HIDE DEF t, v
  <2>3. Enqueue(v.shown, t.changeId, <<>>) = v.shown
    BY <2>2, EnqueueNothing
  <2>4. QED BY <2>1, <2>2, <2>3 DEF FrameOK, Settled
<1>9. CASE ~ReplayThrows(q, current.baseline) /\ Advance(h, t, v)
  <2> HIDE DEF h, q, t, v
  <2>1. QED BY <1>1, <1>5, <1>6, <1>8, <1>9, AdvanceReplay
<1>10. CASE /\ snap' = h
            /\ stack' = WithTop([top EXCEPT !.raised = TRUE, !.lagging = @ \/ top.snapshot = live])
            /\ UNCHANGED live
  <2> DEFINE u == [top EXCEPT !.raised = TRUE, !.lagging = @ \/ top.snapshot = live]
  <2>1. u \in Transaction /\ u.snapshot = top.snapshot /\ FrameOK(current, u)
    BY <1>2 DEF Transaction, FrameOK
  <2> HIDE DEF h, u
  <2>2. DOMAIN snap' = DOMAIN snap /\ \A r \in DOMAIN snap : SameShown(snap[r], snap'[r])
    BY <1>5, <1>10
  <2>3. stack' = WithTop(u) /\ live' = live
    BY <1>10 DEF u
  <2>4. QED BY <1>1, <2>1, <2>2, <2>3, SameHeapReplay
<1>11. QED
  BY <1>9, <1>10 DEF Rollback

LEMMA ControlReplay ==
    ASSUME TypeOK, ReplayInv, Disciplined,
           Catch \/ Throw \/ CallbackReturns \/ UpdaterReturns
    PROVE  ReplayInv'
<1>1. stack # <<>> /\ live' = live /\ snap' = snap
  BY DEF Catch, Throw, CallbackReturns, UpdaterReturns, Running, Raise
<1>2. top \in Transaction /\ FrameOK(current, top)
  BY <1>1, TopType, TopReplay
<1>3. PICK t \in Transaction :
        t.snapshot = top.snapshot /\ FrameOK(current, t) /\ stack' = WithTop(t)
  <2>1. CASE Throw
    <3>1. [top EXCEPT !.raised = TRUE] \in Transaction
      BY <1>2 DEF Transaction
    <3>2. QED BY <1>2, <2>1, <3>1 DEF Throw, Raise, Transaction, FrameOK
  <2>2. CASE CallbackReturns
    <3> DEFINE n == top.edited \cap HasUpdater
                      \cap (NodeIds(GraphOf(top)) \cup NodeIds(top.parent))
    <3>1. [top EXCEPT !.phase = "updaters", !.updaters = n] \in Transaction
      BY <1>2 DEF Transaction
    <3>2. QED BY <1>2, <2>2, <3>1 DEF CallbackReturns, Transaction, FrameOK
  <2>3. CASE UpdaterReturns
    <3>1. PICK n \in top.updaters : stack' = WithTop([top EXCEPT !.updaters = @ \ {n}])
      BY <2>3 DEF UpdaterReturns
    <3>2. [top EXCEPT !.updaters = @ \ {n}] \in Transaction
      BY <1>2 DEF Transaction
    <3>3. QED BY <1>2, <3>1, <3>2 DEF Transaction, FrameOK
  <2>4. QED
    BY <2>1, <2>2, <2>3 DEF Disciplined, Catch
<1>4. DOMAIN snap' = DOMAIN snap /\ \A r \in DOMAIN snap : SameShown(snap[r], snap'[r])
  BY <1>1 DEF SameShown
<1>5. QED
  BY <1>1, <1>3, <1>4, SameHeapReplay

LEMMA AbortReplay ==
    ASSUME TypeOK, ReplayInv, Abort PROVE ReplayInv'
<1>1. stack # <<>> /\ Store(snap, live, Popped)
  BY DEF Abort
<1>2. /\ Len(Popped) = Len(stack) - 1
      /\ \A i \in 1..(Len(stack) - 1) : Popped[i] = stack[i]
      /\ \A i \in 1..(Len(stack) - 1) : i \in 1..Len(stack)
  BY <1>1, PoppedType, TopType
<1>3. \A i \in 1..Len(Popped) : FrameOK(snap[Popped[i].snapshot], Popped[i])
  BY <1>2, ReplayInvFrames
<1>4. QED
  BY <1>1, <1>3, StoreReplay, ReplayInvFrames

LEMMA EscapeReplay ==
    ASSUME TypeOK, ReplayInv, Escape PROVE ReplayInv'
<1> DEFINE n  == Len(stack) - 1
           st == [i \in 1..n |-> IF i = n THEN [stack[i] EXCEPT !.raised = TRUE] ELSE stack[i]]
<1>1. stack # <<>> /\ Store(snap, live, st)
  BY DEF Escape
<1>2. n \in Nat /\ \A i \in 1..n : i \in 1..Len(stack)
  BY <1>1, TopType
<1>3. ASSUME NEW i \in 1..n PROVE FrameOK(snap[st[i].snapshot], st[i])
  <2>1. stack[i] \in Transaction
    BY <1>2, ElementOfSeq DEF TypeOK
  <2>2. FrameOK(snap[stack[i].snapshot], stack[i])
    BY <1>2, ReplayInvFrames
  <2>3. CASE i = n
    <3>1. st[i] = [stack[i] EXCEPT !.raised = TRUE]
      BY <2>3
    <3>2. /\ st[i].snapshot = stack[i].snapshot
          /\ st[i].changeId = stack[i].changeId
          /\ st[i].deltas = stack[i].deltas
          /\ st[i].raised
      <4> HIDE DEF st
      <4>1. QED BY <2>1, <3>1 DEF Transaction
    <3>3. QED
      <4> HIDE DEF st
      <4>1. QED BY <2>2, <3>2 DEF FrameOK
  <2>4. CASE i # n
    BY <2>2, <2>4
  <2>5. QED BY <2>3, <2>4
<1>4. Len(st) = n
  BY <1>2
<1>5. QED
  <2> HIDE DEF st, n
  <2>1. QED BY <1>1, <1>3, <1>4, StoreReplay, ReplayInvFrames

LEMMA CommitReplay ==
    ASSUME TypeOK, ReplayInv, Commit PROVE ReplayInv'
<1> DEFINE c == top.changeId
<1>1. stack # <<>> /\ ~top.raised
  BY DEF Commit
<1>2. /\ top \in Transaction
      /\ top.snapshot \in DOMAIN snap
      /\ current \in CacheSnapshot
      /\ FrameOK(current, top)
  BY <1>1, TopType, TopReplay
<1>3. /\ current.shown \in Seq(Update)
      /\ Settled(current, Enqueue(current.shown, c, top.deltas))
  BY <1>1, <1>2 DEF CacheSnapshot, FrameOK
<1>4. /\ Len(Popped) = Len(stack) - 1
      /\ \A i \in 1..(Len(stack) - 1) : Popped[i] = stack[i]
      /\ \A i \in 1..(Len(stack) - 1) : i \in 1..Len(stack)
  BY <1>1, PoppedType, TopType
<1>5. \A i \in 1..Len(Popped) : /\ Popped[i].snapshot \in DOMAIN snap
                                /\ FrameOK(snap[Popped[i].snapshot], Popped[i])
  BY <1>4, ReplayInvFrames DEF TypeOK
<1>6. CASE c = NoChange
  <2>1. top.deltas = <<>>
    BY <1>2, <1>6 DEF FrameOK
  <2>2. Settled(current, current.shown)
    BY <1>3, <2>1, EnqueueNothing
  <2>3. Store(snap, top.snapshot, Popped)
    BY <1>6 DEF Commit
  <2>4. QED BY <1>5, <2>2, <2>3, StoreReplay DEF current
<1>7. CASE c # NoChange
  <2> DEFINE v == [current EXCEPT !.queue = Enqueue(@, c, top.deltas),
                                  !.shown = Enqueue(@, c, top.deltas)]
  <2>1. PICK s \in Fresh : Store(Put(snap, s, v), s, Popped)
    BY <1>7 DEF Commit
  <2>2. /\ v.shown = Enqueue(current.shown, c, top.deltas)
        /\ v.optimistic = current.optimistic
        /\ v.baseline = current.baseline
    BY <1>2 DEF CacheSnapshot
  <2> HIDE DEF v
  <2>3. Put(snap, s, v)[s] = v /\ \A r \in DOMAIN snap : Put(snap, s, v)[r] = snap[r]
    BY DEF Put, Fresh
  <2>4. Settled(v, v.shown)
    BY <1>3, <2>2 DEF Settled
  <2>5. \A i \in 1..Len(Popped) : FrameOK(Put(snap, s, v)[Popped[i].snapshot], Popped[i])
    BY <1>5, <2>3
  <2>6. QED BY <2>1, <2>3, <2>4, <2>5, StoreReplay
<1>8. QED
  BY <1>6, <1>7

LEMMA ReplaceReplay ==
    ASSUME TypeOK, ReplayInv, NEW g \in Graph, Replace(g) PROVE ReplayInv'
<1> DEFINE v == [baseline |-> g, optimistic |-> g, queue |-> <<>>, shown |-> <<>>]
<1>1. PICK s \in Fresh : Store(Put(snap, s, v), s, stack)
  BY DEF Replace
<1>2. Settled(v, v.shown)
  BY ExpressedEmpty, MergesEmpty DEF Settled
<1> HIDE DEF v
<1>3. Put(snap, s, v)[s] = v /\ \A r \in DOMAIN snap : Put(snap, s, v)[r] = snap[r]
  BY DEF Put, Fresh
<1>4. \A i \in 1..Len(stack) : FrameOK(Put(snap, s, v)[stack[i].snapshot], stack[i])
  BY <1>3, ReplayInvFrames DEF TypeOK
<1>5. QED
  BY <1>1, <1>2, <1>3, <1>4, StoreReplay

LEMMA NextReplay ==
    ASSUME Disciplined, TypeOK, ReplayInv, [Next]_vars PROVE ReplayInv'
<1>1. ASSUME NEW c \in ChangeId \cup {NoChange}, Begin(c) PROVE ReplayInv'
  BY <1>1, BeginReplay
<1>2. ASSUME NEW p \in Payload, WriteBaseline(p) PROVE ReplayInv'
  BY <1>2, WriteBaselineReplay
<1>3. ASSUME NEW p \in Payload, WriteBaselineRejected(p) \/ WriteBaselineNotReplayed(p)
      PROVE  ReplayInv'
  BY <1>3, WriteBaselineThrowsReplay
<1>4. ASSUME NEW p \in Payload, WriteOptimistic(p) PROVE ReplayInv'
  BY <1>4, WriteOptimisticReplay
<1>5. ASSUME NEW c \in ChangeId, Rollback(c) PROVE ReplayInv'
  BY <1>5, RollbackReplay
<1>6. CASE Catch \/ Throw \/ CallbackReturns \/ UpdaterReturns
  BY <1>6, ControlReplay
<1>7. CASE Abort
  BY <1>7, AbortReplay
<1>8. CASE Escape
  BY <1>8, EscapeReplay
<1>9. CASE Commit
  BY <1>9, CommitReplay
<1>10. CASE Restore
  BY <1>10, ReplaceReplay, GraphAssumption DEF Restore
<1>11. CASE Reset
  BY <1>11, ReplaceReplay, GraphAssumption DEF Reset
<1>12. CASE UNCHANGED vars
  BY <1>12, ReplayInvFrames, ReplayInvNext DEF vars
<1>13. QED
  BY <1>1, <1>2, <1>3, <1>4, <1>5, <1>6, <1>7, <1>8, <1>9, <1>10, <1>11, <1>12 DEF Next

\* What relates every snapshot of the cache, live or of a running
\* transaction, to the queue it shows: the optimistic graph is that queue
\* replayed over the baseline, and the replay rejects no delta.  It is
\* inductive: CacheTransaction.ts keeps it with every write and rollback.
THEOREM ReplayInvariant == Disciplined /\ Spec => []ReplayInv
<1>1. Disciplined /\ Init => TypeOK /\ ReplayInv
  BY InitType, InitReplay
<1>2. Disciplined /\ TypeOK /\ ReplayInv /\ [Next]_vars => TypeOK' /\ ReplayInv'
  BY NextType, NextReplay
<1>3. Disciplined => []Disciplined
  OBVIOUS
<1>4. QED
  BY <1>1, <1>2, <1>3, PTL DEF Spec

\* The optimistic graph that the cache serves is always the baseline with
\* the updates it shows merged over it in order, whatever transactions
\* nest, abort or are refused.
THEOREM OptimisticAlwaysReplay == Disciplined /\ Spec => []OptimisticIsReplay
<1>1. ReplayInv => OptimisticIsReplay
  BY DEF ReplayInv
<1>2. QED
  BY <1>1, ReplayInvariant, PTL

\* No delta of an update that readers are shown is ever one that merging it
\* in its turn would reject, however the baseline changed under it and
\* whatever was taken out of the queue since it was written.
THEOREM ShownAlwaysMerges == Disciplined /\ Spec => []ShownMerges
<1>1. ReplayInv => ShownMerges
  BY DEF ReplayInv
<1>2. QED
  BY <1>1, ReplayInvariant, PTL

-----------------------------------------------------------------------------
(* What is queued is shown.                                                *)

\* The places that the members of q have among the first m of w.
Embeds(f, q, w, m) ==
    /\ f \in [1..Len(q) -> 1..m]
    /\ \A i, j \in 1..Len(q) : i < j => f[i] < f[j]
    /\ \A i \in 1..Len(q) : q[i] = w[f[i]]

LEMMA EmbedsSubsequence ==
    ASSUME NEW q, NEW w
    PROVE  Subsequence(q, w) <=> \E f : Embeds(f, q, w, Len(w))
BY DEF Subsequence, Embeds

\* Taking an id out of a queue leaves a subsequence of it.
LEMMA RemoveSubsequence ==
    ASSUME NEW q \in Seq(Update), NEW c
    PROVE  Subsequence(Remove(q, c), q)
<1>1. PICK k : Keeps(k, q, {c}) /\ Remove(q, c) = k[Len(q)]
  BY RemoveKeeps
<1> DEFINE n == Len(q)
           T == {i \in 0..n : \E f : Embeds(f, k[i], q, i)}
<1>2. n \in Nat /\ \A i \in 1..n : q[i] \in Update
  BY LenProperties, ElementOfSeq
<1>3. 0 \in T
  <2>1. k[0] = <<>> /\ Len(<<>>) = 0
    BY <1>1 DEF Keeps
  <2>2. Embeds([i \in 1..0 |-> i], k[0], q, 0)
    BY <2>1 DEF Embeds
  <2>3. QED BY <1>2, <2>2
<1>4. ASSUME NEW i \in 1..n, i - 1 \in T PROVE i \in T
  <2>1. PICK f : Embeds(f, k[i - 1], q, i - 1)
    BY <1>4
  <2>2. k[i - 1] \in Seq(Update) /\ q[i] \in Update /\ i \in 0..n /\ i - 1 \in Nat
    BY <1>1, <1>2 DEF Keeps
  <2>3. CASE q[i].id = c
    <3>1. k[i] = k[i - 1]
      BY <1>1, <2>3 DEF Keeps
    <3>2. Embeds(f, k[i], q, i)
      BY <2>1, <2>2, <3>1 DEF Embeds
    <3>3. QED BY <2>2, <3>2
  <2>4. CASE q[i].id # c
    <3> DEFINE m == Len(k[i - 1])
               g == [j \in 1..(m + 1) |-> IF j = m + 1 THEN i ELSE f[j]]
    <3>1. k[i] = Append(k[i - 1], q[i])
      BY <1>1, <2>4 DEF Keeps
    <3>2. /\ m \in Nat
          /\ Len(k[i]) = m + 1
          /\ \A j \in 1..m : k[i][j] = k[i - 1][j]
          /\ k[i][m + 1] = q[i]
      BY <2>2, <3>1, AppendProperties, LenProperties
    <3>3. \A j \in 1..(m + 1) : j = m + 1 \/ j \in 1..m
      BY <3>2
    <3>4. \A j \in 1..m : f[j] \in 1..(i - 1) /\ g[j] = f[j]
      <4>1. f \in [1..m -> 1..(i - 1)]
        BY <2>1 DEF Embeds
      <4>2. \A j \in 1..m : j \in 1..(m + 1) /\ j # m + 1
        BY <3>2
      <4> HIDE DEF m
      <4>3. QED BY <4>1, <4>2
    <3>5. g[m + 1] = i
      BY <3>2
    <3>6. g \in [1..(m + 1) -> 1..i]
      <4>1. \A j \in 1..(m + 1) : g[j] \in 1..i
        <5> HIDE DEF g, m
        <5>1. QED BY <2>2, <3>3, <3>4, <3>5
      <4>2. QED BY <4>1
    <3> HIDE DEF g
    <3>7. \A a, b \in 1..(m + 1) : a < b => g[a] < g[b]
      BY <2>1, <2>2, <3>2, <3>3, <3>4, <3>5 DEF Embeds
    <3>8. \A j \in 1..(m + 1) : k[i][j] = q[g[j]]
      BY <2>1, <3>2, <3>3, <3>4, <3>5 DEF Embeds
    <3>9. Embeds(g, k[i], q, i)
      BY <3>2, <3>6, <3>7, <3>8 DEF Embeds
    <3>10. QED BY <2>2, <3>9
  <2>5. QED BY <2>3, <2>4
<1>5. n \in T
  <2>1. \A i \in 1..n : i - 1 \in T => i \in T
    BY <1>4
  <2> HIDE DEF T, n
  <2>2. \A i \in 0..n : i \in T
    BY <1>2, <1>3, <2>1, UpTo
  <2>3. QED BY <1>2, <2>2
<1>6. QED
  BY <1>1, <1>5, EmbedsSubsequence

\* A subsequence of a subsequence is one.
LEMMA SubsequenceThrough ==
    ASSUME NEW u \in Seq(Update), NEW v \in Seq(Update), NEW w \in Seq(Update),
           Subsequence(u, v), Subsequence(v, w)
    PROVE  Subsequence(u, w)
<1>1. PICK f : Embeds(f, u, v, Len(v))
  BY EmbedsSubsequence
<1>2. PICK g : Embeds(g, v, w, Len(w))
  BY EmbedsSubsequence
<1> DEFINE h == [i \in 1..Len(u) |-> g[f[i]]]
<1>3. \A i \in 1..Len(u) : f[i] \in 1..Len(v)
  BY <1>1 DEF Embeds
<1>4. h \in [1..Len(u) -> 1..Len(w)]
  BY <1>2, <1>3 DEF Embeds
<1>5. \A i, j \in 1..Len(u) : i < j => h[i] < h[j]
  BY <1>1, <1>2, <1>3 DEF Embeds
<1>6. \A i \in 1..Len(u) : u[i] = w[h[i]]
  BY <1>1, <1>2, <1>3 DEF Embeds
<1>7. Embeds(h, u, w, Len(w))
  BY <1>4, <1>5, <1>6 DEF Embeds
<1>8. QED
  BY <1>7, EmbedsSubsequence

\* A queue is a subsequence of itself.
LEMMA SubsequenceItself ==
    ASSUME NEW q \in Seq(Update) PROVE Subsequence(q, q)
<1>1. Embeds([i \in 1..Len(q) |-> i], q, q, Len(q))
  BY LenProperties DEF Embeds
<1>2. QED
  BY <1>1, EmbedsSubsequence

\* What is put behind a queue and behind what is shown keeps the one in the
\* other.
LEMMA EnqueueSubsequence ==
    ASSUME NEW q \in Seq(Update), NEW w \in Seq(Update), Subsequence(q, w),
           NEW c \in ChangeId, NEW deltas \in Seq(Payload)
    PROVE  Subsequence(Enqueue(q, c, deltas), Enqueue(w, c, deltas))
<1> DEFINE e == [i \in 1..Len(deltas) |-> [id |-> c, delta |-> deltas[i]]]
           n == Len(q)
           m == Len(w)
           k == Len(deltas)
<1>1. PICK f : Embeds(f, q, w, m)
  BY EmbedsSubsequence
<1>2. n \in Nat /\ m \in Nat /\ k \in Nat /\ \A i \in 1..k : deltas[i] \in Payload
  BY LenProperties, ElementOfSeq
<1>3. e \in Seq(Update) /\ Len(e) = k
  <2>1. \A i \in 1..k : [id |-> c, delta |-> deltas[i]] \in Update
    BY <1>2 DEF Update
  <2>2. QED BY <1>2, <2>1, IsASeq
<1>4. Enqueue(q, c, deltas) = q \o e /\ Enqueue(w, c, deltas) = w \o e
  BY DEF Enqueue
<1> HIDE DEF e
<1>5. /\ Len(q \o e) = n + k
      /\ \A i \in 1..(n + k) : (q \o e)[i] = IF i <= n THEN q[i] ELSE e[i - n]
  <2>1. Len(q \o e) = Len(q) + Len(e)
        /\ \A i \in 1..(Len(q) + Len(e)) :
             (q \o e)[i] = IF i <= Len(q) THEN q[i] ELSE e[i - Len(q)]
    BY <1>3, ConcatProperties
  <2>2. QED BY <1>3, <2>1
<1>6. /\ Len(w \o e) = m + k
      /\ \A i \in 1..(m + k) : (w \o e)[i] = IF i <= m THEN w[i] ELSE e[i - m]
  <2>1. Len(w \o e) = Len(w) + Len(e)
        /\ \A i \in 1..(Len(w) + Len(e)) :
             (w \o e)[i] = IF i <= Len(w) THEN w[i] ELSE e[i - Len(w)]
    BY <1>3, ConcatProperties
  <2>2. QED BY <1>3, <2>1
<1> DEFINE g == [i \in 1..(n + k) |-> IF i <= n THEN f[i] ELSE m + (i - n)]
<1>7. \A i \in 1..n : f[i] \in 1..m
  BY <1>1 DEF Embeds
<1> HIDE DEF n, m, k
<1>8. \A i \in 1..(n + k) :
         \/ i \in 1..n /\ g[i] = f[i] /\ g[i] \in 1..m
         \/ i \notin 1..n /\ i > n /\ g[i] = m + (i - n)
  BY <1>2, <1>7
<1>9. g \in [1..(n + k) -> 1..(m + k)]
  BY <1>2, <1>7
<1> HIDE DEF g
<1>10. \A i, j \in 1..(n + k) : i < j => g[i] < g[j]
  <2>1. \A i, j \in 1..n : i < j => f[i] < f[j]
    BY <1>1 DEF Embeds, n
  <2>2. QED BY <1>2, <1>7, <1>8, <2>1
<1>11. ASSUME NEW i \in 1..(n + k) PROVE (q \o e)[i] = (w \o e)[g[i]]
  <2>1. g[i] \in 1..(m + k)
    BY <1>9
  <2>2. CASE i \in 1..n
    <3>1. q[i] = w[f[i]]
      BY <1>1, <2>2 DEF Embeds, n
    <3>2. i <= n /\ g[i] <= m /\ g[i] = f[i]
      BY <1>2, <1>8, <2>2
    <3>3. QED BY <1>5, <1>6, <2>1, <3>1, <3>2
  <2>3. CASE i \notin 1..n
    <3>1. ~(i <= n) /\ g[i] = m + (i - n) /\ ~(g[i] <= m) /\ g[i] - m = i - n
      BY <1>2, <1>8, <2>3
    <3>2. QED BY <1>5, <1>6, <2>1, <3>1
  <2>4. QED BY <2>2, <2>3
<1>12. Embeds(g, q \o e, w \o e, Len(w \o e))
  BY <1>5, <1>6, <1>9, <1>10, <1>11 DEF Embeds
<1>13. QED
  BY <1>4, <1>12, EmbedsSubsequence

\* Every snapshot of a heap shows what it has queued.
AllShown(h) == \A s \in DOMAIN h : Subsequence(h[s].queue, h[s].shown)

LEMMA StoreShown ==
    ASSUME NEW h, NEW l, NEW st, Store(h, l, st), TypeOK', AllShown(h),
           Held(l, st) \subseteq DOMAIN h
    PROVE  QueueIsShown'
<1>1. DOMAIN snap' = Held(l, st) /\ \A r \in Held(l, st) : snap'[r] = h[r]
  BY StoreHeap
<1>2. QED
  BY <1>1 DEF QueueIsShown, AllShown

LEMMA PutShown ==
    ASSUME NEW h, AllShown(h), NEW s, NEW v, Subsequence(v.queue, v.shown)
    PROVE  AllShown(Put(h, s, v))
BY DEF AllShown, Put

\* The snapshots that a transaction and the cache hold after a step are ones
\* they held before it, or the one that was made.
LEMMA HeldTop ==
    ASSUME TypeOK, stack # <<>>, NEW t, NEW s, t.snapshot = s
    PROVE  Held(live, WithTop(t)) \subseteq DOMAIN snap \cup {s}
<1>1. stack \in Seq(Transaction) /\ Len(stack) \in 1..Len(stack)
  BY TopType DEF TypeOK
<1>2. Len(WithTop(t)) = Len(stack) /\ DOMAIN WithTop(t) = 1..Len(stack)
  BY <1>1 DEF WithTop
<1>3. \A i \in 1..Len(stack) : WithTop(t)[i] = IF i = Len(stack) THEN t ELSE stack[i]
  BY <1>1 DEF WithTop
<1>4. \A i \in 1..Len(stack) : WithTop(t)[i].snapshot \in DOMAIN snap \cup {s}
  BY <1>3 DEF TypeOK
<1>5. QED
  BY <1>2, <1>4 DEF Held, TypeOK

LEMMA AdvanceShown ==
    ASSUME TypeOK, TypeOK', stack # <<>>, top \in Transaction,
           NEW h, DOMAIN h = DOMAIN snap, AllShown(h),
           NEW t \in Transaction, NEW v, Subsequence(v.queue, v.shown),
           Advance(h, t, v)
    PROVE  QueueIsShown'
<1>1. PICK s \in Fresh : Store(Put(h, s, v), live, WithTop([t EXCEPT !.snapshot = s]))
  BY DEF Advance
<1>2. [t EXCEPT !.snapshot = s].snapshot = s
  BY DEF Transaction
<1>3. Held(live, WithTop([t EXCEPT !.snapshot = s])) \subseteq DOMAIN Put(h, s, v)
  BY <1>2, HeldTop DEF Put
<1>4. QED
  BY <1>1, <1>3, PutShown, StoreShown

LEMMA InitShown == Init => QueueIsShown
<1> SUFFICES ASSUME Init, NEW s \in DOMAIN snap
             PROVE  Subsequence(snap[s].queue, snap[s].shown)
  BY DEF QueueIsShown
<1>1. snap[s].queue = <<>> /\ snap[s].shown = <<>> /\ <<>> \in Seq(Update)
  BY DEF Init
<1>2. QED
  BY <1>1, SubsequenceItself

LEMMA WriteBaselineShown ==
    ASSUME TypeOK, TypeOK', QueueIsShown, NEW p \in Payload, WriteBaseline(p)
    PROVE  QueueIsShown'
<1> DEFINE b == Merge(current.baseline, p)
           t == [top EXCEPT !.edited = @ \cup Edits(current.baseline, p)
                                         \cup ReplayEdits(current.queue, b)]
           v == [baseline |-> b, optimistic |-> Expressed(current.queue, b),
                 queue |-> current.queue, shown |-> current.queue]
<1>1. stack # <<>> /\ Advance(snap, t, v)
  BY DEF WriteBaseline, Running
<1>2. top \in Transaction /\ current \in CacheSnapshot
  BY <1>1, TopType
<1>3. current.baseline \in Graph /\ current.queue \in Seq(Update)
  BY <1>2 DEF CacheSnapshot
<1>4. b \in Graph /\ Edits(current.baseline, p) \subseteq Node
  BY <1>3, MergeAssumption
<1>5. t \in Transaction
  BY <1>2, <1>3, <1>4, ReplayEditsType DEF Transaction
<1>6. Subsequence(v.queue, v.shown)
  BY <1>3, SubsequenceItself
<1>7. AllShown(snap)
  BY DEF AllShown, QueueIsShown
<1> HIDE DEF t, v
<1>8. QED
  BY <1>1, <1>2, <1>5, <1>6, <1>7, AdvanceShown

LEMMA WriteOptimisticShown ==
    ASSUME TypeOK, TypeOK', QueueIsShown, NEW p \in Payload, WriteOptimistic(p)
    PROVE  QueueIsShown'
<1> DEFINE t == [top EXCEPT !.deltas = Append(@, p)]
           u == [t EXCEPT !.edited = @ \cup Edits(current.optimistic, p)]
           v == [current EXCEPT !.optimistic = Merge(@, p)]
<1>1. stack # <<>>
  BY DEF WriteOptimistic, Running
<1>2. top \in Transaction /\ top.snapshot \in DOMAIN snap /\ current \in CacheSnapshot
  BY <1>1, TopType
<1>3. Edits(current.optimistic, p) \subseteq Node
  BY <1>2, MergeAssumption DEF CacheSnapshot
<1>4. top.deltas \in Seq(Payload) /\ Append(top.deltas, p) \in Seq(Payload)
  BY <1>2, AppendProperties DEF Transaction
<1>5. t \in Transaction
  BY <1>2, <1>4 DEF Transaction
<1>6. u \in Transaction
  <2> HIDE DEF t
  <2>1. QED BY <1>3, <1>5 DEF Transaction
<1>7. Subsequence(v.queue, v.shown)
  <2>1. v.queue = current.queue /\ v.shown = current.shown
    BY <1>2 DEF CacheSnapshot
  <2>2. QED BY <1>2, <2>1 DEF QueueIsShown, current
<1>8. AllShown(snap)
  BY DEF AllShown, QueueIsShown
<1>9. CASE Advance(snap, u, v)
  <2> HIDE DEF t, u, v
  <2>1. QED BY <1>1, <1>2, <1>6, <1>7, <1>8, <1>9, AdvanceShown
<1>10. CASE Raise(t)
  BY <1>10 DEF Raise, QueueIsShown
<1>11. QED
  BY <1>9, <1>10 DEF WriteOptimistic

\* A rollback takes something out of the queue of the snapshot it starts from,
\* whose optimistic graph stays.
LEMMA RollbackShown ==
    ASSUME TypeOK, TypeOK', QueueIsShown, NEW c \in ChangeId, Rollback(c)
    PROVE  QueueIsShown'
<1> DEFINE q == Remove(current.queue, c)
           h == [snap EXCEPT ![top.snapshot].queue = q]
           t == [top EXCEPT !.edited = @ \cup NodeIds(current.optimistic)
                                         \cup ReplayEdits(q, current.baseline)]
           v == [baseline |-> current.baseline,
                 optimistic |-> Expressed(q, current.baseline),
                 queue |-> q, shown |-> q]
<1>1. stack # <<>>
  BY DEF Rollback, Running
<1>2. top \in Transaction /\ top.snapshot \in DOMAIN snap /\ current \in CacheSnapshot
  BY <1>1, TopType
<1>3. /\ current.baseline \in Graph
      /\ current.optimistic \in Graph
      /\ current.queue \in Seq(Update)
      /\ current.shown \in Seq(Update)
  BY <1>2 DEF CacheSnapshot
<1>4. q \in Seq(Update) /\ Subsequence(q, current.queue)
  BY <1>3, RemoveType, RemoveSubsequence
<1> HIDE DEF q
<1>5. Subsequence(q, current.shown)
  BY <1>2, <1>3, <1>4, SubsequenceThrough DEF QueueIsShown, current
<1>6. t \in Transaction
  BY <1>2, <1>3, <1>4, GraphAssumption, ReplayEditsType DEF Transaction
<1>7. Subsequence(v.queue, v.shown)
  BY <1>4, SubsequenceItself
<1>8. DOMAIN h = DOMAIN snap /\ AllShown(h)
  <2>1. \A s \in DOMAIN snap :
          h[s] = IF s = top.snapshot THEN [snap[s] EXCEPT !.queue = q] ELSE snap[s]
    OBVIOUS
  <2>2. \A s \in DOMAIN snap : snap[s] \in CacheSnapshot
    BY DEF TypeOK
  <2>3. ASSUME NEW s \in DOMAIN snap PROVE Subsequence(h[s].queue, h[s].shown)
    <3>1. CASE s = top.snapshot
      <4>1. h[s].queue = q /\ h[s].shown = current.shown
        BY <2>1, <2>2, <3>1 DEF CacheSnapshot, current
      <4>2. QED BY <1>5, <4>1
    <3>2. CASE s # top.snapshot
      BY <2>1, <3>2 DEF QueueIsShown
    <3>3. QED BY <3>1, <3>2
  <2>4. DOMAIN h = DOMAIN snap
    OBVIOUS
  <2> HIDE DEF h
  <2>5. QED BY <2>3, <2>4 DEF AllShown
<1>9. CASE Advance(h, t, v)
  <2> HIDE DEF h, t, v
  <2>1. QED BY <1>1, <1>2, <1>6, <1>7, <1>8, <1>9, AdvanceShown
<1>10. CASE snap' = h
  <2> HIDE DEF h
  <2>1. QED BY <1>8, <1>10 DEF AllShown, QueueIsShown
<1>11. QED
  BY <1>9, <1>10 DEF Rollback, q

\* A transaction that ends gives up its snapshot, or makes it live.
LEMMA EndShown ==
    ASSUME TypeOK, TypeOK', QueueIsShown, Abort \/ Escape \/ Commit
    PROVE  QueueIsShown'
<1>1. stack # <<>>
  BY DEF Abort, Escape, Commit
<1>2. /\ top \in Transaction
      /\ top.snapshot \in DOMAIN snap
      /\ current \in CacheSnapshot
      /\ Len(stack) \in 1..MaxDepth
  BY <1>1, TopType
<1>3. AllShown(snap)
  BY DEF AllShown, QueueIsShown
<1>4. ASSUME NEW l \in DOMAIN snap
      PROVE  Held(l, Popped) \subseteq DOMAIN snap
  <2>1. Len(Popped) = Len(stack) - 1 /\ \A i \in 1..(Len(stack) - 1) : Popped[i] = stack[i]
    BY <1>1, PoppedType
  <2>2. \A i \in 1..(Len(stack) - 1) : stack[i].snapshot \in DOMAIN snap
    BY <1>2 DEF TypeOK
  <2>3. QED BY <2>1, <2>2 DEF Held
<1>5. CASE Abort
  BY <1>3, <1>4, <1>5, StoreShown DEF Abort, TypeOK
<1>6. CASE Escape
  <2> DEFINE n  == Len(stack) - 1
             st == [i \in 1..n |-> IF i = n THEN [stack[i] EXCEPT !.raised = TRUE] ELSE stack[i]]
  <2>1. Store(snap, live, st)
    BY <1>6 DEF Escape
  <2>2. n \in Nat /\ n <= Len(stack)
    BY <1>2, BoundAssumption
  <2>3. \A i \in 1..n : stack[i] \in Transaction /\ stack[i].snapshot \in DOMAIN snap
    <3>1. stack \in Seq(Transaction) /\ \A i \in 1..n : i \in 1..Len(stack)
      BY <2>2 DEF TypeOK
    <3>2. QED BY <3>1, ElementOfSeq DEF TypeOK
  <2>4. \A i \in 1..n : st[i].snapshot = stack[i].snapshot
    BY <2>3 DEF Transaction
  <2>5. DOMAIN st = 1..n
    OBVIOUS
  <2> HIDE DEF st
  <2>6. Len(st) = n
    <3>1. st \in Seq({st[i] : i \in 1..n})
      <4>1. st = [i \in 1..n |-> st[i]]
        BY DEF st
      <4> HIDE DEF n
      <4>2. st \in [1..n -> {st[i] : i \in 1..n}]
        BY <4>1
      <4>3. QED BY <2>2, <4>2
    <3>2. QED BY <2>2, <2>5, <3>1
  <2>7. Held(live, st) \subseteq DOMAIN snap
    BY <2>3, <2>4, <2>6 DEF Held, TypeOK
  <2>8. QED BY <1>3, <2>1, <2>7, StoreShown
<1>7. CASE Commit
  <2>1. CASE Store(snap, top.snapshot, Popped)
    BY <1>2, <1>3, <1>4, <2>1, StoreShown
  <2>2. CASE top.changeId # NoChange
    <3> DEFINE v == [current EXCEPT !.queue = Enqueue(@, top.changeId, top.deltas),
                                    !.shown = Enqueue(@, top.changeId, top.deltas)]
    <3>1. SUFFICES ASSUME NEW s \in Fresh, Store(Put(snap, s, v), s, Popped)
                   PROVE  QueueIsShown'
      BY <1>7, <2>1, <2>2 DEF Commit
    <3>2. top.changeId \in ChangeId /\ top.deltas \in Seq(Payload)
      BY <1>2, <2>2 DEF Transaction
    <3>3. /\ current.queue \in Seq(Update) /\ current.shown \in Seq(Update)
          /\ Subsequence(current.queue, current.shown)
      BY <1>2 DEF CacheSnapshot, QueueIsShown, current
    <3>4. /\ v.queue = Enqueue(current.queue, top.changeId, top.deltas)
          /\ v.shown = Enqueue(current.shown, top.changeId, top.deltas)
      BY <1>2 DEF CacheSnapshot
    <3> HIDE DEF v
    <3>5. Subsequence(v.queue, v.shown)
      BY <3>2, <3>3, <3>4, EnqueueSubsequence
    <3>6. Held(s, Popped) \subseteq DOMAIN Put(snap, s, v)
      <4>1. Held(s, Popped) \subseteq Held(live, Popped) \cup {s}
        BY DEF Held
      <4>2. QED BY <1>4, <4>1 DEF Put, TypeOK
    <3>7. QED BY <1>3, <3>1, <3>5, <3>6, PutShown, StoreShown
  <2>3. QED BY <1>7, <2>1, <2>2 DEF Commit
<1>8. QED
  BY <1>5, <1>6, <1>7

LEMMA ReplaceShown ==
    ASSUME TypeOK, TypeOK', QueueIsShown, NEW g \in Graph, Replace(g)
    PROVE  QueueIsShown'
<1> DEFINE v == [baseline |-> g, optimistic |-> g, queue |-> <<>>, shown |-> <<>>]
<1>1. PICK s \in Fresh : Store(Put(snap, s, v), s, stack)
  BY DEF Replace
<1>2. <<>> \in Seq(Update)
  OBVIOUS
<1>3. Subsequence(v.queue, v.shown)
  BY <1>2, SubsequenceItself
<1>4. AllShown(snap)
  BY DEF AllShown, QueueIsShown
<1>5. Held(s, stack) \subseteq DOMAIN Put(snap, s, v)
  BY DEF Held, Put, TypeOK
<1> HIDE DEF v
<1>6. QED
  BY <1>1, <1>3, <1>4, <1>5, PutShown, StoreShown

LEMMA NextShown ==
    ASSUME TypeOK, TypeOK', QueueIsShown, [Next]_vars PROVE QueueIsShown'
<1>1. ASSUME NEW p \in Payload, WriteBaseline(p) PROVE QueueIsShown'
  BY <1>1, WriteBaselineShown
<1>2. ASSUME NEW p \in Payload, WriteOptimistic(p) PROVE QueueIsShown'
  BY <1>2, WriteOptimisticShown
<1>3. ASSUME NEW c \in ChangeId, Rollback(c) PROVE QueueIsShown'
  BY <1>3, RollbackShown
<1>4. CASE Abort \/ Escape \/ Commit
  BY <1>4, EndShown
<1>5. CASE Restore \/ Reset
  BY <1>5, ReplaceShown, GraphAssumption DEF Restore, Reset
<1>6. CASE UNCHANGED snap
  BY <1>6 DEF QueueIsShown
<1>7. ASSUME NEW c \in ChangeId \cup {NoChange}, Begin(c) PROVE UNCHANGED snap
  BY <1>7 DEF Begin
<1>8. ASSUME NEW p \in Payload, WriteBaselineRejected(p) \/ WriteBaselineNotReplayed(p)
      PROVE  UNCHANGED snap
  BY <1>8 DEF WriteBaselineRejected, WriteBaselineNotReplayed, Raise
<1>9. ASSUME Catch \/ Throw \/ CallbackReturns \/ UpdaterReturns PROVE UNCHANGED snap
  BY <1>9 DEF Catch, Throw, CallbackReturns, UpdaterReturns, Raise
<1>10. ASSUME UNCHANGED vars PROVE UNCHANGED snap
  BY <1>10 DEF vars
<1>11. QED
  BY <1>1, <1>2, <1>3, <1>4, <1>5, <1>6, <1>7, <1>8, <1>9, <1>10 DEF Next

\* No snapshot has an update in its queue that its optimistic graph was made
\* without, and none in another order: a rollback that assigns to a shared
\* snapshot's queue only ever takes out, whatever catches, throws or nests.
THEOREM QueueAlwaysShown == Spec => []QueueIsShown
<1>1. Init => TypeOK /\ QueueIsShown
  BY InitType, InitShown
<1>2. TypeOK /\ QueueIsShown /\ [Next]_vars => TypeOK' /\ QueueIsShown'
  BY NextType, NextShown
<1>3. QED
  BY <1>1, <1>2, PTL DEF Spec
=============================================================================
