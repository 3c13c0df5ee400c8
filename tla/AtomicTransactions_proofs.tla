---------------------- MODULE AtomicTransactions_proofs ----------------------
(***************************************************************************)
(* Transactions that do not nest implement AtomicCache, for every graph    *)
(* domain, every merge function and every set of payloads and change ids.  *)
(***************************************************************************)
EXTENDS AtomicTransactions, CacheTransactions_proofs

\* The operators of the queue are the same in the abstract specification.
LEMMA AtomicOperators ==
    /\ \A q, g : Atomic!Expressed(q, g) = Expressed(q, g)
    /\ \A q, g : Atomic!ReplayThrows(q, g) <=> ReplayThrows(q, g)
    /\ \A q, c, deltas : Atomic!Enqueue(q, c, deltas) = Enqueue(q, c, deltas)
BY DEF Atomic!Expressed, Atomic!Replay, Atomic!ReplayThrows, Atomic!Enqueue,
       Expressed, Replay, ReplayThrows, Enqueue

-----------------------------------------------------------------------------
(* A queue without some of its updates.                                    *)

\* Without takes ids out of a queue one entry at a time.
LEMMA WithoutKeeps ==
    ASSUME NEW q \in Seq(Update), NEW ids
    PROVE  \E f : Keeps(f, q, ids) /\ Atomic!Without(q, ids) = f[Len(q)]
<1> DEFINE n == Len(q)
           keep(i, k) == IF q[i].id \in ids THEN k ELSE Append(k, q[i])
           step == [i \in 1..n |-> [k \in Seq(Update) |-> keep(i, k)]]
           IsKept(f) == f = [i \in 0..n |-> IF i = 0 THEN <<>> ELSE keep(i, f[i - 1])]
<1>1. n \in Nat /\ \A i \in 1..n : q[i] \in Update
  BY LenProperties, ElementOfSeq
<1>2. step \in [1..n -> [Seq(Update) -> Seq(Update)]]
  BY <1>1, AppendProperties
<1>3. PICK f :
        f \in [0..n -> Seq(Update)] /\ f[0] = <<>> /\ \A i \in 1..n : f[i] = step[i][f[i - 1]]
  <2>1. n \in Nat /\ <<>> \in Seq(Update)
    BY <1>1
  <2>2. FoldsOf(Seq(Update), n, <<>>, step) # {}
    <3> HIDE DEF step, n, IsKept
    <3>1. QED BY <2>1, <1>2, FoldExists
  <2>3. QED
    <3> HIDE DEF step, n, IsKept
    <3>1. QED BY <2>2 DEF FoldsOf
<1>4. ASSUME NEW i \in 1..n PROVE f[i] = keep(i, f[i - 1])
  <2>1. f[i - 1] \in Seq(Update)
    BY <1>1, <1>3
  <2>2. step[i] = [k \in Seq(Update) |-> keep(i, k)]
    OBVIOUS
  <2>3. QED
    <3> HIDE DEF keep, step
    <3>1. QED BY <1>3, <2>1, <2>2
<1>5. IsKept(f)
  <2> HIDE DEF keep
  <2>1. QED BY <1>1, <1>3, <1>4
<1>6. Atomic!Without(q, ids) = (CHOOSE h : IsKept(h))[n]
  BY DEF Atomic!Without
<1>7. PICK h : IsKept(h) /\ Atomic!Without(q, ids) = h[n]
  <2> HIDE DEF IsKept
  <2>1. QED BY <1>5, <1>6
<1>8. \A i \in 0..n : f[i] = h[i]
  <2>1. f[0] = h[0]
    BY <1>1, <1>3, <1>7
  <2>2. StepsAgree(n, f, h)
    <3> HIDE DEF keep
    <3>1. QED BY <1>1, <1>4, <1>7 DEF StepsAgree
  <2>3. n \in Nat
    BY <1>1
  <2> HIDE DEF n, keep, step, IsKept
  <2>4. QED BY <2>1, <2>2, <2>3, FoldUnique
<1>9. h[n] = f[n]
  <2>1. n \in 0..n
    BY <1>1
  <2> HIDE DEF n
  <2>2. QED BY <1>8, <2>1
<1>10. Keeps(f, q, ids)
  <2>1. \A i \in 1..n : f[i] = keep(i, f[i - 1])
    BY <1>4
  <2>2. QED BY <1>3, <2>1 DEF Keeps
<1>11. QED
  BY <1>7, <1>9, <1>10

\* Taking ids out of a queue leaves a queue.
LEMMA WithoutType ==
    ASSUME NEW q \in Seq(Update), NEW ids
    PROVE  Atomic!Without(q, ids) \in Seq(Update)
<1>1. Len(q) \in 0..Len(q)
  BY LenProperties
<1>2. QED
  BY <1>1, WithoutKeeps DEF Keeps

\* The last entry stays or goes by itself.
LEMMA WithoutAppend ==
    ASSUME NEW q \in Seq(Update), NEW u \in Update, NEW ids
    PROVE  Atomic!Without(Append(q, u), ids)
             = IF u.id \in ids THEN Atomic!Without(q, ids)
               ELSE Append(Atomic!Without(q, ids), u)
<1> DEFINE n == Len(q)
           r == Append(q, u)
<1>1. /\ n \in Nat
      /\ r \in Seq(Update)
      /\ Len(r) = n + 1
      /\ \A i \in 1..n : r[i] = q[i]
      /\ r[n + 1] = u
  BY AppendProperties, LenProperties
<1>2. PICK f : Keeps(f, q, ids) /\ Atomic!Without(q, ids) = f[n]
  BY WithoutKeeps
<1>3. PICK g : Keeps(g, r, ids) /\ Atomic!Without(r, ids) = g[n + 1]
  <2> HIDE DEF r
  <2>1. QED BY <1>1, WithoutKeeps
<1> HIDE DEF r
<1>4. StepsAgree(n, f, g) /\ f[0] = g[0]
  <2>1. ASSUME NEW i \in 1..n, f[i - 1] = g[i - 1]
        PROVE  f[i] = g[i]
    <3>1. i \in 1..(n + 1) /\ r[i] = q[i]
      BY <1>1
    <3>2. f[i] = IF q[i].id \in ids THEN f[i - 1] ELSE Append(f[i - 1], q[i])
      BY <1>2 DEF Keeps
    <3>3. g[i] = IF r[i].id \in ids THEN g[i - 1] ELSE Append(g[i - 1], r[i])
      BY <1>1, <1>3, <3>1 DEF Keeps
    <3>4. QED BY <2>1, <3>1, <3>2, <3>3
  <2>2. f[0] = g[0]
    BY <1>2, <1>3 DEF Keeps
  <2>3. QED BY <2>1, <2>2 DEF StepsAgree
<1>5. \A i \in 0..n : f[i] = g[i]
  <2>1. n \in Nat
    BY <1>1
  <2> HIDE DEF n
  <2>2. QED BY <1>4, <2>1, FoldUnique
<1>6. n + 1 \in 1..(n + 1) /\ (n + 1) - 1 = n /\ n \in 0..n
  BY <1>1
<1>7. g[n + 1] = IF u.id \in ids THEN g[n] ELSE Append(g[n], u)
  BY <1>1, <1>3, <1>6 DEF Keeps
<1>8. Atomic!Without(r, ids) = IF u.id \in ids THEN f[n] ELSE Append(f[n], u)
  BY <1>3, <1>5, <1>6, <1>7
<1>9. QED
  BY <1>2, <1>8 DEF r

\* Taking nothing out of a queue leaves it as it is.
LEMMA WithoutNone ==
    ASSUME NEW q \in Seq(Update)
    PROVE  Atomic!Without(q, {}) = q
<1> DEFINE n == Len(q)
<1>1. n \in Nat /\ \A i \in 1..n : q[i] \in Update
  BY LenProperties, ElementOfSeq
<1>2. PICK f : Keeps(f, q, {}) /\ Atomic!Without(q, {}) = f[n]
  BY WithoutKeeps
<1> DEFINE T == {i \in 0..n : Len(f[i]) = i /\ \A j \in 1..i : f[i][j] = q[j]}
<1>3. 0 \in T
  BY <1>1, <1>2 DEF Keeps
<1>4. ASSUME NEW i \in 1..n, i - 1 \in T PROVE i \in T
  <2>1. f[i - 1] \in Seq(Update) /\ Len(f[i - 1]) = i - 1
    BY <1>1, <1>2, <1>4 DEF Keeps
  <2>2. f[i] = Append(f[i - 1], q[i])
    BY <1>2 DEF Keeps
  <2>3. \A j \in 1..(i - 1) : f[i - 1][j] = q[j]
    BY <1>4
  <2>4. Len(f[i]) = i /\ f[i][i] = q[i] /\ \A j \in 1..(i - 1) : f[i][j] = f[i - 1][j]
    BY <1>1, <2>1, <2>2, AppendProperties
  <2>5. \A j \in 1..i : j = i \/ j \in 1..(i - 1)
    BY <1>1
  <2>6. QED BY <2>3, <2>4, <2>5
<1>5. n \in T
  <2>1. \A i \in 1..n : i - 1 \in T => i \in T
    BY <1>4
  <2>2. n \in 0..n
    BY <1>1
  <2> HIDE DEF T, n
  <2>3. QED BY <1>1, <1>3, <2>1, <2>2, UpTo
<1>6. f[n] \in Seq(Update) /\ Len(f[n]) = n /\ \A j \in 1..n : f[n][j] = q[j]
  <2>1. n \in 0..n
    BY <1>1
  <2>2. QED BY <1>2, <1>5, <2>1 DEF Keeps
<1>7. f[n] = q
  BY <1>6, SeqEqual
<1>8. QED
  BY <1>2, <1>7

\* Taking ids out one set after the other takes their union out.
LEMMA WithoutBoth ==
    ASSUME NEW q \in Seq(Update), NEW A, NEW B
    PROVE  Atomic!Without(Atomic!Without(q, A), B) = Atomic!Without(q, A \cup B)
<1> DEFINE n == Len(q)
<1>1. n \in Nat /\ \A i \in 1..n : q[i] \in Update
  BY LenProperties, ElementOfSeq
<1>2. PICK f : Keeps(f, q, A) /\ Atomic!Without(q, A) = f[n]
  BY WithoutKeeps
<1>3. PICK g : Keeps(g, q, A \cup B) /\ Atomic!Without(q, A \cup B) = g[n]
  BY WithoutKeeps
<1> DEFINE T == {i \in 0..n : Atomic!Without(f[i], B) = g[i]}
<1>4. 0 \in T
  <2>1. <<>> \in Seq(Update) /\ Len(<<>>) = 0
    OBVIOUS
  <2>2. PICK h : Keeps(h, <<>>, B) /\ Atomic!Without(<<>>, B) = h[0]
    BY <2>1, WithoutKeeps
  <2>3. QED BY <1>1, <1>2, <1>3, <2>2 DEF Keeps
<1>5. ASSUME NEW i \in 1..n, i - 1 \in T PROVE i \in T
  <2>1. f[i - 1] \in Seq(Update) /\ q[i] \in Update
    <3>1. i - 1 \in 0..n
      BY <1>1
    <3>2. \A j \in 0..n : f[j] \in Seq(Update)
      BY <1>2 DEF Keeps
    <3>3. QED BY <1>1, <3>1, <3>2
  <2>2. Atomic!Without(f[i - 1], B) = g[i - 1]
    BY <1>5
  <2>3. /\ f[i] = IF q[i].id \in A THEN f[i - 1] ELSE Append(f[i - 1], q[i])
        /\ g[i] = IF q[i].id \in A \cup B THEN g[i - 1] ELSE Append(g[i - 1], q[i])
    BY <1>2, <1>3 DEF Keeps
  <2>4. Atomic!Without(Append(f[i - 1], q[i]), B)
          = IF q[i].id \in B THEN g[i - 1] ELSE Append(g[i - 1], q[i])
    <3> DEFINE k == f[i - 1]
               u == q[i]
               rest == Atomic!Without(k, B)
    <3>1. k \in Seq(Update) /\ u \in Update
      BY <2>1
    <3>2. Atomic!Without(Append(k, u), B) = IF u.id \in B THEN rest ELSE Append(rest, u)
      <4> HIDE DEF k, u
      <4>1. QED BY <3>1, WithoutAppend
    <3>3. QED BY <2>2, <3>2
  <2>5. Atomic!Without(f[i], B) = g[i]
    BY <2>2, <2>3, <2>4
  <2>6. QED BY <1>1, <2>5
<1>6. n \in T
  <2>1. \A i \in 1..n : i - 1 \in T => i \in T
    BY <1>5
  <2>2. n \in 0..n
    BY <1>1
  <2> HIDE DEF T, n
  <2>3. QED BY <1>1, <1>4, <2>1, <2>2, UpTo
<1>7. QED
  BY <1>2, <1>3, <1>6

\* An update is removed by its id.
LEMMA RemoveIsWithout ==
    ASSUME NEW q \in Seq(Update), NEW c
    PROVE  Remove(q, c) = Atomic!Without(q, {c})
<1> DEFINE n == Len(q)
<1>1. PICK f : Keeps(f, q, {c}) /\ Remove(q, c) = f[n]
  BY RemoveKeeps
<1>2. PICK g : Keeps(g, q, {c}) /\ Atomic!Without(q, {c}) = g[n]
  BY WithoutKeeps
<1>3. n \in Nat /\ n \in 0..n
  BY LenProperties
<1>4. f[0] = g[0] /\ StepsAgree(n, f, g)
  BY <1>1, <1>2 DEF Keeps, StepsAgree
<1>5. \A i \in 0..n : f[i] = g[i]
  <2> HIDE DEF n
  <2>1. QED BY <1>3, <1>4, FoldUnique
<1>6. QED
  BY <1>1, <1>2, <1>3, <1>5

-----------------------------------------------------------------------------
(* The baselines that a transaction's writes can make.                     *)

\* One payload merged into each of the graphs.
Written(graphs) ==
    UNION {{Merge(h, p) : p \in {x \in Payload : ~Rejects(h, x)}} : h \in graphs}

LEMMA AfterWrites ==
    ASSUME NEW n \in Nat, NEW g \in Graph
    PROVE  \E f \in [0..n -> SUBSET Graph] :
             /\ f[0] = {g}
             /\ \A i \in 1..n : f[i] = Written(f[i - 1])
             /\ Atomic!After(n, g) = f[n]
<1> DEFINE step == [i \in 1..n |-> [G \in SUBSET Graph |-> Written(G)]]
           IsAfter(f) == f = [i \in 0..n |-> IF i = 0 THEN {g} ELSE Written(f[i - 1])]
<1>1. step \in [1..n -> [SUBSET Graph -> SUBSET Graph]]
  <2>1. \A G \in SUBSET Graph : Written(G) \in SUBSET Graph
    BY MergeAssumption DEF Written
  <2>2. QED BY <2>1
<1>2. PICK f :
        f \in [0..n -> SUBSET Graph] /\ f[0] = {g} /\ \A i \in 1..n : f[i] = step[i][f[i - 1]]
  <2>1. {g} \in SUBSET Graph
    OBVIOUS
  <2>2. FoldsOf(SUBSET Graph, n, {g}, step) # {}
    <3> HIDE DEF step, IsAfter
    <3>1. QED BY <2>1, <1>1, FoldExists
  <2>3. QED
    <3> HIDE DEF step, IsAfter
    <3>1. QED BY <2>2 DEF FoldsOf
<1>3. ASSUME NEW i \in 1..n PROVE f[i] = Written(f[i - 1])
  <2>1. f[i - 1] \in SUBSET Graph
    BY <1>2
  <2>2. step[i] = [G \in SUBSET Graph |-> Written(G)]
    OBVIOUS
  <2>3. QED
    <3> HIDE DEF step
    <3>1. QED BY <1>2, <2>1, <2>2
<1>4. IsAfter(f)
  BY <1>2, <1>3
<1>5. Atomic!After(n, g) = (CHOOSE h : IsAfter(h))[n]
  BY DEF Atomic!After, Written
<1>6. PICK h : IsAfter(h) /\ Atomic!After(n, g) = h[n]
  <2> HIDE DEF IsAfter
  <2>1. QED BY <1>4, <1>5
<1>7. \A i \in 0..n : f[i] = h[i]
  <2>1. f[0] = h[0]
    BY <1>2, <1>6
  <2>2. \A i \in 1..n : h[i] = Written(h[i - 1])
    <3>1. h = [i \in 0..n |-> IF i = 0 THEN {g} ELSE Written(h[i - 1])]
      BY <1>6
    <3>2. \A i \in 1..n : i \in 0..n /\ i # 0
      OBVIOUS
    <3> HIDE DEF step, IsAfter
    <3>3. QED BY <3>1, <3>2
  <2>3. StepsAgree(n, f, h)
    <3> HIDE DEF step, IsAfter
    <3>1. QED BY <1>3, <2>2 DEF StepsAgree
  <2> HIDE DEF step, IsAfter
  <2>4. QED BY <2>1, <2>3, FoldUnique
<1>8. Atomic!After(n, g) = f[n]
  <2>1. n \in 0..n
    OBVIOUS
  <2> HIDE DEF step, IsAfter
  <2>2. QED BY <1>6, <1>7, <2>1
<1>9. QED
  <2> HIDE DEF step
  <2>1. QED BY <1>2, <1>3, <1>8

\* No payload makes nothing of a graph.
LEMMA AfterNone ==
    ASSUME NEW g \in Graph
    PROVE  Atomic!After(0, g) = {g}
BY AfterWrites

\* One more payload is merged into what the ones before it made.
LEMMA AfterWrite ==
    ASSUME NEW n \in Nat, NEW g \in Graph, NEW h \in Atomic!After(n, g),
           NEW p \in Payload, ~Rejects(h, p)
    PROVE  Merge(h, p) \in Atomic!After(n + 1, g)
<1>1. PICK f \in [0..n -> SUBSET Graph] :
        f[0] = {g} /\ (\A i \in 1..n : f[i] = Written(f[i - 1])) /\ Atomic!After(n, g) = f[n]
  BY AfterWrites
<1> DEFINE m == n + 1
<1>2. m \in Nat
  OBVIOUS
<1>3. PICK k \in [0..m -> SUBSET Graph] :
        k[0] = {g} /\ (\A i \in 1..m : k[i] = Written(k[i - 1])) /\ Atomic!After(m, g) = k[m]
  <2> HIDE DEF m
  <2>1. QED BY <1>2, AfterWrites
<1>4. f[0] = k[0] /\ StepsAgree(n, f, k)
  BY <1>1, <1>3 DEF StepsAgree
<1>5. k[n] = f[n]
  <2>1. \A i \in 0..n : f[i] = k[i]
    BY <1>4, FoldUnique
  <2>2. QED BY <2>1
<1>6. k[m] = Written(k[n])
  BY <1>3
<1>7. Merge(h, p) \in Written(f[n])
  BY <1>1 DEF Written
<1>8. QED
  BY <1>3, <1>5, <1>6, <1>7

-----------------------------------------------------------------------------
(* Every step is one of AtomicCache or none.                               *)

\* The numbers of payloads that AtomicCache allows have no bound.
Unbounded  == WriteCount = Nat /\ PayloadLists = Seq(Payload)

AtomicStep == [Atomic!Next]_Atomic!vars

\* A step that leaves the value of the live snapshot alone is none.
LEMMA QuietStep ==
    ASSUME snap'[live'] = snap[live]
    PROVE  AtomicStep
BY DEF AtomicStep, Atomic!vars

\* The only transaction of a stack.
LEMMA OnlyTop ==
    ASSUME TypeOK, AtomicInv, stack # <<>>
    PROVE  /\ Len(stack) = 1
           /\ top = stack[1]
           /\ Popped = <<>>
BY OneRuns DEF AtomicInv

\* When no transaction runs, there is nothing to commit.
LEMMA NoneRuns ==
    ASSUME stack' = <<>>
    PROVE  AtomicInv'
BY DEF AtomicInv

\* The transaction goes on as t.
LEMMA TopGoesOn ==
    ASSUME TypeOK, AtomicInv, stack # <<>>, NEW t \in Transaction,
           stack' = WithTop(t),
           t.raised \/ Committable(t, snap'[t.snapshot], snap'[live'])
    PROVE  AtomicInv'
<1>1. /\ WithTop(t) \in Seq(Transaction)
      /\ Len(WithTop(t)) = Len(stack)
      /\ WithTop(t)[Len(stack)] = t
  BY WithTopType
<1>2. Len(stack') = 1 /\ stack'[1] = t
  BY <1>1, OnlyTop
<1>3. top' = t /\ current' = snap'[t.snapshot]
  BY <1>2 DEF top, current
<1>4. QED
  BY <1>2, <1>3 DEF AtomicInv

\* It goes on with a new snapshot: the live one keeps its value in h.
LEMMA AdvanceAtomic ==
    ASSUME TypeOK, AtomicInv, stack # <<>>,
           NEW h, DOMAIN h = DOMAIN snap,
           NEW t \in Transaction, NEW v, Advance(h, t, v),
           t.raised \/ Committable(t, v, h[live])
    PROVE  AtomicInv' /\ live' = live /\ snap'[live'] = h[live]
<1>1. PICK s \in Fresh : Store(Put(h, s, v), live, WithTop([t EXCEPT !.snapshot = s]))
  BY DEF Advance
<1> DEFINE u == [t EXCEPT !.snapshot = s]
           k == Put(h, s, v)
<1>2. s \in SnapId /\ s \notin DOMAIN snap /\ live \in DOMAIN snap
  BY <1>1 DEF Fresh, TypeOK
<1>3. /\ u \in Transaction
      /\ u.snapshot = s
      /\ u.raised = t.raised
      /\ u.changeId = t.changeId
  BY <1>2 DEF Transaction
<1>4. k[s] = v /\ k[live] = h[live]
  BY <1>2 DEF Put
<1> HIDE DEF u, k
<1>5. Store(k, live, WithTop(u))
  BY <1>1 DEF u, k
<1>6. /\ live' = live
      /\ stack' = WithTop(u)
      /\ \A r \in Held(live, WithTop(u)) : snap'[r] = k[r]
  BY <1>5, StoreHeap
<1>7. /\ WithTop(u) \in Seq(Transaction)
      /\ Len(WithTop(u)) = Len(stack)
      /\ WithTop(u)[Len(stack)] = u
  BY <1>3, WithTopType
<1>8. live \in Held(live, WithTop(u)) /\ s \in Held(live, WithTop(u))
  BY <1>3, <1>7, OnlyTop DEF Held
<1>9. snap'[live'] = h[live] /\ snap'[u.snapshot] = v
  BY <1>3, <1>4, <1>6, <1>8
<1>10. u.raised \/ Committable(u, v, h[live])
  BY <1>3 DEF Committable
<1>11. QED
  BY <1>3, <1>6, <1>9, <1>10, TopGoesOn

\* What the running transaction can commit, as long as it has not thrown.
LEMMA TopCommittable ==
    ASSUME TypeOK, AtomicInv, stack # <<>>, ~top.raised
    PROVE  /\ Committable(top, current, snap[live])
           /\ snap[live] \in CacheSnapshot
           /\ live \in DOMAIN snap
BY DEF AtomicInv, TypeOK

LEMMA InitAtomic == Unbounded /\ Init => AtomicInv /\ Atomic!Init
<1> SUFFICES ASSUME Init PROVE AtomicInv /\ Atomic!Init
  OBVIOUS
<1>1. PICK s \in SnapId :
        /\ live = s
        /\ snap = [r \in {s} |-> [baseline |-> EmptyGraph, optimistic |-> EmptyGraph,
                                  queue |-> <<>>, shown |-> <<>>]]
        /\ stack = <<>>
  BY DEF Init
<1>2. AtomicInv
  BY <1>1 DEF AtomicInv
<1>3. Atomic!Init
  BY <1>1 DEF Atomic!Init
<1>4. QED
  BY <1>2, <1>3

LEMMA BeginAtomic ==
    ASSUME TypeOK, AtomicInv, Sequential, Unbounded,
           NEW c \in ChangeId \cup {NoChange}, Begin(c)
    PROVE  AtomicInv' /\ AtomicStep
<1> DEFINE t == [changeId |-> c, snapshot |-> live,
                 parent |-> IF c = NoChange THEN snap[live].baseline
                                            ELSE snap[live].optimistic,
                 edited |-> {}, deltas |-> <<>>, phase |-> "callback",
                 updaters |-> {}, raised |-> FALSE,
                 lagging |-> snap[live].queue # snap[live].shown]
           l == snap[live]
<1>1. stack = <<>> /\ stack' = Append(stack, t) /\ snap' = snap /\ live' = live
  BY DEF Begin, CanCall, Sequential
<1>2. Len(stack') = 1 /\ stack'[1] = t
  BY <1>1
<1>3. l.queue \in Seq(Update) /\ l.baseline \in Graph
  BY DEF TypeOK, CacheSnapshot
<1>4. Committable(t, l, l)
  <2>1. l.queue = Atomic!Without(l.queue, {})
    BY <1>3, WithoutNone
  <2>2. l.baseline \in Atomic!After(0, l.baseline) /\ 0 \in WriteCount
    BY <1>3, AfterNone DEF Unbounded
  <2> HIDE DEF t, l
  <2>3. QED BY <2>1, <2>2 DEF Committable
<1>5. top' = t /\ current' = l
  BY <1>1, <1>2 DEF top, current
<1>6. AtomicInv'
  <2> HIDE DEF t
  <2>1. snap'[live'] = l
    BY <1>1
  <2>2. QED BY <1>2, <1>4, <1>5, <2>1 DEF AtomicInv
<1>7. QED
  BY <1>1, <1>6, QuietStep

\* One more payload in the baseline.
LEMMA WriteBaselineAtomic ==
    ASSUME TypeOK, AtomicInv, Unbounded, NEW p \in Payload, WriteBaseline(p)
    PROVE  AtomicInv' /\ AtomicStep
<1> DEFINE b == Merge(current.baseline, p)
           t == [top EXCEPT !.edited = @ \cup Edits(current.baseline, p)
                                         \cup ReplayEdits(current.queue, b)]
           v == [baseline |-> b, optimistic |-> Expressed(current.queue, b),
                 queue |-> current.queue, shown |-> current.queue]
           l == snap[live]
<1>1. /\ stack # <<>>
      /\ ~top.raised
      /\ top.changeId = NoChange
      /\ ~Rejects(current.baseline, p)
      /\ ~ReplayThrows(current.queue, b)
      /\ Advance(snap, t, v)
  BY DEF WriteBaseline, Running
<1>2. top \in Transaction /\ current \in CacheSnapshot /\ l \in CacheSnapshot
  BY <1>1, TopType, TopCommittable
<1>3. /\ current.queue \in Seq(Update)
      /\ l.baseline \in Graph
      /\ b \in Graph
      /\ Edits(current.baseline, p) \subseteq Node
  BY <1>2, MergeAssumption DEF CacheSnapshot
<1>4. t \in Transaction /\ t.changeId = NoChange
  BY <1>1, <1>2, <1>3, ReplayEditsType DEF Transaction
<1>5. Committable(top, current, l)
  BY <1>1, TopCommittable
<1>6. PICK n \in Nat : current.baseline \in Atomic!After(n, l.baseline)
  BY <1>1, <1>5 DEF Committable, Unbounded
<1>7. n + 1 \in Nat /\ b \in Atomic!After(n + 1, l.baseline)
  BY <1>1, <1>3, <1>6, AfterWrite
<1>8. /\ v.baseline = b
      /\ v.queue = current.queue
      /\ v.shown = current.queue
  OBVIOUS
<1>9. Committable(t, v, l)
  <2> HIDE DEF b, t, v, l
  <2>1. \E ids \in SUBSET ChangeId : v.queue = Atomic!Without(l.queue, ids)
    BY <1>5, <1>8 DEF Committable
  <2>2. \E k \in WriteCount : v.baseline \in Atomic!After(k, l.baseline)
    BY <1>7, <1>8 DEF Unbounded
  <2>3. Remade(v)
    BY <1>1, <1>8 DEF Remade
  <2>4. QED BY <1>4, <2>1, <2>2, <2>3 DEF Committable
<1>10. QED
  <2> HIDE DEF t, v
  <2>1. AtomicInv' /\ snap'[live'] = snap[live]
    BY <1>1, <1>4, <1>9, AdvanceAtomic
  <2>2. QED BY <2>1, QuietStep

\* One more delta on top of what is shown.
LEMMA WriteOptimisticAtomic ==
    ASSUME TypeOK, AtomicInv, NEW p \in Payload, WriteOptimistic(p)
    PROVE  AtomicInv' /\ AtomicStep
<1> DEFINE t == [top EXCEPT !.deltas = Append(@, p)]
           u == [t EXCEPT !.edited = @ \cup Edits(current.optimistic, p)]
           v == [current EXCEPT !.optimistic = Merge(@, p)]
           l == snap[live]
<1>1. stack # <<>> /\ ~top.raised /\ top.changeId # NoChange
  BY DEF WriteOptimistic, Running
<1>2. top \in Transaction /\ current \in CacheSnapshot /\ l \in CacheSnapshot
  BY <1>1, TopType, TopCommittable
<1>3. /\ Append(top.deltas, p) \in Seq(Payload)
      /\ Edits(current.optimistic, p) \subseteq Node
  BY <1>2, AppendProperties, MergeAssumption DEF Transaction, CacheSnapshot
<1>4. t \in Transaction /\ t.changeId = top.changeId
  BY <1>2, <1>3 DEF Transaction
<1>5. u \in Transaction /\ u.changeId = top.changeId
  <2> HIDE DEF t
  <2>1. QED BY <1>3, <1>4 DEF Transaction
<1>6. v.baseline = current.baseline /\ v.queue = current.queue /\ v.shown = current.shown
  BY <1>2 DEF CacheSnapshot
<1>7. Committable(u, v, l)
  <2>1. Committable(top, current, l)
    BY <1>1, TopCommittable
  <2> HIDE DEF t, u, v, l
  <2>2. QED BY <1>1, <1>5, <1>6, <2>1 DEF Committable, Remade
<1>8. CASE Advance(snap, u, v)
  <2> HIDE DEF t, u, v
  <2>1. AtomicInv' /\ snap'[live'] = snap[live]
    BY <1>1, <1>5, <1>7, <1>8, AdvanceAtomic
  <2>2. QED BY <2>1, QuietStep
<1>9. CASE Raise(t)
  <2> DEFINE w == [t EXCEPT !.raised = TRUE]
  <2>1. w \in Transaction /\ w.raised
    <3> HIDE DEF t
    <3>1. QED BY <1>4 DEF Transaction
  <2>2. stack' = WithTop(w) /\ live' = live /\ snap' = snap
    BY <1>9 DEF Raise
  <2> HIDE DEF t, w
  <2>3. QED BY <1>1, <2>1, <2>2, TopGoesOn, QuietStep
<1>10. QED
  BY <1>8, <1>9 DEF WriteOptimistic

\* The snapshot that a rollback makes can be committed: over the live one,
\* and over the live one without the update if the rollback took it out of
\* the queue that the two share.
LEMMA RolledBackCommittable ==
    ASSUME NEW t, NEW v, NEW l \in CacheSnapshot, NEW w,
           v \in CacheSnapshot, Committable(t, v, l),
           NEW c \in ChangeId, NEW u, u.changeId = t.changeId,
           w.baseline = v.baseline, w.queue = Remove(v.queue, c), w.shown = w.queue,
           ~ReplayThrows(w.queue, w.baseline)
    PROVE  /\ Committable(u, w, l)
           /\ v = l => Committable(u, w, [l EXCEPT !.queue = Remove(@, c)])
<1>1. PICK ids \in SUBSET ChangeId : v.queue = Atomic!Without(l.queue, ids)
  BY DEF Committable
<1>2. l.queue \in Seq(Update) /\ v.queue \in Seq(Update)
  BY DEF CacheSnapshot
<1>3. Remove(v.queue, c) = Atomic!Without(l.queue, ids \cup {c})
  <2>1. Remove(v.queue, c) = Atomic!Without(v.queue, {c})
    BY <1>2, RemoveIsWithout
  <2>2. Atomic!Without(Atomic!Without(l.queue, ids), {c})
          = Atomic!Without(l.queue, ids \cup {c})
    <3> DEFINE q == l.queue
    <3>1. q \in Seq(Update)
      BY <1>2
    <3> HIDE DEF q
    <3>2. Atomic!Without(Atomic!Without(q, ids), {c}) = Atomic!Without(q, ids \cup {c})
      BY <3>1, WithoutBoth
    <3>3. QED BY <3>2 DEF q
  <2>3. QED BY <1>1, <2>1, <2>2
<1>4. Remade(w)
  BY DEF Remade
<1>5. Committable(u, w, l)
  <2>1. ids \cup {c} \in SUBSET ChangeId
    OBVIOUS
  <2>2. QED BY <1>3, <1>4, <2>1 DEF Committable
<1>6. ASSUME v = l PROVE Committable(u, w, [l EXCEPT !.queue = Remove(@, c)])
  <2> DEFINE m == [l EXCEPT !.queue = Remove(@, c)]
  <2>1. m.queue = w.queue /\ m.baseline = l.baseline
    BY <1>6 DEF CacheSnapshot
  <2>2. w.queue = Atomic!Without(m.queue, {})
    BY <1>2, <2>1, RemoveType, WithoutNone
  <2> HIDE DEF m
  <2>3. Committable(u, w, m)
    BY <1>4, <1>5, <2>1, <2>2 DEF Committable
  <2>4. QED BY <2>3 DEF m
<1>7. QED
  BY <1>5, <1>6

LEMMA RollbackAtomic ==
    ASSUME TypeOK, AtomicInv, NEW c \in ChangeId, Rollback(c)
    PROVE  AtomicInv' /\ AtomicStep
<1> DEFINE q == Remove(current.queue, c)
           h == [snap EXCEPT ![top.snapshot].queue = q]
           t == [top EXCEPT !.edited = @ \cup NodeIds(current.optimistic)
                                         \cup ReplayEdits(q, current.baseline)]
           v == [baseline |-> current.baseline,
                 optimistic |-> Expressed(q, current.baseline),
                 queue |-> q, shown |-> q]
           l == snap[live]
<1>1. stack # <<>> /\ ~top.raised
  BY DEF Rollback, Running
<1>2. /\ top \in Transaction
      /\ top.snapshot \in DOMAIN snap
      /\ live \in DOMAIN snap
      /\ current \in CacheSnapshot
      /\ l \in CacheSnapshot
      /\ Committable(top, current, l)
  BY <1>1, TopType, TopCommittable
<1>3. /\ current.baseline \in Graph
      /\ current.optimistic \in Graph
      /\ q \in Seq(Update)
  BY <1>2, RemoveType DEF CacheSnapshot
<1>4. DOMAIN h = DOMAIN snap
  OBVIOUS
<1>5. h[live] = IF top.snapshot = live THEN [l EXCEPT !.queue = Remove(@, c)] ELSE l
  <2>1. top.snapshot = live => current = l
    BY DEF current
  <2>2. QED BY <1>2, <2>1 DEF TypeOK, CacheSnapshot
\* The live snapshot may be the one whose queue is replaced in place.
<1>6. ASSUME live' = live, snap'[live'] = h[live] PROVE AtomicStep
  <2>1. CASE top.snapshot = live
    <3>1. h[live] = [l EXCEPT !.queue = Remove(@, c)]
      BY <1>5, <2>1
    <3>2. l.queue \in Seq(Update) /\ Remove(l.queue, c) = Atomic!Without(l.queue, {c})
      BY <1>2, RemoveIsWithout DEF CacheSnapshot
    <3>3. /\ snap'[live'].queue = Atomic!Without(l.queue, {c})
          /\ snap'[live'].baseline = l.baseline
          /\ snap'[live'].optimistic = l.optimistic
          /\ snap'[live'].shown = l.shown
      <4> HIDE DEF h, l
      <4>1. QED BY <1>2, <1>6, <3>1, <3>2 DEF CacheSnapshot
    <3>4. Atomic!RollbackBegins(c)
      BY <3>3 DEF Atomic!RollbackBegins
    <3>5. QED BY <3>4 DEF AtomicStep, Atomic!Next
  <2>2. CASE top.snapshot # live
    <3> HIDE DEF h
    <3>1. QED BY <1>5, <1>6, <2>2, QuietStep
  <2>3. QED BY <2>1, <2>2
<1>7. t \in Transaction /\ t.changeId = top.changeId
  <2> HIDE DEF q
  <2>1. QED BY <1>2, <1>3, GraphAssumption, ReplayEditsType DEF Transaction
<1>8. CASE ~ReplayThrows(q, current.baseline) /\ Advance(h, t, v)
  <2>1. /\ v.baseline = current.baseline
        /\ v.queue = Remove(current.queue, c)
        /\ v.shown = v.queue
        /\ ~ReplayThrows(v.queue, v.baseline)
    BY <1>8
  <2>2. Committable(t, v, h[live])
    <3> HIDE DEF h, t, v, l, q
    <3>1. Committable(t, v, l)
      BY <1>2, <1>7, <2>1, RolledBackCommittable
    <3>2. current = l => Committable(t, v, [l EXCEPT !.queue = Remove(@, c)])
      BY <1>2, <1>7, <2>1, RolledBackCommittable
    <3>3. top.snapshot = live => current = l
      BY DEF current, l
    <3>4. QED BY <1>5, <3>1, <3>2, <3>3
  <2> HIDE DEF h, t, v, q
  <2>3. AtomicInv' /\ live' = live /\ snap'[live'] = h[live]
    BY <1>1, <1>4, <1>7, <1>8, <2>2, AdvanceAtomic
  <2>4. QED BY <1>6, <2>3
<1>9. CASE /\ snap' = h
           /\ stack' = WithTop([top EXCEPT !.raised = TRUE, !.lagging = @ \/ top.snapshot = live])
           /\ UNCHANGED live
  <2> DEFINE u == [top EXCEPT !.raised = TRUE, !.lagging = @ \/ top.snapshot = live]
  <2>1. u \in Transaction /\ u.raised
    BY <1>2 DEF Transaction
  <2> HIDE DEF h, u
  <2>2. stack' = WithTop(u) /\ live' = live /\ snap'[live'] = h[live]
    BY <1>9 DEF u
  <2>3. AtomicInv'
    BY <1>1, <2>1, <2>2, TopGoesOn
  <2>4. QED BY <1>6, <2>2, <2>3
<1>10. QED
  BY <1>8, <1>9 DEF Rollback

\* A write that throws, the callback throwing, and what else only changes
\* how far the transaction is.
LEMMA ControlAtomic ==
    ASSUME TypeOK, AtomicInv, Disciplined,
           \/ \E p \in Payload : WriteBaselineRejected(p) \/ WriteBaselineNotReplayed(p)
           \/ Catch \/ Throw \/ CallbackReturns \/ UpdaterReturns
    PROVE  AtomicInv' /\ AtomicStep
<1>1. stack # <<>> /\ live' = live /\ snap' = snap
  BY DEF WriteBaselineRejected, WriteBaselineNotReplayed, Catch, Throw, CallbackReturns,
         UpdaterReturns, Running, Raise
<1>2. top \in Transaction /\ current \in CacheSnapshot
  BY <1>1, TopType
<1>3. ASSUME NEW t \in Transaction, Raise(t) PROVE AtomicInv'
  <2> DEFINE u == [t EXCEPT !.raised = TRUE]
  <2>1. u \in Transaction /\ u.raised
    BY DEF Transaction
  <2>2. stack' = WithTop(u)
    BY <1>3 DEF Raise
  <2> HIDE DEF u
  <2>3. QED BY <1>1, <2>1, <2>2, TopGoesOn
<1>4. ASSUME NEW t \in Transaction, t.snapshot = top.snapshot, t.changeId = top.changeId,
             ~top.raised, stack' = WithTop(t)
      PROVE  AtomicInv'
  <2>1. Committable(top, current, snap[live])
    BY <1>1, <1>4, TopCommittable
  <2>2. Committable(t, snap'[t.snapshot], snap'[live'])
    BY <1>1, <1>4, <2>1 DEF Committable, current
  <2>3. QED BY <1>1, <1>4, <2>2, TopGoesOn
<1>5. ASSUME NEW p \in Payload, WriteBaselineRejected(p) \/ WriteBaselineNotReplayed(p)
      PROVE  AtomicInv'
  <2> DEFINE t == [top EXCEPT !.edited = @ \cup Edits(current.baseline, p)]
  <2>1. Edits(current.baseline, p) \subseteq Node
    BY <1>2, MergeAssumption DEF CacheSnapshot
  <2>2. t \in Transaction
    BY <1>2, <2>1 DEF Transaction
  <2>3. Raise(top) \/ Raise(t)
    BY <1>5 DEF WriteBaselineRejected, WriteBaselineNotReplayed
  <2> HIDE DEF t
  <2>4. QED BY <1>2, <1>3, <2>2, <2>3
<1>6. ASSUME Throw PROVE AtomicInv'
  BY <1>2, <1>3, <1>6 DEF Throw
<1>7. ASSUME CallbackReturns PROVE AtomicInv'
  <2> DEFINE n == top.edited \cap HasUpdater \cap (NodeIds(GraphOf(top)) \cup NodeIds(top.parent))
             t == [top EXCEPT !.phase = "updaters", !.updaters = n]
  <2>1. t \in Transaction /\ t.snapshot = top.snapshot /\ t.changeId = top.changeId
    BY <1>2 DEF Transaction
  <2>2. ~top.raised /\ stack' = WithTop(t)
    BY <1>7 DEF CallbackReturns, Running
  <2> HIDE DEF t
  <2>3. QED BY <1>4, <2>1, <2>2
<1>8. ASSUME UpdaterReturns PROVE AtomicInv'
  <2>1. PICK n \in top.updaters : stack' = WithTop([top EXCEPT !.updaters = @ \ {n}])
    BY <1>8 DEF UpdaterReturns
  <2> DEFINE t == [top EXCEPT !.updaters = @ \ {n}]
  <2>2. t \in Transaction /\ t.snapshot = top.snapshot /\ t.changeId = top.changeId
    BY <1>2 DEF Transaction
  <2>3. ~top.raised /\ stack' = WithTop(t)
    BY <1>8, <2>1 DEF UpdaterReturns, Running
  <2> HIDE DEF t
  <2>4. QED BY <1>4, <2>2, <2>3
<1>9. AtomicInv'
  BY <1>5, <1>6, <1>7, <1>8 DEF Disciplined, Catch
<1>10. QED
  BY <1>1, <1>9, QuietStep

\* The transaction is given up: the live snapshot is what it was.
LEMMA AbortAtomic ==
    ASSUME TypeOK, AtomicInv, Abort \/ Escape
    PROVE  AtomicInv' /\ AtomicStep
<1>1. stack # <<>> /\ Len(stack) - 1 = 0
  BY OnlyTop DEF Abort, Escape
<1>2. Store(snap, live, <<>>)
  <2>1. CASE Abort
    BY <1>1, <2>1, OnlyTop DEF Abort
  <2>2. CASE Escape
    <3>1. [i \in 1..0 |-> IF i = 0 THEN [stack[i] EXCEPT !.raised = TRUE] ELSE stack[i]] = <<>>
      OBVIOUS
    <3>2. QED BY <1>1, <2>2, <3>1 DEF Escape
  <2>3. QED BY <2>1, <2>2
<1>3. live' = live /\ stack' = <<>> /\ \A r \in Held(live, <<>>) : snap'[r] = snap[r]
  BY <1>2, StoreHeap
<1>4. snap'[live'] = snap[live]
  BY <1>3 DEF Held
<1>5. QED
  BY <1>3, <1>4, NoneRuns, QuietStep

\* A commit is the whole transaction.
LEMMA CommitAtomic ==
    ASSUME TypeOK, AtomicInv, Unbounded, ReplayInv', Commit
    PROVE  AtomicInv' /\ AtomicStep
<1> DEFINE c == top.changeId
           l == snap[live]
           v == [current EXCEPT !.queue = Enqueue(@, c, top.deltas),
                                !.shown = Enqueue(@, c, top.deltas)]
<1>1. stack # <<>> /\ ~top.raised /\ Popped = <<>>
  BY OnlyTop DEF Commit
<1>2. /\ top \in Transaction
      /\ current \in CacheSnapshot
      /\ l \in CacheSnapshot
      /\ Committable(top, current, l)
  BY <1>1, TopType, TopCommittable
<1>3. snap'[live'].optimistic = Expressed(snap'[live'].shown, snap'[live'].baseline)
  BY DEF ReplayInv, OptimisticIsReplay
<1>4. CASE c = NoChange
  <2>1. Store(snap, top.snapshot, <<>>)
    BY <1>1, <1>4 DEF Commit
  <2>2. stack' = <<>> /\ snap'[live'] = current
    BY <2>1, StoreHeap DEF Held, current
  <2>3. CASE current = l
    BY <2>2, <2>3, NoneRuns, QuietStep
  <2>4. CASE Remade(current)
    <3>1. PICK ids \in SUBSET ChangeId : current.queue = Atomic!Without(l.queue, ids)
      BY <1>2 DEF Committable
    <3>2. PICK n \in WriteCount : current.baseline \in Atomic!After(n, l.baseline)
      BY <1>2, <1>4 DEF Committable
    <3>3. Atomic!BaselineTransaction(ids)
      BY <1>3, <2>2, <2>4, <3>1, <3>2, AtomicOperators
      DEF Atomic!BaselineTransaction, Remade
    <3>4. AtomicStep
      BY <3>3 DEF AtomicStep, Atomic!Next
    <3>5. QED BY <2>2, <3>4, NoneRuns
  <2>5. QED BY <1>2, <1>4, <2>3, <2>4 DEF Committable
<1>5. CASE c # NoChange
  <2>1. PICK s \in Fresh : Store(Put(snap, s, v), s, <<>>)
    BY <1>1, <1>5 DEF Commit
  <2>2. /\ v.queue = Enqueue(current.queue, c, top.deltas)
        /\ v.shown = Enqueue(current.shown, c, top.deltas)
        /\ v.baseline = current.baseline
    BY <1>2 DEF CacheSnapshot
  <2>3. c \in ChangeId /\ top.deltas \in PayloadLists /\ current.baseline = l.baseline
    BY <1>2, <1>5 DEF Transaction, Unbounded, Committable
  <2> HIDE DEF v, c, l
  <2>4. stack' = <<>> /\ snap'[live'] = v
    <3>1. Put(snap, s, v)[s] = v
      BY DEF Put
    <3>2. QED BY <2>1, <3>1, StoreHeap DEF Held
  <2>5. CASE current.shown = l.shown /\ current.queue = l.queue
    <3>1. Atomic!OptimisticTransaction(c, top.deltas)
      BY <1>3, <2>2, <2>3, <2>4, <2>5, AtomicOperators DEF Atomic!OptimisticTransaction, l
    <3>2. AtomicStep
      BY <2>3, <3>1 DEF AtomicStep, Atomic!Next
    <3>3. QED BY <2>4, <3>2, NoneRuns
  <2>6. CASE Remade(current)
    <3>1. PICK ids \in SUBSET ChangeId : current.queue = Atomic!Without(l.queue, ids)
      BY <1>2 DEF Committable
    <3>2. Atomic!OptimisticReplacement(c, ids, top.deltas)
      BY <1>3, <2>2, <2>3, <2>4, <2>6, <3>1, AtomicOperators
      DEF Atomic!OptimisticReplacement, Remade, l
    <3>3. AtomicStep
      BY <2>3, <3>2 DEF AtomicStep, Atomic!Next
    <3>4. QED BY <2>4, <3>3, NoneRuns
  <2>7. QED BY <1>2, <2>5, <2>6 DEF Committable
<1>6. QED
  BY <1>4, <1>5

LEMMA ReplaceAtomic ==
    ASSUME TypeOK, Sequential, NEW g \in Restorable \cup {EmptyGraph}, Replace(g)
    PROVE  AtomicInv' /\ AtomicStep
<1> DEFINE v == [baseline |-> g, optimistic |-> g, queue |-> <<>>, shown |-> <<>>]
<1>1. PICK s \in Fresh : Store(Put(snap, s, v), s, stack)
  BY DEF Replace
<1>2. stack = <<>>
  BY DEF Replace, CanCall, Sequential
<1>3. live' = s /\ stack' = <<>> /\ snap'[s] = v
  <2> HIDE DEF v
  <2>1. Put(snap, s, v)[s] = v
    BY DEF Put
  <2>2. QED BY <1>1, <1>2, <2>1, StoreHeap DEF Held
<1>4. Atomic!Replace(g)
  BY <1>3 DEF Atomic!Replace
<1>5. QED
  BY <1>3, <1>4, NoneRuns DEF AtomicStep, Atomic!Next

LEMMA NextAtomic ==
    ASSUME Disciplined, Sequential, Unbounded, TypeOK, ReplayInv', AtomicInv, [Next]_vars
    PROVE  AtomicInv' /\ AtomicStep
<1>1. ASSUME NEW c \in ChangeId \cup {NoChange}, Begin(c) PROVE AtomicInv' /\ AtomicStep
  BY <1>1, BeginAtomic
<1>2. ASSUME NEW p \in Payload, WriteBaseline(p) PROVE AtomicInv' /\ AtomicStep
  BY <1>2, WriteBaselineAtomic
<1>3. ASSUME \/ \E p \in Payload : WriteBaselineRejected(p) \/ WriteBaselineNotReplayed(p)
             \/ Catch \/ Throw \/ CallbackReturns \/ UpdaterReturns
      PROVE  AtomicInv' /\ AtomicStep
  BY <1>3, ControlAtomic
<1>4. ASSUME NEW p \in Payload, WriteOptimistic(p) PROVE AtomicInv' /\ AtomicStep
  BY <1>4, WriteOptimisticAtomic
<1>5. ASSUME NEW c \in ChangeId, Rollback(c) PROVE AtomicInv' /\ AtomicStep
  BY <1>5, RollbackAtomic
<1>6. CASE Abort \/ Escape
  BY <1>6, AbortAtomic
<1>7. CASE Commit
  BY <1>7, CommitAtomic
<1>8. CASE Restore
  BY <1>8, ReplaceAtomic DEF Restore
<1>9. CASE Reset
  BY <1>9, ReplaceAtomic DEF Reset
<1>10. CASE UNCHANGED vars
  <2>1. AtomicInv'
    BY <1>10 DEF vars, AtomicInv, top, current
  <2>2. QED BY <1>10, <2>1, QuietStep DEF vars
<1>11. QED
  BY <1>1, <1>2, <1>3, <1>4, <1>5, <1>6, <1>7, <1>8, <1>9, <1>10 DEF Next

\* A transaction that runs is always one that could be committed in a single
\* step, unless it has thrown and will be aborted.
THEOREM AlwaysCommittable ==
    Disciplined /\ Sequential /\ Unbounded /\ Spec => []AtomicInv
<1> DEFINE Assumed == Disciplined /\ Sequential /\ Unbounded
<1>1. Assumed /\ Init => TypeOK /\ ReplayInv /\ AtomicInv
  BY InitType, InitReplay, InitAtomic
<1>2. Assumed /\ TypeOK /\ ReplayInv /\ AtomicInv /\ [Next]_vars
        => TypeOK' /\ ReplayInv' /\ AtomicInv'
  BY NextType, NextReplay, NextAtomic
<1>3. Assumed => []Assumed
  OBVIOUS
<1>4. QED
  BY <1>1, <1>2, <1>3, PTL DEF Spec

\* A cache whose transactions run one after the other implements the atomic
\* cache: what it serves only ever changes by whole transactions, by what a
\* rollback does to the queue at once, and by restoring or resetting it.
THEOREM TransactionsAreAtomic ==
    Disciplined /\ Sequential /\ Unbounded /\ Spec => IsAtomic
<1> DEFINE Assumed == Disciplined /\ Sequential /\ Unbounded
<1>1. Assumed /\ Init => TypeOK /\ ReplayInv /\ AtomicInv /\ Atomic!Init
  BY InitType, InitReplay, InitAtomic
<1>2. Assumed /\ TypeOK /\ ReplayInv /\ AtomicInv /\ [Next]_vars
        => TypeOK' /\ ReplayInv' /\ AtomicInv' /\ [Atomic!Next]_Atomic!vars
  BY NextType, NextReplay, NextAtomic DEF AtomicStep
<1>3. Assumed => []Assumed
  OBVIOUS
<1>4. QED
  BY <1>1, <1>2, <1>3, PTL DEF Spec, IsAtomic, Atomic!Spec
=============================================================================
