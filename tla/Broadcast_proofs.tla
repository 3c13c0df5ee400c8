-------------------------- MODULE Broadcast_proofs --------------------------
(***************************************************************************)
(* What TLAPS proves of Broadcast, for every set of graphs and queries,    *)
(* whatever reading gives, and every bound.                                *)
(***************************************************************************)
EXTENDS Broadcast, SequenceTheorems, TLAPS

-----------------------------------------------------------------------------
(* Sequences: the last element of a stack, and an element that goes.       *)

\* A non-empty sequence has a last element.
LEMMA LastElement ==
    ASSUME NEW S, NEW s \in Seq(S), s # <<>>
    PROVE  Len(s) \in Nat /\ Len(s) \in 1..Len(s) /\ s[Len(s)] \in S
<1>1. Len(s) \in Nat \ {0}
  BY EmptySeq
<1>2. QED
  BY <1>1, ElementOfSeq

\* Replacing the last element leaves the others.
LEMMA ReplaceLast ==
    ASSUME NEW S, NEW s \in Seq(S), s # <<>>, NEW e \in S
    PROVE  /\ [s EXCEPT ![Len(s)] = e] \in Seq(S)
           /\ Len([s EXCEPT ![Len(s)] = e]) = Len(s)
           /\ \A i \in 1..Len(s) :
                [s EXCEPT ![Len(s)] = e][i] = IF i = Len(s) THEN e ELSE s[i]
BY LastElement, ExceptSeq

\* So does removing it.
LEMMA DropLast ==
    ASSUME NEW S, NEW s \in Seq(S), s # <<>>
    PROVE  LET r == SubSeq(s, 1, Len(s) - 1)
           IN  /\ r \in Seq(S)
               /\ Len(r) = Len(s) - 1
               /\ \A i \in 1..Len(r) : i \in 1..Len(s) /\ i < Len(s) /\ r[i] = s[i]
<1> DEFINE n == Len(s) - 1
<1>1. n \in Nat /\ 1 \in Int /\ n \in Int /\ n < Len(s) /\ \A i \in 1..n : i \in 1..Len(s)
  BY LastElement
<1>2. \A i \in 1..n : s[i] \in S
  BY <1>1, ElementOfSeq
<1>3. n = Len(s) - 1
  OBVIOUS
<1> HIDE DEF n
<1>4. /\ SubSeq(s, 1, n) \in Seq(S)
      /\ Len(SubSeq(s, 1, n)) = IF 1 <= n THEN n - 1 + 1 ELSE 0
      /\ \A i \in 1..(n - 1 + 1) : SubSeq(s, 1, n)[i] = s[1 + i - 1]
  BY <1>1, <1>2, SubSeqProperties
<1>5. n - 1 + 1 = n /\ \A i \in 1..n : 1 + i - 1 = i /\ i < Len(s)
  BY <1>1
<1>6. Len(SubSeq(s, 1, n)) = n
  BY <1>1, <1>4, <1>5
<1>7. \A i \in 1..n : SubSeq(s, 1, n)[i] = s[i]
  BY <1>4, <1>5
<1>8. QED
  BY <1>1, <1>3, <1>4, <1>5, <1>6, <1>7

\* Removing an element leaves elements that were there.
LEMMA RemoveAtKeeps ==
    ASSUME NEW S, NEW s \in Seq(S), NEW i \in 1..Len(s)
    PROVE  /\ RemoveAt(s, i) \in Seq(S)
           /\ \A k \in 1..Len(RemoveAt(s, i)) : \E m \in 1..Len(s) : RemoveAt(s, i)[k] = s[m]
<1> DEFINE T == {s[m] : m \in 1..Len(s)}
<1>1. Len(s) \in Nat /\ i \in Int /\ i - 1 \in Int /\ i + 1 \in Int /\ Len(s) \in Int
  BY LenProperties
<1>2. \A k \in 1..(i - 1) : s[k] \in T
  BY <1>1
<1>3. \A k \in (i + 1)..Len(s) : s[k] \in T
  BY <1>1
<1>4. T \subseteq S
  BY ElementOfSeq
<1> HIDE DEF T
<1>5. SubSeq(s, 1, i - 1) \in Seq(T) /\ SubSeq(s, i + 1, Len(s)) \in Seq(T)
  <2>1. 1 \in Int
    OBVIOUS
  <2>2. QED BY <1>1, <1>2, <1>3, <2>1, SubSeqProperties
<1>6. RemoveAt(s, i) \in Seq(T)
  BY <1>5, ConcatProperties DEF RemoveAt
<1>7. RemoveAt(s, i) \in Seq(S)
  BY <1>4, <1>6, SeqMonotonic
<1>8. \A k \in 1..Len(RemoveAt(s, i)) : RemoveAt(s, i)[k] \in T
  BY <1>6, ElementOfSeq
<1>9. QED
  BY <1>7, <1>8 DEF T

-----------------------------------------------------------------------------
(* Reading, and the calls in progress: types.                              *)

Frame == Loop \cup Constructor

\* What is read has the type of a result.
LEMMA FetchedType ==
    ASSUME NEW s \in GraphSnapshot, NEW q \in Query, NEW w
    PROVE  Fetched(s, q, w) \in QueryResult
<1> DEFINE c == s.readCache[q]
           d == IF c.data = NoData THEN Result(q, s.graph) ELSE c.data
<1>1. c \in QueryResult /\ s.graph \in Graph
  BY DEF GraphSnapshot
<1>2. c.data \in Data \cup {NoData} /\ c.complete \in BOOLEAN /\ c.ids \in (SUBSET Node) \cup {NoIds}
  BY <1>1 DEF QueryResult
<1>3. d \in Data
  BY <1>1, <1>2, ReadAssumption
<1>4. Complete(q, d) \in BOOLEAN /\ Ids(q, d) \in SUBSET Node
  BY <1>3, ReadAssumption
<1> HIDE DEF d
<1>5. [c EXCEPT !.data = d] \in QueryResult
  BY <1>1, <1>3 DEF QueryResult
<1>6. [data |-> d, complete |-> Complete(q, d), ids |-> IF w THEN Ids(q, d) ELSE NoIds] \in QueryResult
  BY <1>3, <1>4 DEF QueryResult
<1>7. \/ Fetched(s, q, w) = [c EXCEPT !.data = d]
      \/ Fetched(s, q, w) = c
      \/ Fetched(s, q, w) = [data |-> d, complete |-> Complete(q, d), ids |-> IF w THEN Ids(q, d) ELSE NoIds]
  BY DEF Fetched, d
<1>8. QED
  BY <1>1, <1>5, <1>6, <1>7

\* A read changes an entry of one read cache.
LEMMA AfterReadHeap ==
    ASSUME TypeOK, NEW s \in DOMAIN snap, NEW q \in Query, NEW w
    PROVE  LET h == AfterRead(s, q, w)
           IN  /\ DOMAIN h = DOMAIN snap
               /\ \A r \in DOMAIN snap : h[r] \in GraphSnapshot /\ h[r].graph = snap[r].graph
               /\ \A r \in DOMAIN snap, p \in Query :
                    h[r].readCache[p] = IF r = s /\ p = q THEN Fetched(snap[s], q, w)
                                        ELSE snap[r].readCache[p]
<1> DEFINE h == AfterRead(s, q, w)
           v == [snap[s] EXCEPT !.readCache = [snap[s].readCache EXCEPT ![q] = Fetched(snap[s], q, w)]]
<1>1. \A r \in DOMAIN snap : snap[r] \in GraphSnapshot
  BY DEF TypeOK
<1>2. Fetched(snap[s], q, w) \in QueryResult
  BY <1>1, FetchedType
<1>3. DOMAIN h = DOMAIN snap /\ \A r \in DOMAIN snap : h[r] = IF r = s THEN v ELSE snap[r]
  BY DEF AfterRead
<1>4. v \in GraphSnapshot
  BY <1>1, <1>2 DEF GraphSnapshot
<1>5. v.graph = snap[s].graph
  BY <1>1 DEF GraphSnapshot
<1>6. \A p \in Query : v.readCache[p] = IF p = q THEN Fetched(snap[s], q, w) ELSE snap[s].readCache[p]
  BY <1>1 DEF GraphSnapshot
<1> HIDE DEF h, v
<1>7. /\ DOMAIN h = DOMAIN snap
      /\ \A r \in DOMAIN snap : h[r] \in GraphSnapshot /\ h[r].graph = snap[r].graph
      /\ \A r \in DOMAIN snap, p \in Query :
           h[r].readCache[p] = IF r = s /\ p = q THEN Fetched(snap[s], q, w)
                               ELSE snap[r].readCache[p]
  BY <1>1, <1>3, <1>4, <1>5, <1>6
<1>8. QED
  BY <1>7 DEF h

\* The two kinds of frame.
LEMMA FrameKinds ==
    ASSUME NEW f \in Frame
    PROVE  \/ f.kind = "broadcast" /\ f \in Loop
           \/ f.kind = "watch" /\ f \in Constructor
BY DEF Frame, Loop, Constructor

\* The innermost call.
LEMMA TopType ==
    ASSUME TypeOK, frames # <<>>
    PROVE  /\ Len(frames) \in 1..MaxDepth
           /\ Len(frames) \in 1..Len(frames)
           /\ top \in Frame
           /\ top.kind = "broadcast" =>
                top \in Loop /\ top.snapshot \in DOMAIN snap
<1>1. frames \in Seq(Frame) /\ Len(frames) <= MaxDepth /\ DOMAIN snap = Held(live, frames)
  BY DEF TypeOK, Frame
<1>2. Len(frames) \in Nat /\ Len(frames) \in 1..Len(frames) /\ top \in Frame
  BY <1>1, LastElement DEF top
<1>3. top.kind = "broadcast" => top \in Loop /\ top.snapshot \in Held(live, frames)
  BY <1>2, FrameKinds DEF Held, top
<1>4. QED
  BY <1>1, <1>2, <1>3, BoundAssumption

\* Who has control tells the kind of the innermost call.
LEMMA ControlType ==
    ASSUME TypeOK
    PROVE  /\ Control = "application" <=> frames = <<>>
           /\ Control \in {"loop", "observer", "onChange"} =>
                /\ frames # <<>> /\ top \in Loop /\ top.kind = "broadcast"
                /\ top.snapshot \in DOMAIN snap
                /\ top.calling = IF Control = "loop" THEN "none" ELSE Control
           /\ Control = "watch" => frames # <<>> /\ top \in Constructor /\ top.kind = "watch"
           /\ Control \in {"application", "loop", "observer", "onChange", "watch"}
<1>1. CASE frames = <<>>
  BY <1>1 DEF Control
<1>2. CASE frames # <<>>
  <2>1. top \in Frame /\ (top.kind = "broadcast" => top \in Loop /\ top.snapshot \in DOMAIN snap)
    BY <1>2, TopType
  <2>2. CASE top.kind = "broadcast"
    <3>1. top \in Loop /\ top.calling \in {"none", "observer", "onChange"}
      BY <2>1, <2>2 DEF Loop
    <3>2. Control = IF top.calling = "none" THEN "loop" ELSE top.calling
      BY <1>2, <2>2 DEF Control
    <3>3. QED BY <1>2, <2>1, <2>2, <3>1, <3>2
  <2>3. CASE top.kind = "watch"
    <3>1. top \in Constructor
      BY <2>1, <2>3, FrameKinds
    <3>2. Control = "watch"
      BY <1>2, <2>3 DEF Control
    <3>3. QED BY <1>2, <2>3, <3>1, <3>2
  <2>4. QED BY <2>1, <2>2, <2>3, FrameKinds
<1>3. QED
  BY <1>1, <1>2

-----------------------------------------------------------------------------
(* The snapshots that are held.                                            *)

\* What a step that stores a heap leaves in it.
LEMMA StoreHeap ==
    ASSUME NEW h, NEW l, NEW fs, Store(h, l, fs)
    PROVE  /\ live' = l
           /\ frames' = fs
           /\ DOMAIN snap' = Held(l, fs)
           /\ \A s \in Held(l, fs) : snap'[s] = h[s]
BY DEF Store

\* Replacing the innermost loop by one for the same snapshot.
LEMMA HeldWithTop ==
    ASSUME TypeOK, frames # <<>>, top.kind = "broadcast",
           NEW f \in Loop, f.snapshot = top.snapshot
    PROVE  /\ WithTop(f) \in Seq(Frame)
           /\ Len(WithTop(f)) = Len(frames)
           /\ \A i \in 1..Len(frames) :
                WithTop(f)[i] = IF i = Len(frames) THEN f ELSE frames[i]
           /\ Held(live, WithTop(f)) = Held(live, frames)
<1>1. frames \in Seq(Frame) /\ f \in Frame /\ f.kind = "broadcast"
  BY DEF TypeOK, Frame, Loop
<1>2. /\ WithTop(f) \in Seq(Frame)
      /\ Len(WithTop(f)) = Len(frames)
      /\ \A i \in 1..Len(frames) :
           WithTop(f)[i] = IF i = Len(frames) THEN f ELSE frames[i]
  BY <1>1, ReplaceLast DEF WithTop
<1>3. \A i \in 1..Len(frames) :
         WithTop(f)[i].kind = frames[i].kind
           /\ (frames[i].kind = "broadcast" => WithTop(f)[i].snapshot = frames[i].snapshot)
  BY <1>1, <1>2 DEF top
<1>4. Held(live, WithTop(f)) = Held(live, frames)
  BY <1>2, <1>3 DEF Held
<1>5. QED
  BY <1>2, <1>4

\* A constructor holds no snapshot, and a loop the one it broadcasts.
LEMMA HeldAppend ==
    ASSUME TypeOK, NEW f \in Frame, NEW l
    PROVE  /\ Append(frames, f) \in Seq(Frame)
           /\ Len(frames) \in Nat
           /\ Len(Append(frames, f)) = Len(frames) + 1
           /\ \A i \in 1..Len(frames) : Append(frames, f)[i] = frames[i]
           /\ Append(frames, f)[Len(frames) + 1] = f
           /\ f.kind = "watch" => Held(l, Append(frames, f)) = Held(l, frames)
           /\ f.kind = "broadcast" => Held(l, Append(frames, f)) = Held(l, frames) \cup {f.snapshot}
<1> DEFINE g == Append(frames, f)
           n == Len(frames)
<1>1. /\ g \in Seq(Frame) /\ n \in Nat
      /\ Len(g) = n + 1
      /\ \A i \in 1..n : g[i] = frames[i]
      /\ g[n + 1] = f
  BY AppendProperties, LenProperties DEF TypeOK, Frame
<1> HIDE DEF g
<1>2. /\ f.kind = "watch" => Held(l, g) = Held(l, frames)
      /\ f.kind = "broadcast" => Held(l, g) = Held(l, frames) \cup {f.snapshot}
  <2>1. n = Len(frames)
    OBVIOUS
  <2> HIDE DEF n
  <2>2. \A i \in 1..(n + 1) : i = n + 1 \/ i \in 1..n
    BY <1>1
  <2>3. n + 1 \in 1..(n + 1) /\ \A i \in 1..n : i \in 1..(n + 1)
    BY <1>1
  <2>4. ASSUME f.kind = "watch" PROVE Held(l, g) = Held(l, frames)
    <3>1. {g[i].snapshot : i \in {j \in 1..(n + 1) : g[j].kind = "broadcast"}}
            = {frames[i].snapshot : i \in {j \in 1..n : frames[j].kind = "broadcast"}}
      BY <1>1, <2>2, <2>3, <2>4
    <3>2. QED BY <1>1, <2>1, <3>1 DEF Held
  <2>5. ASSUME f.kind = "broadcast" PROVE Held(l, g) = Held(l, frames) \cup {f.snapshot}
    <3>1. {g[i].snapshot : i \in {j \in 1..(n + 1) : g[j].kind = "broadcast"}}
            = {frames[i].snapshot : i \in {j \in 1..n : frames[j].kind = "broadcast"}} \cup {f.snapshot}
      BY <1>1, <2>2, <2>3, <2>5
    <3>2. QED BY <1>1, <2>1, <3>1 DEF Held
  <2>6. QED BY <2>4, <2>5
<1>3. QED
  BY <1>1, <1>2 DEF g

\* A call that ends lets go of its snapshot.
LEMMA HeldPopped ==
    ASSUME TypeOK, frames # <<>>
    PROVE  /\ Popped \in Seq(Frame)
           /\ Len(Popped) = Len(frames) - 1
           /\ Len(Popped) <= MaxDepth
           /\ \A i \in 1..Len(Popped) : i \in 1..Len(frames) /\ i < Len(frames) /\ Popped[i] = frames[i]
           /\ Held(live, Popped) \subseteq DOMAIN snap
<1>1. frames \in Seq(Frame) /\ DOMAIN snap = Held(live, frames)
  BY DEF TypeOK, Frame
<1>2. /\ Popped \in Seq(Frame)
      /\ Len(Popped) = Len(frames) - 1
      /\ \A i \in 1..Len(Popped) : i \in 1..Len(frames) /\ i < Len(frames) /\ Popped[i] = frames[i]
  BY <1>1, DropLast DEF Popped
<1>3. Len(Popped) <= MaxDepth
  BY <1>2, TopType, BoundAssumption
<1>4. Held(live, Popped) \subseteq Held(live, frames)
  BY <1>2 DEF Held
<1>5. QED
  BY <1>1, <1>2, <1>3, <1>4

\* Storing typed snapshots and calls keeps the type invariant.
LEMMA StoreType ==
    ASSUME NEW h, NEW l \in [baseline : SnapId, optimistic : SnapId], NEW fs \in Seq(Frame),
           Store(h, l, fs), Len(fs) <= MaxDepth,
           Held(l, fs) \subseteq DOMAIN h, DOMAIN h \subseteq SnapId,
           \A s \in DOMAIN h : h[s] \in GraphSnapshot,
           observers' \in Seq(QueryObserver)
    PROVE  TypeOK'
<1>1. /\ live' = l
      /\ frames' = fs
      /\ DOMAIN snap' = Held(l, fs)
      /\ \A s \in Held(l, fs) : snap'[s] = h[s]
  BY StoreHeap
<1>2. DOMAIN snap' = Held(live', frames')
  BY <1>1
<1>3. QED
  BY <1>1, <1>2 DEF TypeOK, Frame, Held

\* So does a step that keeps the same snapshots.
LEMMA SameHeapType ==
    ASSUME TypeOK, UNCHANGED live,
           DOMAIN snap' = DOMAIN snap, \A s \in DOMAIN snap : snap'[s] \in GraphSnapshot,
           observers' \in Seq(QueryObserver),
           frames' \in Seq(Frame), Len(frames') <= MaxDepth,
           Held(live, frames') = Held(live, frames)
    PROVE  TypeOK'
<1>1. Held(live', frames') = Held(live, frames)
  BY DEF Held
<1>2. QED
  BY <1>1 DEF TypeOK, Frame, Held

-----------------------------------------------------------------------------
(* What a write makes of the snapshots.                                    *)

\* A heap of typed snapshots.
Snapshots(h) == \A s \in DOMAIN h : h[s] \in GraphSnapshot

\* The heap h after snapshot b has taken over the cached reads of a.
Carried(h, a, b, edited) ==
    [h EXCEPT ![b].readCache = CarriedReads(h[a], h[b], edited)]

\* Carrying reads over changes one read cache.
LEMMA CarriedHeap ==
    ASSUME NEW h, Snapshots(h), NEW a \in DOMAIN h, NEW b \in DOMAIN h, NEW edited,
           NEW k, k = Carried(h, a, b, edited)
    PROVE  /\ DOMAIN k = DOMAIN h /\ Snapshots(k)
           /\ \A s \in DOMAIN h :
                /\ k[s].graph = h[s].graph
                /\ k[s].readCache = IF s = b THEN CarriedReads(h[a], h[b], edited)
                                    ELSE h[s].readCache
<1> DEFINE c == CarriedReads(h[a], h[b], edited)
           v == [h[b] EXCEPT !.readCache = c]
<1>1. h[a] \in GraphSnapshot /\ h[b] \in GraphSnapshot
  BY DEF Snapshots
<1>2. c \in [Query -> QueryResult]
  <2>1. Once \in QueryResult
    BY DEF Once, QueryResult
  <2>2. \A q \in Query : h[a].readCache[q] \in QueryResult /\ h[b].readCache[q] \in QueryResult
    BY <1>1 DEF GraphSnapshot
  <2>3. QED BY <2>1, <2>2 DEF CarriedReads
<1> HIDE DEF c
<1>3. v \in GraphSnapshot /\ v.graph = h[b].graph /\ v.readCache = c
  BY <1>1, <1>2 DEF GraphSnapshot
<1>4. DOMAIN k = DOMAIN h /\ \A s \in DOMAIN h : k[s] = IF s = b THEN v ELSE h[s]
  BY DEF Carried, c
<1> HIDE DEF v
<1>5. /\ DOMAIN k = DOMAIN h /\ Snapshots(k)
      /\ \A s \in DOMAIN h :
           /\ k[s].graph = h[s].graph
           /\ k[s].readCache = IF s = b THEN c ELSE h[s].readCache
  BY <1>3, <1>4 DEF Snapshots
<1>6. QED
  BY <1>5 DEF c

\* A write in its parts: the heap h has the new snapshots b and o beside the
\* old ones, first and second are h with the reads that are carried over to
\* the one and then to the other, and the loop begins.
WriteOf(b, o, edited, h, first, second) ==
    /\ DOMAIN h = DOMAIN snap \cup {b, o} /\ Snapshots(h)
    /\ \A s \in DOMAIN snap : h[s] = snap[s]
    /\ \A s \in DOMAIN h \ DOMAIN snap : \A q \in Query : h[s].readCache[q] = Unread
    /\ Covers(edited, snap[live.baseline].graph, h[b].graph)
    /\ Covers(edited, snap[live.optimistic].graph, h[o].graph)
    /\ first = Carried(h, live.baseline, b, edited)
    /\ second = IF o = b THEN first ELSE Carried(first, live.optimistic, o, edited)
    /\ Store(second, [baseline |-> b, optimistic |-> o],
             Append(frames, [kind |-> "broadcast", snapshot |-> o, edited |-> edited,
                             next |-> 1, calling |-> "none"]))
    /\ May("write") /\ Len(frames) < MaxDepth
    /\ UNCHANGED observers

LEMMA WriteParts ==
    ASSUME TypeOK, Write
    PROVE  \E b \in SnapId, o \in SnapId, edited \in SUBSET Node :
             \E h, first, second : WriteOf(b, o, edited, h, first, second)
<1> DEFINE Heap(b, o, made) ==
             [s \in DOMAIN snap \cup {b, o} |-> IF s \in DOMAIN snap THEN snap[s] ELSE NewGraph(made[s])]
<1>0. PICK b \in {live.baseline} \cup Unused :
         \E o \in {live.optimistic, b} \cup Unused :
           \E m \in [{b, o} \ DOMAIN snap -> Graph], e \in SUBSET Node :
             SetSnapshot(b, o, Heap(b, o, m), e)
  BY DEF Write
<1>1. PICK o \in {live.optimistic, b} \cup Unused :
         \E m \in [{b, o} \ DOMAIN snap -> Graph], e \in SUBSET Node :
           SetSnapshot(b, o, Heap(b, o, m), e)
  BY <1>0
<1>2. PICK made \in [{b, o} \ DOMAIN snap -> Graph], edited \in SUBSET Node :
         SetSnapshot(b, o, Heap(b, o, made), edited)
  BY <1>1
<1> DEFINE h == Heap(b, o, made)
<1>3. /\ live.baseline \in DOMAIN snap /\ live.optimistic \in DOMAIN snap
      /\ DOMAIN snap \subseteq SnapId
      /\ Snapshots(snap)
  BY DEF TypeOK, Held, Snapshots
<1>4. b \in SnapId /\ o \in SnapId
  BY <1>3 DEF Unused
<1>5. DOMAIN h = DOMAIN snap \cup {b, o} /\ \A s \in DOMAIN snap : h[s] = snap[s]
  OBVIOUS
<1>6. ASSUME NEW s \in DOMAIN h, s \notin DOMAIN snap
      PROVE  h[s] \in GraphSnapshot /\ \A q \in Query : h[s].readCache[q] = Unread
  <2>1. h[s] = NewGraph(made[s]) /\ made[s] \in Graph
    BY <1>6
  <2>2. Unread \in QueryResult
    BY DEF Unread, QueryResult
  <2>3. QED BY <2>1, <2>2 DEF NewGraph, GraphSnapshot
<1>7. Snapshots(h)
  BY <1>3, <1>5, <1>6 DEF Snapshots
<1> HIDE DEF h
<1>8. SetSnapshot(b, o, h, edited)
  BY <1>2 DEF h
<1> DEFINE first  == Carried(h, live.baseline, b, edited)
           second == IF o = b THEN first ELSE Carried(first, live.optimistic, o, edited)
<1>9. /\ Covers(edited, snap[live.baseline].graph, h[b].graph)
      /\ Covers(edited, snap[live.optimistic].graph, h[o].graph)
      /\ Store(second, [baseline |-> b, optimistic |-> o],
               Append(frames, [kind |-> "broadcast", snapshot |-> o, edited |-> edited,
                               next |-> 1, calling |-> "none"]))
      /\ May("write") /\ Len(frames) < MaxDepth
      /\ UNCHANGED observers
  BY <1>8 DEF SetSnapshot, Carried
<1>10. \A s \in DOMAIN h \ DOMAIN snap : \A q \in Query : h[s].readCache[q] = Unread
  BY <1>6
<1> HIDE DEF first, second
<1>11. /\ first = Carried(h, live.baseline, b, edited)
       /\ second = IF o = b THEN first ELSE Carried(first, live.optimistic, o, edited)
  BY DEF first, second
<1>12. WriteOf(b, o, edited, h, first, second)
  BY <1>5, <1>7, <1>9, <1>10, <1>11 DEF WriteOf
<1>13. QED
  BY <1>4, <1>12

-----------------------------------------------------------------------------
(* Type correctness, action by action.                                     *)

LEMMA InitType == Init => TypeOK
<1>1. SUFFICES ASSUME Init PROVE TypeOK
  OBVIOUS
<1>2. PICK s \in SnapId :
        /\ live = [baseline |-> s, optimistic |-> s]
        /\ snap = [r \in {s} |-> NewGraph(EmptyGraph)]
        /\ observers = <<>>
        /\ frames = <<>>
  BY <1>1 DEF Init
<1>3. NewGraph(EmptyGraph) \in GraphSnapshot
  BY ReadAssumption DEF NewGraph, GraphSnapshot, Unread, QueryResult
<1>4. Held(live, frames) = {s}
  BY <1>2 DEF Held
<1>5. frames \in Seq(Loop \cup Constructor) /\ Len(frames) = 0 /\ observers \in Seq(QueryObserver)
  BY <1>2
<1>6. QED
  BY <1>2, <1>3, <1>4, <1>5, BoundAssumption DEF TypeOK

LEMMA ReadType ==
    ASSUME TypeOK, NEW s \in {live.baseline, live.optimistic}, NEW q \in Query, Read(s, q)
    PROVE  TypeOK'
<1>1. s \in DOMAIN snap
  BY DEF TypeOK, Held
<1>2. DOMAIN snap' = DOMAIN snap /\ \A r \in DOMAIN snap : snap'[r] \in GraphSnapshot
  BY <1>1, AfterReadHeap DEF Read
<1>3. /\ UNCHANGED <<live, observers, frames>> /\ observers \in Seq(QueryObserver)
      /\ frames \in Seq(Frame) /\ Len(frames) <= MaxDepth
  BY DEF Read, TypeOK, Frame
<1>4. QED
  BY <1>2, <1>3, SameHeapType

LEMMA WriteType ==
    ASSUME TypeOK, Write
    PROVE  TypeOK'
<1>a. PICK b \in SnapId, o \in SnapId, edited \in SUBSET Node :
         \E h, first, second : WriteOf(b, o, edited, h, first, second)
  BY WriteParts
<1>0. PICK h, first, second : WriteOf(b, o, edited, h, first, second)
  BY <1>a
<1>1. /\ DOMAIN h = DOMAIN snap \cup {b, o} /\ Snapshots(h)
      /\ first = Carried(h, live.baseline, b, edited)
      /\ second = IF o = b THEN first ELSE Carried(first, live.optimistic, o, edited)
      /\ Store(second, [baseline |-> b, optimistic |-> o],
               Append(frames, [kind |-> "broadcast", snapshot |-> o, edited |-> edited,
                               next |-> 1, calling |-> "none"]))
      /\ Len(frames) < MaxDepth
      /\ UNCHANGED observers
  BY <1>0 DEF WriteOf
<1> DEFINE f == [kind |-> "broadcast", snapshot |-> o, edited |-> edited,
                 next |-> 1, calling |-> "none"]
           l == [baseline |-> b, optimistic |-> o]
<1>2. /\ live.baseline \in DOMAIN h /\ live.optimistic \in DOMAIN h /\ b \in DOMAIN h /\ o \in DOMAIN h
      /\ DOMAIN h \subseteq SnapId
  BY <1>1 DEF TypeOK, Held
<1>3. DOMAIN first = DOMAIN h /\ Snapshots(first)
  <2>1. Snapshots(h) /\ first = Carried(h, live.baseline, b, edited)
    BY <1>1
  <2>2. live.baseline \in DOMAIN h /\ b \in DOMAIN h
    BY <1>2
  <2>3. QED BY <2>1, <2>2, CarriedHeap
<1>4. DOMAIN second = DOMAIN h /\ Snapshots(second)
  <2>1. second = IF o = b THEN first ELSE Carried(first, live.optimistic, o, edited)
    BY <1>1
  <2>2. live.optimistic \in DOMAIN first /\ o \in DOMAIN first
    BY <1>2, <1>3
  <2>3. CASE o = b
    BY <1>3, <2>1, <2>3
  <2>4. CASE o # b
    <3>1. second = Carried(first, live.optimistic, o, edited)
      BY <2>1, <2>4
    <3>2. QED BY <1>3, <2>2, <3>1, CarriedHeap
  <2>5. QED BY <2>3, <2>4
<1>5. f \in Frame /\ f.kind = "broadcast" /\ f.snapshot = o
  BY DEF Frame, Loop
<1>6. l \in [baseline : SnapId, optimistic : SnapId] /\ l.baseline = b /\ l.optimistic = o
  OBVIOUS
<1> HIDE DEF f, l
<1>7. /\ Append(frames, f) \in Seq(Frame)
      /\ Len(Append(frames, f)) = Len(frames) + 1 /\ Len(frames) \in Nat
      /\ Held(l, Append(frames, f)) = Held(l, frames) \cup {o}
  BY <1>5, HeldAppend
<1>8. Held(l, frames) \subseteq Held(live, frames) \cup {b, o}
  BY <1>6 DEF Held
<1>9. Held(l, Append(frames, f)) \subseteq DOMAIN second
  BY <1>1, <1>4, <1>7, <1>8 DEF TypeOK
<1>10. Len(Append(frames, f)) <= MaxDepth
  BY <1>1, <1>7, BoundAssumption
<1>11. Store(second, l, Append(frames, f))
  BY <1>1 DEF f, l
<1>12. observers' \in Seq(QueryObserver)
  BY <1>1 DEF TypeOK
<1>13. QED
  BY <1>2, <1>4, <1>6, <1>7, <1>9, <1>10, <1>11, <1>12, StoreType DEF Snapshots

\* A step that goes on with the loop.
LEMMA LoopType ==
    ASSUME TypeOK, Control \in {"loop", "observer", "onChange"},
           NEW n \in Nat \ {0}, NEW c \in {"none", "observer", "onChange"}
    PROVE  LET f == [top EXCEPT !.next = n, !.calling = c]
           IN  /\ WithTop(f) \in Seq(Frame)
               /\ Len(WithTop(f)) <= MaxDepth
               /\ Held(live, WithTop(f)) = Held(live, frames)
<1> DEFINE f == [top EXCEPT !.next = n, !.calling = c]
<1>1. frames # <<>> /\ top \in Loop /\ top.kind = "broadcast"
  BY ControlType
<1>2. f \in Loop /\ f.snapshot = top.snapshot
  BY <1>1 DEF Loop
<1> HIDE DEF f
<1>3. /\ WithTop(f) \in Seq(Frame)
      /\ Len(WithTop(f)) <= MaxDepth
      /\ Held(live, WithTop(f)) = Held(live, frames)
  BY <1>1, <1>2, HeldWithTop DEF TypeOK
<1>4. QED
  BY <1>3 DEF f

LEMMA PassOverType ==
    ASSUME TypeOK, PassOver
    PROVE  TypeOK'
<1>1. Control = "loop"
  BY DEF PassOver
<1>2. top \in Loop
  BY <1>1, ControlType
<1>3. top.next + 1 \in Nat \ {0} /\ top.calling \in {"none", "observer", "onChange"}
  BY <1>2 DEF Loop
<1>4. [top EXCEPT !.next = @ + 1] = [top EXCEPT !.next = top.next + 1, !.calling = top.calling]
  BY <1>2 DEF Loop
<1>5. frames' \in Seq(Frame) /\ Len(frames') <= MaxDepth /\ Held(live, frames') = Held(live, frames)
  BY <1>1, <1>3, <1>4, LoopType DEF PassOver
<1>6. UNCHANGED <<live, snap, observers>> /\ observers \in Seq(QueryObserver)
  BY DEF PassOver, TypeOK
<1>7. \A s \in DOMAIN snap : snap[s] \in GraphSnapshot
  BY DEF TypeOK
<1>8. QED
  BY <1>5, <1>6, <1>7, SameHeapType

LEMMA NotifyType ==
    ASSUME TypeOK, Notify
    PROVE  TypeOK'
<1> DEFINE o == observers[top.next]
           r == Fetched(snap[top.snapshot], o.query, Strict)
<1>1. Control = "loop" /\ top.next <= Len(observers)
  BY DEF Notify
<1>2. top \in Loop /\ top.snapshot \in DOMAIN snap
  BY <1>1, ControlType
<1>3. top.next \in Nat \ {0} /\ top.next + 1 \in Nat \ {0}
  BY <1>2 DEF Loop
<1>4. observers \in Seq(QueryObserver) /\ top.next \in 1..Len(observers)
  BY <1>1, <1>3, LenProperties DEF TypeOK
<1>5. o \in QueryObserver /\ o.query \in Query
  <2>1. o \in QueryObserver
    BY <1>4, ElementOfSeq
  <2>2. QED BY <2>1 DEF QueryObserver
<1>6. r \in QueryResult
  BY <1>2, <1>5, FetchedType DEF TypeOK
<1>7. observers' \in Seq(QueryObserver)
  <2>1. observers' = [observers EXCEPT ![top.next] = [o EXCEPT !.result = r]]
    BY DEF Notify
  <2>2. [o EXCEPT !.result = r] \in QueryObserver
    BY <1>5, <1>6 DEF QueryObserver
  <2> HIDE DEF o, r
  <2>3. QED BY <1>4, <2>1, <2>2, ExceptSeq
<1>8. DOMAIN snap' = DOMAIN snap /\ \A s \in DOMAIN snap : snap'[s] \in GraphSnapshot
  <2>1. snap' = AfterRead(top.snapshot, o.query, Strict)
    BY DEF Notify
  <2> HIDE DEF o, r
  <2>2. QED BY <1>2, <1>5, <2>1, AfterReadHeap
<1>9. frames' \in Seq(Frame) /\ Len(frames') <= MaxDepth /\ Held(live, frames') = Held(live, frames)
  <2>1. frames' = WithTop([top EXCEPT !.next = top.next + 1, !.calling = "observer"])
    BY <1>2 DEF Notify, Loop
  <2>2. QED BY <1>1, <1>3, <2>1, LoopType
<1>10. UNCHANGED live
  BY DEF Notify
<1>11. QED
  BY <1>7, <1>8, <1>9, <1>10, SameHeapType

\* The loop ends, or a callback of an observer returns to it.
LEMMA ControlChangeType ==
    ASSUME TypeOK, AllTold \/ ObserverReturns
    PROVE  TypeOK'
<1>1. Control \in {"loop", "observer", "onChange"}
  BY DEF AllTold, ObserverReturns
<1>2. top \in Loop /\ top.next \in Nat \ {0}
  BY <1>1, ControlType DEF Loop
<1>3. PICK c \in {"none", "onChange"} : frames' = WithTop([top EXCEPT !.calling = c])
  BY DEF AllTold, ObserverReturns
<1>4. [top EXCEPT !.calling = c] = [top EXCEPT !.next = top.next, !.calling = c]
  BY <1>2 DEF Loop
<1>5. frames' \in Seq(Frame) /\ Len(frames') <= MaxDepth /\ Held(live, frames') = Held(live, frames)
  BY <1>1, <1>2, <1>3, <1>4, LoopType
<1>6. UNCHANGED <<live, snap, observers>> /\ observers \in Seq(QueryObserver)
  BY DEF AllTold, ObserverReturns, TypeOK
<1>7. \A s \in DOMAIN snap : snap[s] \in GraphSnapshot
  BY DEF TypeOK
<1>8. QED
  BY <1>5, <1>6, <1>7, SameHeapType

\* A new observer has read from the live graph.
LEMMA WatchParts ==
    ASSUME TypeOK, NEW q \in Query, Watch(q)
    PROVE  /\ live.optimistic \in DOMAIN snap
           /\ May("watch") /\ Len(frames) < MaxDepth
           /\ snap' = AfterRead(live.optimistic, q, Strict)
           /\ UNCHANGED <<live, observers>>
           /\ \E f \in Constructor :
                /\ f.kind = "watch" /\ f.observer.query = q
                /\ f.observer.result = Fetched(snap[live.optimistic], q, Strict)
                /\ frames' = Append(frames, f)
<1> DEFINE r == Fetched(snap[live.optimistic], q, Strict)
<1>1. live.optimistic \in DOMAIN snap
  BY DEF TypeOK, Held
<1>2. r \in QueryResult
  BY <1>1, FetchedType DEF TypeOK
<1>3. PICK x \in UnusedObservers :
        frames' = Append(frames, [kind |-> "watch", observer |-> [id |-> x, query |-> q, result |-> r]])
  BY DEF Watch
<1>4. x \in ObserverId
  BY DEF UnusedObservers
<1>5. [kind |-> "watch", observer |-> [id |-> x, query |-> q, result |-> r]] \in Constructor
  BY <1>2, <1>4 DEF Constructor, QueryObserver
<1>6. QED
  BY <1>1, <1>3, <1>5 DEF Watch

LEMMA WatchType ==
    ASSUME TypeOK, NEW q \in Query, Watch(q)
    PROVE  TypeOK'
<1>1. PICK f \in Constructor : f.kind = "watch" /\ frames' = Append(frames, f)
  BY WatchParts
<1>2. f \in Frame
  BY DEF Frame
<1>3. /\ frames' \in Seq(Frame) /\ Len(frames') = Len(frames) + 1 /\ Len(frames) \in Nat
      /\ Held(live, frames') = Held(live, frames)
  BY <1>1, <1>2, HeldAppend
<1>4. Len(frames') <= MaxDepth
  BY <1>3, WatchParts, BoundAssumption
<1>5. DOMAIN snap' = DOMAIN snap /\ \A s \in DOMAIN snap : snap'[s] \in GraphSnapshot
  BY WatchParts, AfterReadHeap
<1>6. UNCHANGED <<live, observers>> /\ observers \in Seq(QueryObserver)
  BY WatchParts DEF TypeOK
<1>7. QED
  BY <1>3, <1>4, <1>5, <1>6, SameHeapType

LEMMA UnwatchType ==
    ASSUME TypeOK, NEW i \in 1..Len(observers), Unwatch(i)
    PROVE  TypeOK'
<1>1. observers' \in Seq(QueryObserver)
  BY RemoveAtKeeps DEF Unwatch, TypeOK
<1>2. UNCHANGED <<live, snap, frames>>
  BY DEF Unwatch
<1>3. /\ frames \in Seq(Frame) /\ Len(frames) <= MaxDepth
      /\ \A s \in DOMAIN snap : snap[s] \in GraphSnapshot
  BY DEF TypeOK, Frame
<1>4. QED
  BY <1>1, <1>2, <1>3, SameHeapType

\* A call ends, by itself or since its callback throws.
LEMMA EndType ==
    ASSUME TypeOK, frames # <<>>, Store(snap, live, Popped), observers' \in Seq(QueryObserver)
    PROVE  TypeOK'
<1>1. /\ Popped \in Seq(Frame) /\ Len(Popped) <= MaxDepth
      /\ Held(live, Popped) \subseteq DOMAIN snap
  BY HeldPopped
<1>2. /\ live \in [baseline : SnapId, optimistic : SnapId] /\ DOMAIN snap \subseteq SnapId
      /\ \A s \in DOMAIN snap : snap[s] \in GraphSnapshot
  BY DEF TypeOK
<1>3. QED
  BY <1>1, <1>2, StoreType

\* Who may throw is a callback.
LEMMA MayThrow ==
    ASSUME TypeOK, May("throw")
    PROVE  frames # <<>> /\ <<Control, "throw">> \in Usage /\ Control \in Caller
BY ControlType, UsageAssumption DEF May, Caller

LEMMA ReturnType ==
    ASSUME TypeOK, WatchReturns \/ OnChangeReturns \/ Throw
    PROVE  TypeOK'
<1>1. frames # <<>> /\ Store(snap, live, Popped)
  BY ControlType, MayThrow DEF WatchReturns, OnChangeReturns, Throw
<1>2. observers' \in Seq(QueryObserver)
  <2>1. CASE WatchReturns
    <3>1. top \in Constructor
      BY <2>1, ControlType DEF WatchReturns
    <3>2. top.observer \in QueryObserver
      BY <3>1 DEF Constructor
    <3>3. QED BY <2>1, <3>2, AppendProperties DEF WatchReturns, TypeOK
  <2>2. CASE OnChangeReturns \/ Throw
    BY <2>2 DEF OnChangeReturns, Throw, TypeOK
  <2>3. QED BY <2>1, <2>2
<1>3. QED
  BY <1>1, <1>2, EndType

LEMMA NextType == TypeOK /\ [Next]_vars => TypeOK'
<1> SUFFICES ASSUME TypeOK, [Next]_vars PROVE TypeOK'
  OBVIOUS
<1>1. ASSUME NEW s \in {live.baseline, live.optimistic}, NEW q \in Query, Read(s, q) PROVE TypeOK'
  BY <1>1, ReadType
<1>2. CASE Write
  BY <1>2, WriteType
<1>3. CASE PassOver
  BY <1>3, PassOverType
<1>4. CASE Notify
  BY <1>4, NotifyType
<1>5. CASE AllTold \/ ObserverReturns
  BY <1>5, ControlChangeType
<1>6. ASSUME NEW q \in Query, Watch(q) PROVE TypeOK'
  BY <1>6, WatchType
<1>7. ASSUME NEW i \in 1..Len(observers), Unwatch(i) PROVE TypeOK'
  BY <1>7, UnwatchType
<1>8. CASE WatchReturns \/ OnChangeReturns \/ Throw
  BY <1>8, ReturnType
<1>9. CASE UNCHANGED vars
  BY <1>9 DEF vars, TypeOK, Held
<1>10. QED
  BY <1>1, <1>2, <1>3, <1>4, <1>5, <1>6, <1>7, <1>8, <1>9 DEF Next, Return

\* The cache and every loop in progress refer to graphs that exist, and
\* observers, read caches and calls have the fields that Cache.ts,
\* QueryObserver.ts and read.ts give them.
THEOREM TypeCorrect == Spec => []TypeOK
<1>1. Init => TypeOK
  BY InitType
<1>2. TypeOK /\ [Next]_vars => TypeOK'
  BY NextType
<1>3. QED
  BY <1>1, <1>2, PTL DEF Spec

-----------------------------------------------------------------------------
(* Cached reads are fresh.                                                 *)

\* The full result of a query, and the three other entries that there are.
LEMMA EntryForms ==
    ASSUME NEW q \in Query, NEW g \in Graph, NEW c, NEW d, d = Result(q, g)
    PROVE  c \in Entries(q, g) <=>
             \/ c = Unread
             \/ c = [data |-> d, complete |-> Complete(q, d), ids |-> NoIds]
             \/ c = [data |-> d, complete |-> Complete(q, d), ids |-> Ids(q, d)]
             \/ ~Strict /\ (c = Once \/ c = [data |-> d, complete |-> TRUE, ids |-> NoIds])
<1>1. ASSUME NEW x, NEW r, x = Once, r = [x EXCEPT !.data = d]
      PROVE  r = [data |-> d, complete |-> TRUE, ids |-> NoIds]
  BY <1>1 DEF Once
<1>2. c \in Entries(q, g) <=>
        \/ c = Unread
        \/ \E i \in {NoIds, Ids(q, d)} : c = [data |-> d, complete |-> Complete(q, d), ids |-> i]
        \/ ~Strict /\ (c = Once \/ c = [Once EXCEPT !.data = d])
  BY DEF Entries
<1>3. QED
  BY <1>1, <1>2

\* What an entry says of the query: if it has data they are the result, and
\* if it has ids its completeness and its ids are those of the result.
LEMMA EntryFacts ==
    ASSUME NEW q \in Query, NEW g \in Graph, NEW c \in Entries(q, g)
    PROVE  /\ c.data # NoData => c.data = Result(q, g)
           /\ c.ids # NoIds =>
                /\ c.data # NoData
                /\ c.complete = Complete(q, Result(q, g)) /\ c.ids = Ids(q, Result(q, g))
<1> DEFINE d == Result(q, g)
<1>1. d \in Data /\ d # NoData
  BY ReadAssumption
<1>2. \/ c = Unread
      \/ c = [data |-> d, complete |-> Complete(q, d), ids |-> NoIds]
      \/ c = [data |-> d, complete |-> Complete(q, d), ids |-> Ids(q, d)]
      \/ c = Once
      \/ c = [data |-> d, complete |-> TRUE, ids |-> NoIds]
  BY EntryForms
<1> HIDE DEF d
<1>3. /\ c.data # NoData => c.data = d
      /\ c.ids # NoIds => c.data # NoData /\ c.complete = Complete(q, d) /\ c.ids = Ids(q, d)
  BY <1>1, <1>2 DEF Unread, Once
<1>4. QED
  BY <1>3 DEF d

\* A read gives the result of the query, and leaves an entry.
LEMMA FetchedEntry ==
    ASSUME NEW s \in GraphSnapshot, NEW q \in Query, NEW w,
           s.readCache[q] \in Entries(q, s.graph)
    PROVE  /\ Fetched(s, q, w) \in Entries(q, s.graph)
           /\ Fetched(s, q, w).data = Result(q, s.graph)
           /\ Fetched(s, q, w).data # NoData
<1> DEFINE c == s.readCache[q]
           d == Result(q, s.graph)
           r == Fetched(s, q, w)
<1>1. s.graph \in Graph /\ d \in Data /\ d # NoData
  BY ReadAssumption DEF GraphSnapshot
<1>2. \/ c = Unread
      \/ c = [data |-> d, complete |-> Complete(q, d), ids |-> NoIds]
      \/ c = [data |-> d, complete |-> Complete(q, d), ids |-> Ids(q, d)]
      \/ ~Strict /\ (c = Once \/ c = [data |-> d, complete |-> TRUE, ids |-> NoIds])
  <2>1. c \in Entries(q, s.graph) /\ d = Result(q, s.graph)
    OBVIOUS
  <2> HIDE DEF c, d, r
  <2>2. QED BY <1>1, <2>1, EntryForms
<1>3. r = IF c = Once
          THEN [c EXCEPT !.data = IF c.data = NoData THEN d ELSE c.data]
          ELSE IF c.data # NoData /\ (w => c.ids # NoIds)
          THEN c
          ELSE [data |-> IF c.data = NoData THEN d ELSE c.data,
                complete |-> Complete(q, IF c.data = NoData THEN d ELSE c.data),
                ids |-> IF w THEN Ids(q, IF c.data = NoData THEN d ELSE c.data) ELSE NoIds]
  BY DEF Fetched
<1>4. c.data = NoData \/ c.data = d
  BY <1>2 DEF Unread, Once
<1> HIDE DEF c, d, r
<1>5. r = IF c = Once THEN [c EXCEPT !.data = d]
          ELSE IF c.data # NoData /\ (w => c.ids # NoIds) THEN c
          ELSE [data |-> d, complete |-> Complete(q, d), ids |-> IF w THEN Ids(q, d) ELSE NoIds]
  BY <1>3, <1>4
<1>6. \/ r = [data |-> d, complete |-> Complete(q, d), ids |-> NoIds]
      \/ r = [data |-> d, complete |-> Complete(q, d), ids |-> Ids(q, d)]
      \/ ~Strict /\ r = [data |-> d, complete |-> TRUE, ids |-> NoIds]
  <2>1. CASE c = Once
    <3>1. r = [data |-> d, complete |-> TRUE, ids |-> NoIds]
      BY <1>5, <2>1 DEF Once
    <3>2. ~Strict
      BY <1>1, <1>2, <2>1 DEF Once, Unread
    <3>3. QED BY <3>1, <3>2
  <2>2. CASE c # Once /\ c.data = NoData
    <3>1. r = [data |-> d, complete |-> Complete(q, d), ids |-> IF w THEN Ids(q, d) ELSE NoIds]
      BY <1>5, <2>2
    <3>2. QED BY <3>1
  <2>3. CASE c # Once /\ c.data # NoData
    <3>1. \/ c = [data |-> d, complete |-> Complete(q, d), ids |-> NoIds]
          \/ c = [data |-> d, complete |-> Complete(q, d), ids |-> Ids(q, d)]
          \/ ~Strict /\ c = [data |-> d, complete |-> TRUE, ids |-> NoIds]
      <4>1. c # Unread
        BY <2>3 DEF Unread
      <4>2. QED BY <1>2, <2>3, <4>1
    <3>2. \/ r = c
          \/ r = [data |-> d, complete |-> Complete(q, d), ids |-> IF w THEN Ids(q, d) ELSE NoIds]
      BY <1>5, <2>3
    <3>3. QED BY <3>1, <3>2
  <2>4. QED BY <2>1, <2>2, <2>3
<1>7. r.data = d /\ r.data # NoData
  BY <1>1, <1>6
<1>8. r \in Entries(q, s.graph)
  BY <1>1, <1>6, EntryForms DEF d
<1>9. QED
  BY <1>7, <1>8 DEF r, d

\* A result that an edit leaves as it is is one of the new graph.
LEMMA UnaffectedEntry ==
    ASSUME NEW q \in Query, NEW g \in Graph, NEW h \in Graph, NEW edited, Covers(edited, g, h),
           NEW c \in Entries(q, g), Unaffected(c, edited)
    PROVE  c.data # NoData /\ c \in Entries(q, h)
<1>1. c.complete /\ c.ids # NoIds /\ c.ids \cap edited = {}
  BY DEF Unaffected
<1>2. c.data # NoData /\ c.complete = Complete(q, Result(q, g)) /\ c.ids = Ids(q, Result(q, g))
  BY <1>1, EntryFacts
<1>3. Result(q, h) = Result(q, g)
  BY <1>1, <1>2 DEF Covers
<1>4. QED
  BY <1>2, <1>3 DEF Entries

\* ReadCacheInv of a heap.
CachesInv(h) == \A s \in DOMAIN h, q \in Query : h[s].readCache[q] \in Entries(q, h[s].graph)

\* Carrying over keeps it, for edits that cover what changed.
LEMMA CarriedCaches ==
    ASSUME NEW h, Snapshots(h), CachesInv(h), NEW a \in DOMAIN h, NEW b \in DOMAIN h,
           NEW edited, Covers(edited, h[a].graph, h[b].graph),
           NEW k, k = Carried(h, a, b, edited)
    PROVE  CachesInv(k)
<1>1. /\ DOMAIN k = DOMAIN h
      /\ \A s \in DOMAIN h :
           /\ k[s].graph = h[s].graph
           /\ k[s].readCache = IF s = b THEN CarriedReads(h[a], h[b], edited) ELSE h[s].readCache
  BY CarriedHeap
<1>2. h[a].graph \in Graph /\ h[b].graph \in Graph
  BY DEF Snapshots, GraphSnapshot
<1>3. ASSUME NEW q \in Query
      PROVE  CarriedReads(h[a], h[b], edited)[q] \in Entries(q, h[b].graph)
  <2> DEFINE c == h[a].readCache[q]
  <2>1. c \in Entries(q, h[a].graph) /\ h[b].readCache[q] \in Entries(q, h[b].graph)
    BY DEF CachesInv
  <2>2. CarriedReads(h[a], h[b], edited)[q] =
          IF ~Strict /\ c.complete THEN Once
          ELSE IF Strict /\ Unaffected(c, edited) THEN c
          ELSE h[b].readCache[q]
    BY DEF CarriedReads
  <2> HIDE DEF c
  <2>3. ~Strict => Once \in Entries(q, h[b].graph)
    BY DEF Entries
  <2>4. Unaffected(c, edited) => c \in Entries(q, h[b].graph)
    BY <1>2, <2>1, UnaffectedEntry
  <2>5. QED BY <2>1, <2>2, <2>3, <2>4
<1>4. ASSUME NEW s \in DOMAIN k, NEW q \in Query
      PROVE  k[s].readCache[q] \in Entries(q, k[s].graph)
  BY <1>1, <1>3 DEF CachesInv
<1>5. QED
  BY <1>4 DEF CachesInv

\* Reading keeps it.
LEMMA AfterReadCaches ==
    ASSUME TypeOK, ReadCacheInv, NEW s \in DOMAIN snap, NEW q \in Query, NEW w
    PROVE  CachesInv(AfterRead(s, q, w))
<1> DEFINE h == AfterRead(s, q, w)
<1>1. Fetched(snap[s], q, w) \in Entries(q, snap[s].graph)
  BY FetchedEntry DEF TypeOK, ReadCacheInv
<1>2. /\ DOMAIN h = DOMAIN snap
      /\ \A r \in DOMAIN snap : h[r].graph = snap[r].graph
      /\ \A r \in DOMAIN snap, p \in Query :
           h[r].readCache[p] = IF r = s /\ p = q THEN Fetched(snap[s], q, w)
                               ELSE snap[r].readCache[p]
  BY AfterReadHeap
<1> HIDE DEF h
<1>3. CachesInv(h)
  BY <1>1, <1>2 DEF CachesInv, ReadCacheInv
<1>4. QED
  BY <1>3 DEF h

\* What is stored of a heap that has it has it.
LEMMA StoreCaches ==
    ASSUME NEW h, NEW l, NEW fs, Store(h, l, fs), Held(l, fs) \subseteq DOMAIN h, CachesInv(h)
    PROVE  ReadCacheInv'
<1>1. DOMAIN snap' = Held(l, fs) /\ \A s \in Held(l, fs) : snap'[s] = h[s]
  BY StoreHeap
<1>2. QED
  BY <1>1 DEF CachesInv, ReadCacheInv

LEMMA InitCaches == Init => ReadCacheInv
<1>1. SUFFICES ASSUME Init PROVE ReadCacheInv
  OBVIOUS
<1>2. PICK s \in SnapId : snap = [r \in {s} |-> NewGraph(EmptyGraph)]
  BY <1>1 DEF Init
<1>3. \A q \in Query : NewGraph(EmptyGraph).readCache[q] = Unread
  BY DEF NewGraph
<1>4. QED
  BY <1>2, <1>3 DEF ReadCacheInv, Entries

\* The heaps of a write.
LEMMA WriteHeaps ==
    ASSUME TypeOK, ReadCacheInv,
           NEW b \in SnapId, NEW o \in SnapId, NEW edited, NEW h, NEW first, NEW second,
           WriteOf(b, o, edited, h, first, second)
    PROVE  /\ DOMAIN second = DOMAIN h /\ CachesInv(second)
           /\ \A s \in DOMAIN h : second[s].graph = h[s].graph
<1>1. /\ DOMAIN h = DOMAIN snap \cup {b, o} /\ Snapshots(h)
      /\ \A s \in DOMAIN snap : h[s] = snap[s]
      /\ \A s \in DOMAIN h \ DOMAIN snap : \A q \in Query : h[s].readCache[q] = Unread
      /\ Covers(edited, snap[live.baseline].graph, h[b].graph)
      /\ Covers(edited, snap[live.optimistic].graph, h[o].graph)
      /\ first = Carried(h, live.baseline, b, edited)
      /\ second = IF o = b THEN first ELSE Carried(first, live.optimistic, o, edited)
  BY DEF WriteOf
<1>2. /\ live.baseline \in DOMAIN snap /\ live.optimistic \in DOMAIN snap
      /\ live.baseline \in DOMAIN h /\ live.optimistic \in DOMAIN h
      /\ b \in DOMAIN h /\ o \in DOMAIN h
  BY <1>1 DEF TypeOK, Held
<1>3. CachesInv(h)
  <2>1. \A s \in DOMAIN h \ DOMAIN snap, q \in Query : h[s].readCache[q] \in Entries(q, h[s].graph)
    BY <1>1 DEF Entries
  <2>2. \A s \in DOMAIN snap, q \in Query : h[s].readCache[q] \in Entries(q, h[s].graph)
    BY <1>1 DEF ReadCacheInv
  <2>3. QED BY <2>1, <2>2 DEF CachesInv
<1>4. /\ DOMAIN first = DOMAIN h /\ Snapshots(first)
      /\ \A s \in DOMAIN h : first[s].graph = h[s].graph
      /\ CachesInv(first)
  <2>1. Snapshots(h) /\ first = Carried(h, live.baseline, b, edited)
    BY <1>1
  <2>2. Covers(edited, h[live.baseline].graph, h[b].graph)
    BY <1>1, <1>2
  <2>3. DOMAIN first = DOMAIN h /\ Snapshots(first) /\ \A s \in DOMAIN h : first[s].graph = h[s].graph
    BY <1>2, <2>1, CarriedHeap
  <2>4. CachesInv(first)
    BY <1>2, <1>3, <2>1, <2>2, CarriedCaches
  <2>5. QED BY <2>3, <2>4
<1>5. CASE o = b
  <2>1. second = first
    BY <1>1, <1>5
  <2>2. QED BY <1>4, <2>1
<1>6. CASE o # b
  <2>1. second = Carried(first, live.optimistic, o, edited)
    BY <1>1, <1>6
  <2>2. live.optimistic \in DOMAIN first /\ o \in DOMAIN first
    BY <1>2, <1>4
  <2>3. Covers(edited, first[live.optimistic].graph, first[o].graph)
    BY <1>1, <1>2, <1>4
  <2>4. DOMAIN second = DOMAIN first /\ \A s \in DOMAIN first : second[s].graph = first[s].graph
    BY <1>4, <2>1, <2>2, CarriedHeap
  <2>5. CachesInv(second)
    BY <1>4, <2>1, <2>2, <2>3, CarriedCaches
  <2>6. QED BY <1>4, <2>4, <2>5
<1>7. QED
  BY <1>5, <1>6

LEMMA WriteCaches ==
    ASSUME TypeOK, ReadCacheInv, Write
    PROVE  ReadCacheInv'
<1>0. PICK b \in SnapId, o \in SnapId, edited \in SUBSET Node :
         \E h, first, second : WriteOf(b, o, edited, h, first, second)
  BY WriteParts
<1>1. PICK h, first, second : WriteOf(b, o, edited, h, first, second)
  BY <1>0
<1>2. DOMAIN second = DOMAIN h /\ CachesInv(second)
  BY <1>1, WriteHeaps
<1> DEFINE f == [kind |-> "broadcast", snapshot |-> o, edited |-> edited,
                 next |-> 1, calling |-> "none"]
           l == [baseline |-> b, optimistic |-> o]
<1>3. f \in Frame /\ f.kind = "broadcast" /\ f.snapshot = o /\ l.baseline = b /\ l.optimistic = o
  BY DEF Frame, Loop
<1>4. Store(second, l, Append(frames, f)) /\ DOMAIN h = DOMAIN snap \cup {b, o}
  BY <1>1 DEF WriteOf
<1> HIDE DEF f, l
<1>5. Held(l, Append(frames, f)) = Held(l, frames) \cup {o}
  BY <1>3, HeldAppend
<1>6. Held(l, frames) \subseteq Held(live, frames) \cup {b, o}
  BY <1>3 DEF Held
<1>7. Held(l, Append(frames, f)) \subseteq DOMAIN second
  BY <1>2, <1>4, <1>5, <1>6 DEF TypeOK
<1>8. QED
  BY <1>2, <1>4, <1>7, StoreCaches

\* The other actions leave every graph as it is, and read at most.
LEMMA QuietCaches ==
    ASSUME TypeOK, ReadCacheInv, NEW h, CachesInv(h), DOMAIN h = DOMAIN snap,
           \/ snap' = h
           \/ frames # <<>> /\ Store(h, live, Popped)
    PROVE  ReadCacheInv'
<1>1. CASE snap' = h
  BY <1>1 DEF CachesInv, ReadCacheInv
<1>2. CASE frames # <<>> /\ Store(h, live, Popped)
  <2>1. Held(live, Popped) \subseteq DOMAIN h
    BY <1>2, HeldPopped
  <2>2. QED BY <1>2, <2>1, StoreCaches
<1>3. QED
  BY <1>1, <1>2

LEMMA NextCaches == TypeOK /\ ReadCacheInv /\ [Next]_vars => ReadCacheInv'
<1> SUFFICES ASSUME TypeOK, ReadCacheInv, [Next]_vars PROVE ReadCacheInv'
  OBVIOUS
<1>0. CachesInv(snap)
  BY DEF CachesInv, ReadCacheInv
<1>1. ASSUME NEW s \in DOMAIN snap, NEW q \in Query, NEW w, snap' = AfterRead(s, q, w)
      PROVE  ReadCacheInv'
  <2>1. DOMAIN snap' = DOMAIN snap /\ CachesInv(snap')
    BY <1>1, AfterReadHeap, AfterReadCaches
  <2>2. QED BY <2>1 DEF CachesInv, ReadCacheInv
<1>2. live.baseline \in DOMAIN snap /\ live.optimistic \in DOMAIN snap
  BY DEF TypeOK, Held
<1>3. ASSUME NEW s \in {live.baseline, live.optimistic}, NEW q \in Query, Read(s, q)
      PROVE  ReadCacheInv'
  BY <1>1, <1>2, <1>3 DEF Read
<1>4. CASE Write
  BY <1>4, WriteCaches
<1>5. CASE Notify
  <2> DEFINE o == observers[top.next]
  <2>1. Control = "loop" /\ top.next <= Len(observers)
    BY <1>5 DEF Notify
  <2>2. top \in Loop /\ top.snapshot \in DOMAIN snap
    BY <2>1, ControlType
  <2>3. observers \in Seq(QueryObserver) /\ top.next \in 1..Len(observers)
    BY <2>1, <2>2, LenProperties DEF TypeOK, Loop
  <2>4. o \in QueryObserver
    BY <2>3, ElementOfSeq
  <2>5. o.query \in Query
    BY <2>4 DEF QueryObserver
  <2>6. snap' = AfterRead(top.snapshot, o.query, Strict)
    BY <1>5 DEF Notify
  <2> HIDE DEF o
  <2>7. QED BY <1>1, <2>2, <2>5, <2>6
<1>6. ASSUME NEW q \in Query, Watch(q) PROVE ReadCacheInv'
  BY <1>1, <1>2, <1>6 DEF Watch
<1>7. CASE WatchReturns \/ OnChangeReturns \/ Throw
  <2>1. frames # <<>> /\ Store(snap, live, Popped)
    BY <1>7, ControlType, MayThrow DEF WatchReturns, OnChangeReturns, Throw
  <2>2. QED BY <1>0, <2>1, QuietCaches
<1>8. CASE PassOver \/ AllTold \/ ObserverReturns \/ (\E i \in 1..Len(observers) : Unwatch(i))
             \/ UNCHANGED vars
  <2>1. snap' = snap
    BY <1>8 DEF PassOver, AllTold, ObserverReturns, Unwatch, vars
  <2>2. QED BY <1>0, <2>1, QuietCaches
<1>9. QED
  BY <1>3, <1>4, <1>5, <1>6, <1>7, <1>8 DEF Next, Return

\* Every entry of every read cache is one that its graph gives, in either
\* mode and whatever application code calls from its callbacks.
THEOREM ReadCacheInvariant == Spec => []ReadCacheInv
<1>1. Init => ReadCacheInv
  BY InitCaches
<1>2. TypeOK /\ ReadCacheInv /\ [Next]_vars => ReadCacheInv'
  BY NextCaches
<1>3. QED
  BY <1>1, <1>2, TypeCorrect, PTL DEF Spec

\* A cached read is what reading the graph afresh gives, however many writes
\* it was carried over (_copyUnaffectedCachedReads of Cache.ts, read.ts).
THEOREM ReadCacheAlwaysFresh == Spec => []ReadCacheIsFresh
<1>1. TypeOK /\ ReadCacheInv => ReadCacheIsFresh
  <2> SUFFICES ASSUME TypeOK, ReadCacheInv, NEW s \in DOMAIN snap, NEW q \in Query
               PROVE  snap[s].readCache[q].data # NoData
                        => snap[s].readCache[q].data = Result(q, snap[s].graph)
    BY DEF ReadCacheIsFresh
  <2>1. snap[s].graph \in Graph /\ snap[s].readCache[q] \in Entries(q, snap[s].graph)
    BY DEF TypeOK, GraphSnapshot, ReadCacheInv
  <2>2. QED BY <2>1, EntryFacts
<1>2. QED
  BY <1>1, TypeCorrect, ReadCacheInvariant, PTL

-----------------------------------------------------------------------------
(* Observers are current, where application code does nothing careless in  *)
(* a callback.                                                             *)

Considerate == Usage \cap Careless = {}

\* Informed, for a live graph g.
InformedBy(o, g) == o.result.data # NoData /\ o.result \in Entries(o.query, g)

\* Above a new observer, or a loop that is telling, are only new observers.
Orderly(fs) ==
    \A i \in 1..Len(fs), j \in 1..Len(fs) :
        i < j => fs[j].kind = "watch" \/ ~(fs[i].kind = "watch" \/ Telling(fs[i]))

\* What a loop that is telling has done so far.
Told(f, obs, o, g) ==
    /\ f.snapshot = o
    /\ \A k \in 1..Len(obs) :
         k < f.next \/ Unaffected(obs[k].result, f.edited) => InformedBy(obs[k], g)

\* ObserversInv of the calls fs and observers obs, when o is the live
\* optimistic snapshot and g its graph.
Settles(fs, obs, o, g) ==
    /\ Orderly(fs)
    /\ \A i \in 1..Len(fs) : fs[i].kind = "watch" => InformedBy(fs[i].observer, g)
    /\ \A i \in 1..Len(fs) : Telling(fs[i]) => Told(fs[i], obs, o, g)
    /\ (\A i \in 1..Len(fs) : ~Telling(fs[i])) => \A k \in 1..Len(obs) : InformedBy(obs[k], g)

LEMMA ObserversInvSettles ==
    ObserversInv <=> Settles(frames, observers, live.optimistic, snap[live.optimistic].graph)
BY DEF ObserversInv, Settles, Orderly, Told, Informed, InformedBy

LEMMA ObserversInvNext ==
    ObserversInv' <=> Settles(frames', observers', live'.optimistic, snap'[live'.optimistic].graph)
BY DEF ObserversInv, Settles, Orderly, Told, Informed, InformedBy, Telling

\* Below a loop there are only loops that are through.
LEMMA BelowLoop ==
    ASSUME TypeOK, ObserversInv, frames # <<>>, top.kind = "broadcast",
           NEW i \in 1..Len(frames), i # Len(frames)
    PROVE  frames[i].kind # "watch" /\ ~Telling(frames[i])
<1>1. Len(frames) \in 1..Len(frames) /\ Len(frames) \in Nat
  BY TopType, LenProperties DEF TypeOK
<1>2. i < Len(frames)
  BY <1>1
<1>3. Orderly(frames)
  BY ObserversInvSettles DEF Settles
<1>4. QED
  BY <1>1, <1>2, <1>3 DEF Orderly, top

\* Where nothing is running, or an onChange is, every observer is informed.
LEMMA AllInformed ==
    ASSUME TypeOK, ObserversInv, Control \in {"application", "onChange"}
    PROVE  /\ \A i \in 1..Len(frames) : frames[i].kind # "watch" /\ ~Telling(frames[i])
           /\ \A k \in 1..Len(observers) : InformedBy(observers[k], snap[live.optimistic].graph)
<1>1. \A i \in 1..Len(frames) : frames[i].kind # "watch" /\ ~Telling(frames[i])
  <2>1. CASE frames = <<>>
    BY <2>1
  <2>2. CASE frames # <<>>
    <3>1. top.kind = "broadcast" /\ top.calling = "onChange"
      BY <2>2, ControlType
    <3>2. frames[Len(frames)].kind # "watch" /\ ~Telling(frames[Len(frames)])
      BY <3>1 DEF top, Telling
    <3>3. QED BY <2>2, <3>1, <3>2, BelowLoop
  <2>3. QED BY <2>1, <2>2
<1>2. QED
  BY <1>1, ObserversInvSettles DEF Settles

\* From which callbacks considerate code does what.
LEMMA ConsiderateControl ==
    ASSUME TypeOK, Considerate
    PROVE  /\ May("write") \/ May("unwatch") => Control \in {"application", "onChange"}
           /\ May("throw") => Control \in {"watch", "onChange"}
<1>1. \A x, op : <<x, op>> \in Usage => x \in {"observer", "watch", "onChange"}
  BY UsageAssumption DEF Caller
<1>2. /\ <<"observer", "write">> \notin Usage /\ <<"observer", "unwatch">> \notin Usage
      /\ <<"observer", "throw">> \notin Usage
      /\ <<"watch", "write">> \notin Usage /\ <<"watch", "unwatch">> \notin Usage
  BY DEF Considerate, Careless
<1>3. QED
  BY <1>1, <1>2, ControlType DEF May

\* A step of the loop that is telling.
LEMMA LoopSettles ==
    ASSUME TypeOK, ObserversInv, frames # <<>>, top.kind = "broadcast",
           NEW f \in Loop, f.snapshot = top.snapshot, NEW obs, NEW o, NEW g,
           IF Telling(f) THEN Told(f, obs, o, g) ELSE \A k \in 1..Len(obs) : InformedBy(obs[k], g)
    PROVE  Settles(WithTop(f), obs, o, g)
<1> DEFINE n == Len(frames)
           fs == WithTop(f)
<1>1. Len(fs) = n /\ \A i \in 1..n : fs[i] = IF i = n THEN f ELSE frames[i]
  BY HeldWithTop
<1>2. n \in 1..n /\ n \in Nat
  BY TopType, LenProperties DEF TypeOK
<1>3. \A i \in 1..n : i # n => frames[i].kind # "watch" /\ ~Telling(frames[i])
  BY BelowLoop
<1>4. f.kind # "watch"
  BY DEF Loop
<1> HIDE DEF fs, n
<1>5. \A i \in 1..n : i # n => fs[i].kind # "watch" /\ ~Telling(fs[i])
  BY <1>1, <1>3
<1>6. fs[n] = f
  BY <1>1, <1>2
<1>7. Orderly(fs)
  BY <1>1, <1>2, <1>5 DEF Orderly
<1>8. \A i \in 1..Len(fs) : fs[i].kind = "watch" => InformedBy(fs[i].observer, g)
  BY <1>1, <1>4, <1>5, <1>6
<1>9. \A i \in 1..Len(fs) : Telling(fs[i]) => Told(fs[i], obs, o, g)
  BY <1>1, <1>5, <1>6
<1>10. (\A i \in 1..Len(fs) : ~Telling(fs[i])) => \A k \in 1..Len(obs) : InformedBy(obs[k], g)
  BY <1>1, <1>2, <1>6
<1>11. Settles(fs, obs, o, g)
  BY <1>7, <1>8, <1>9, <1>10 DEF Settles
<1>12. QED
  BY <1>11 DEF fs

\* A call ends that was not telling, and may leave a new observer.
LEMMA PopSettles ==
    ASSUME TypeOK, frames # <<>>, ~Telling(top),
           NEW o, NEW g, Settles(frames, observers, o, g),
           NEW obs,
           \A k \in 1..Len(obs) :
             \/ k \in 1..Len(observers) /\ obs[k] = observers[k]
             \/ InformedBy(obs[k], g)
    PROVE  Settles(Popped, obs, o, g)
<1> DEFINE fs == Popped
<1>1. \A i \in 1..Len(fs) : i \in 1..Len(frames) /\ fs[i] = frames[i]
  BY HeldPopped
<1>2. Len(fs) = Len(frames) - 1 /\ Len(frames) \in Nat
  BY HeldPopped, LenProperties DEF TypeOK
<1>3. \A i \in 1..Len(frames) : i \in 1..Len(fs) \/ ~Telling(frames[i])
  <2>1. \A i \in 1..Len(frames) : i \in 1..Len(fs) \/ i = Len(frames)
    BY <1>2
  <2>2. QED BY <2>1 DEF top
<1> HIDE DEF fs
<1>4. Orderly(fs)
  BY <1>1 DEF Settles, Orderly
<1>5. \A i \in 1..Len(fs) : fs[i].kind = "watch" => InformedBy(fs[i].observer, g)
  BY <1>1 DEF Settles
<1>6. ASSUME NEW i \in 1..Len(fs), Telling(fs[i]) PROVE Told(fs[i], obs, o, g)
  <2>1. Told(fs[i], observers, o, g)
    BY <1>1, <1>6 DEF Settles
  <2>2. QED BY <2>1 DEF Told
<1>7. (\A i \in 1..Len(fs) : ~Telling(fs[i])) => \A k \in 1..Len(obs) : InformedBy(obs[k], g)
  <2>1. (\A i \in 1..Len(fs) : ~Telling(fs[i])) => \A i \in 1..Len(frames) : ~Telling(frames[i])
    BY <1>1, <1>3
  <2>2. QED BY <2>1 DEF Settles
<1>8. Settles(fs, obs, o, g)
  BY <1>4, <1>5, <1>6, <1>7 DEF Settles
<1>9. QED
  BY <1>8 DEF fs

\* A new observer is put above everything that is running.
LEMMA PushSettles ==
    ASSUME TypeOK, NEW o, NEW g, Settles(frames, observers, o, g),
           NEW f \in Constructor, f.kind = "watch", InformedBy(f.observer, g)
    PROVE  Settles(Append(frames, f), observers, o, g)
<1> DEFINE n == Len(frames)
           fs == Append(frames, f)
<1>1. n \in Nat /\ Len(fs) = n + 1 /\ fs[n + 1] = f /\ \A i \in 1..n : fs[i] = frames[i]
  BY HeldAppend DEF Frame
<1>2. n = Len(frames)
  OBVIOUS
<1> HIDE DEF fs, n
<1>3. \A i \in 1..(n + 1) : i = n + 1 \/ i \in 1..n
  BY <1>1
<1>4. \A i \in 1..n : i \in 1..(n + 1) /\ i < n + 1
  BY <1>1
<1>5. ~Telling(f)
  BY DEF Telling
<1>6. Orderly(fs)
  <2>1. SUFFICES ASSUME NEW i \in 1..(n + 1), NEW j \in 1..(n + 1), i < j
                 PROVE  fs[j].kind = "watch" \/ ~(fs[i].kind = "watch" \/ Telling(fs[i]))
    BY <1>1 DEF Orderly
  <2>2. CASE j = n + 1
    BY <1>1, <2>2
  <2>3. CASE j # n + 1
    <3>1. i \in 1..n /\ j \in 1..n
      BY <1>1, <2>1, <2>3
    <3>2. QED BY <1>1, <1>2, <2>1, <3>1 DEF Settles, Orderly
  <2>4. QED BY <2>2, <2>3
<1>7. \A i \in 1..(n + 1) : fs[i].kind = "watch" => InformedBy(fs[i].observer, g)
  BY <1>1, <1>2, <1>3 DEF Settles
<1>8. \A i \in 1..(n + 1) : Telling(fs[i]) => Told(fs[i], observers, o, g)
  BY <1>1, <1>2, <1>3, <1>5 DEF Settles
<1>9. (\A i \in 1..(n + 1) : ~Telling(fs[i])) => \A k \in 1..Len(observers) : InformedBy(observers[k], g)
  BY <1>1, <1>2, <1>4 DEF Settles
<1>10. Settles(fs, observers, o, g)
  BY <1>1, <1>6, <1>7, <1>8, <1>9 DEF Settles
<1>11. QED
  BY <1>10 DEF fs

\* A write is told to the observers that it may concern, and the others are
\* informed of the new graph as they were of the old one.
LEMMA WriteSettles ==
    ASSUME TypeOK, ObserversInv, Control \in {"application", "onChange"},
           NEW h \in Graph, NEW edited, Covers(edited, snap[live.optimistic].graph, h),
           NEW f \in Loop, f.kind = "broadcast", f.edited = edited, f.next = 1, f.calling = "none"
    PROVE  Settles(Append(frames, f), observers, f.snapshot, h)
<1> DEFINE n == Len(frames)
           fs == Append(frames, f)
           g == snap[live.optimistic].graph
<1>1. n \in Nat /\ Len(fs) = n + 1 /\ fs[n + 1] = f /\ \A i \in 1..n : fs[i] = frames[i]
  BY HeldAppend DEF Frame
<1>2. /\ \A i \in 1..n : frames[i].kind # "watch" /\ ~Telling(frames[i])
      /\ \A k \in 1..Len(observers) : InformedBy(observers[k], g)
  BY AllInformed
<1>3. g \in Graph
  BY DEF TypeOK, Held, GraphSnapshot
<1> HIDE DEF fs, n
<1>4. \A i \in 1..(n + 1) : i = n + 1 \/ i \in 1..n
  BY <1>1
<1>5. n + 1 \in 1..(n + 1)
  BY <1>1
<1>6. Telling(f)
  BY DEF Telling
<1>7. Orderly(fs)
  <2>1. SUFFICES ASSUME NEW i \in 1..(n + 1), NEW j \in 1..(n + 1), i < j
                 PROVE  ~(fs[i].kind = "watch" \/ Telling(fs[i]))
    BY <1>1 DEF Orderly
  <2>2. i \in 1..n
    BY <1>1, <2>1
  <2>3. QED BY <1>1, <1>2, <2>2
<1>8. \A i \in 1..(n + 1) : fs[i].kind = "watch" => InformedBy(fs[i].observer, h)
  BY <1>1, <1>2, <1>4
<1>9. Told(f, observers, f.snapshot, h)
  <2>1. SUFFICES ASSUME NEW k \in 1..Len(observers), k < 1 \/ Unaffected(observers[k].result, edited)
                 PROVE  InformedBy(observers[k], h)
    BY DEF Told
  <2>2. Unaffected(observers[k].result, edited)
    BY <2>1, LenProperties DEF TypeOK
  <2>3. observers[k] \in QueryObserver
    BY ElementOfSeq DEF TypeOK
  <2>4. observers[k].query \in Query
    BY <2>3 DEF QueryObserver
  <2>5. observers[k].result \in Entries(observers[k].query, g)
    BY <1>2 DEF InformedBy
  <2>6. Covers(edited, g, h)
    OBVIOUS
  <2> HIDE DEF g
  <2>7. QED BY <1>3, <2>2, <2>4, <2>5, <2>6, UnaffectedEntry DEF InformedBy
<1>10. \A i \in 1..(n + 1) : Telling(fs[i]) => Told(fs[i], observers, f.snapshot, h)
  BY <1>1, <1>2, <1>4, <1>9
<1>11. Settles(fs, observers, f.snapshot, h)
  BY <1>1, <1>5, <1>6, <1>7, <1>8, <1>10 DEF Settles
<1>12. QED
  BY <1>11 DEF fs

-----------------------------------------------------------------------------
(* Informed observers, action by action.                                   *)

LEMMA InitObservers == Init => ObserversInv
<1>1. SUFFICES ASSUME Init PROVE ObserversInv
  OBVIOUS
<1>2. frames = <<>> /\ observers = <<>>
  BY <1>1 DEF Init
<1>3. 1..Len(frames) = {} /\ 1..Len(observers) = {}
  BY <1>2
<1>4. QED
  BY <1>3 DEF ObserversInv

\* The live graph stays what it is in every step but a write.
LEMMA SameGraph ==
    ASSUME TypeOK, UNCHANGED live,
           \/ UNCHANGED snap
           \/ \E s \in DOMAIN snap, q \in Query : \E w : snap' = AfterRead(s, q, w)
           \/ \E fs : Store(snap, live, fs)
    PROVE  snap'[live'.optimistic].graph = snap[live.optimistic].graph
<1>1. live.optimistic \in DOMAIN snap
  BY DEF TypeOK, Held
<1>2. CASE UNCHANGED snap
  BY <1>2
<1>3. CASE \E s \in DOMAIN snap, q \in Query : \E w : snap' = AfterRead(s, q, w)
  BY <1>1, <1>3, AfterReadHeap
<1>4. CASE \E fs : Store(snap, live, fs)
  <2>1. PICK fs : Store(snap, live, fs)
    BY <1>4
  <2>2. live.optimistic \in Held(live, fs)
    BY DEF Held
  <2>3. snap'[live.optimistic] = snap[live.optimistic]
    BY <2>1, <2>2, StoreHeap
  <2>4. QED BY <2>3
<1>5. QED
  BY <1>2, <1>3, <1>4

LEMMA WriteObservers ==
    ASSUME TypeOK, ReadCacheInv, ObserversInv, Considerate, Write
    PROVE  ObserversInv'
<1>0. PICK b \in SnapId, o \in SnapId, edited \in SUBSET Node :
         \E h, first, second : WriteOf(b, o, edited, h, first, second)
  BY WriteParts
<1>1. PICK h, first, second : WriteOf(b, o, edited, h, first, second)
  BY <1>0
<1>2. \A s \in DOMAIN h : second[s].graph = h[s].graph
  BY <1>1, WriteHeaps
<1> DEFINE f == [kind |-> "broadcast", snapshot |-> o, edited |-> edited,
                 next |-> 1, calling |-> "none"]
           l == [baseline |-> b, optimistic |-> o]
<1>3. /\ Store(second, l, Append(frames, f)) /\ DOMAIN h = DOMAIN snap \cup {b, o}
      /\ Snapshots(h) /\ Covers(edited, snap[live.optimistic].graph, h[o].graph)
      /\ May("write") /\ UNCHANGED observers
  BY <1>1 DEF WriteOf
<1>4. /\ f \in Loop /\ f.kind = "broadcast" /\ f.snapshot = o /\ f.edited = edited
      /\ f.next = 1 /\ f.calling = "none" /\ l.optimistic = o
  BY DEF Loop
<1> HIDE DEF f, l
<1>5. live' = l /\ frames' = Append(frames, f) /\ snap'[o] = second[o]
  <2>1. o \in Held(l, Append(frames, f))
    BY <1>4 DEF Held
  <2>2. QED BY <1>3, <2>1, StoreHeap
<1>6. h[o].graph \in Graph /\ second[o].graph = h[o].graph
  BY <1>2, <1>3 DEF Snapshots, GraphSnapshot
<1>7. Control \in {"application", "onChange"}
  BY <1>3, ConsiderateControl
<1>8. Settles(Append(frames, f), observers, o, h[o].graph)
  BY <1>3, <1>4, <1>6, <1>7, WriteSettles
<1>9. QED
  BY <1>3, <1>4, <1>5, <1>6, <1>8, ObserversInvNext

LEMMA PassOverObservers ==
    ASSUME TypeOK, ObserversInv, PassOver
    PROVE  ObserversInv'
<1> DEFINE f == [top EXCEPT !.next = top.next + 1]
           g == snap[live.optimistic].graph
<1>1. /\ Control = "loop" /\ top.next <= Len(observers)
      /\ Unaffected(observers[top.next].result, top.edited)
      /\ frames' = WithTop(f) /\ UNCHANGED <<live, snap, observers>>
  BY DEF PassOver
<1>2. frames # <<>> /\ top \in Loop /\ top.kind = "broadcast" /\ top.calling = "none"
  BY <1>1, ControlType
<1>3. /\ f \in Loop /\ f.snapshot = top.snapshot /\ f.edited = top.edited
      /\ f.next = top.next + 1 /\ f.kind = "broadcast" /\ f.calling = "none"
      /\ top.next \in Nat \ {0}
  BY <1>2 DEF Loop
<1> HIDE DEF f
<1>4. Told(top, observers, live.optimistic, g)
  <2>1. Len(frames) \in 1..Len(frames) /\ Telling(top)
    BY <1>2, TopType DEF Telling
  <2>2. QED BY <2>1, ObserversInvSettles DEF Settles, top
<1>5. Told(f, observers, live.optimistic, g)
  <2>1. SUFFICES ASSUME NEW k \in 1..Len(observers),
                        k < top.next + 1 \/ Unaffected(observers[k].result, top.edited)
                 PROVE  InformedBy(observers[k], g)
    BY <1>3, <1>4 DEF Told
  <2>2. k < top.next \/ Unaffected(observers[k].result, top.edited)
    BY <1>1, <1>3, <2>1
  <2>3. QED BY <1>4, <2>2 DEF Told
<1>6. Telling(f)
  BY <1>3 DEF Telling
<1>7. Settles(WithTop(f), observers, live.optimistic, g)
  BY <1>2, <1>3, <1>5, <1>6, LoopSettles
<1>8. QED
  BY <1>1, <1>7, ObserversInvNext

\* The innermost call, where it is a loop that is telling.
LEMMA TopTold ==
    ASSUME TypeOK, ObserversInv, Control \in {"loop", "observer"}
    PROVE  /\ Telling(top)
           /\ Told(top, observers, live.optimistic, snap[live.optimistic].graph)
<1>1. frames # <<>> /\ top.kind = "broadcast" /\ top.calling # "onChange"
  BY ControlType
<1>2. Len(frames) \in 1..Len(frames) /\ Telling(top)
  BY <1>1, TopType DEF Telling
<1>3. QED
  BY <1>2, ObserversInvSettles DEF Settles, top

LEMMA NotifyObservers ==
    ASSUME TypeOK, ReadCacheInv, ObserversInv, Notify
    PROVE  ObserversInv'
<1> DEFINE n == top.next
           x == observers[n]
           r == Fetched(snap[top.snapshot], x.query, Strict)
           y == [x EXCEPT !.result = r]
           f == [top EXCEPT !.next = n + 1, !.calling = "observer"]
           g == snap[live.optimistic].graph
<1>1. Control = "loop" /\ n <= Len(observers)
  BY DEF Notify
<1>2. frames # <<>> /\ top \in Loop /\ top.kind = "broadcast" /\ top.snapshot \in DOMAIN snap
  BY <1>1, ControlType
<1>3. /\ observers' = [observers EXCEPT ![n] = y]
      /\ snap' = AfterRead(top.snapshot, x.query, Strict)
      /\ frames' = WithTop(f) /\ UNCHANGED live
  BY <1>2 DEF Notify, Loop
<1>4. /\ f \in Loop /\ f.snapshot = top.snapshot /\ f.edited = top.edited
      /\ f.next = n + 1 /\ f.kind = "broadcast" /\ f.calling = "observer"
      /\ n \in Nat \ {0}
  <2>1. n \in Nat \ {0}
    BY <1>2 DEF Loop
  <2>2. n + 1 \in Nat \ {0}
    BY <2>1
  <2> HIDE DEF n
  <2>3. f \in Loop /\ f.snapshot = top.snapshot /\ f.edited = top.edited
    BY <1>2, <2>2 DEF Loop
  <2>4. f.next = n + 1 /\ f.kind = "broadcast" /\ f.calling = "observer"
    BY <1>2, <2>2 DEF Loop
  <2>5. QED BY <2>1, <2>3, <2>4
<1>5. Told(top, observers, live.optimistic, g)
  BY <1>1, TopTold
<1>6. observers \in Seq(QueryObserver) /\ n \in 1..Len(observers) /\ Len(observers) \in Nat
  BY <1>1, <1>4, LenProperties DEF TypeOK
<1>7. x \in QueryObserver
  BY <1>6, ElementOfSeq
<1>8. x.query \in Query
  BY <1>7 DEF QueryObserver
<1>9. snap[top.snapshot] \in GraphSnapshot /\ \A q \in Query :
        snap[top.snapshot].readCache[q] \in Entries(q, snap[top.snapshot].graph)
  BY <1>2 DEF TypeOK, ReadCacheInv
<1>10. r \in QueryResult /\ r.data # NoData /\ r \in Entries(x.query, snap[top.snapshot].graph)
  <2> HIDE DEF x
  <2>1. QED BY <1>8, <1>9, FetchedType, FetchedEntry
<1>11. y \in QueryObserver /\ y.query = x.query /\ y.result = r
  <2> HIDE DEF x, r
  <2>1. QED BY <1>7, <1>10 DEF QueryObserver
<1>12. top.snapshot = live.optimistic
  BY <1>5 DEF Told
<1>13. InformedBy(y, g)
  <2> HIDE DEF x, r, y
  <2>1. QED BY <1>10, <1>11, <1>12 DEF InformedBy
<1>14. snap'[live'.optimistic].graph = g
  <2> HIDE DEF x, g
  <2>1. QED BY <1>2, <1>3, <1>8, SameGraph DEF g
<1>15. Len(observers') = Len(observers) /\ \A k \in 1..Len(observers) :
         observers'[k] = IF k = n THEN y ELSE observers[k]
  <2> HIDE DEF y, n
  <2>1. QED BY <1>3, <1>6, <1>11, ExceptSeq
<1>16. Told(f, observers', live.optimistic, g)
  <2> HIDE DEF y, f, g
  <2>1. SUFFICES ASSUME NEW k \in 1..Len(observers),
                        k < n + 1 \/ Unaffected(observers'[k].result, top.edited)
                 PROVE  InformedBy(observers'[k], g)
    BY <1>4, <1>12, <1>15 DEF Told
  <2>2. CASE k = n
    BY <1>13, <1>15, <2>2
  <2>3. CASE k # n
    <3>1. observers'[k] = observers[k]
      BY <1>15, <2>3
    <3>2. k < n \/ Unaffected(observers[k].result, top.edited)
      BY <1>4, <2>1, <2>3, <3>1
    <3>3. QED BY <1>5, <3>1, <3>2 DEF Told
  <2>4. QED BY <2>2, <2>3
<1> HIDE DEF n, x, r, y, f, g
<1>17. Telling(f)
  BY <1>4 DEF Telling
<1>18. Settles(WithTop(f), observers', live.optimistic, g)
  BY <1>2, <1>4, <1>16, <1>17, LoopSettles
<1>19. QED
  BY <1>3, <1>14, <1>18, ObserversInvNext

LEMMA AllToldObservers ==
    ASSUME TypeOK, ObserversInv, AllTold
    PROVE  ObserversInv'
<1> DEFINE f == [top EXCEPT !.calling = "onChange"]
           g == snap[live.optimistic].graph
<1>1. /\ Control = "loop" /\ top.next > Len(observers)
      /\ frames' = WithTop(f) /\ UNCHANGED <<live, snap, observers>>
  BY DEF AllTold
<1>2. frames # <<>> /\ top \in Loop /\ top.kind = "broadcast"
  BY <1>1, ControlType
<1>3. f \in Loop /\ f.snapshot = top.snapshot /\ f.calling = "onChange" /\ top.next \in Nat
  BY <1>2 DEF Loop
<1> HIDE DEF f
<1>4. \A k \in 1..Len(observers) : InformedBy(observers[k], g)
  <2>1. Told(top, observers, live.optimistic, g)
    BY <1>1, TopTold
  <2>2. \A k \in 1..Len(observers) : k < top.next
    BY <1>1, <1>3, LenProperties DEF TypeOK
  <2>3. QED BY <2>1, <2>2 DEF Told
<1>5. ~Telling(f)
  BY <1>3 DEF Telling
<1>6. Settles(WithTop(f), observers, live.optimistic, g)
  BY <1>2, <1>3, <1>4, <1>5, LoopSettles
<1>7. QED
  BY <1>1, <1>6, ObserversInvNext

LEMMA ObserverReturnsObservers ==
    ASSUME TypeOK, ObserversInv, ObserverReturns
    PROVE  ObserversInv'
<1> DEFINE f == [top EXCEPT !.calling = "none"]
           g == snap[live.optimistic].graph
<1>1. Control = "observer" /\ frames' = WithTop(f) /\ UNCHANGED <<live, snap, observers>>
  BY DEF ObserverReturns
<1>2. frames # <<>> /\ top \in Loop /\ top.kind = "broadcast"
  BY <1>1, ControlType
<1>3. /\ f \in Loop /\ f.snapshot = top.snapshot /\ f.calling = "none" /\ f.kind = "broadcast"
      /\ f.next = top.next /\ f.edited = top.edited
  BY <1>2 DEF Loop
<1> HIDE DEF f
<1>4. Told(f, observers, live.optimistic, g)
  BY <1>1, <1>3, TopTold DEF Told
<1>5. Telling(f)
  BY <1>3 DEF Telling
<1>6. Settles(WithTop(f), observers, live.optimistic, g)
  BY <1>2, <1>3, <1>4, <1>5, LoopSettles
<1>7. QED
  BY <1>1, <1>6, ObserversInvNext

LEMMA WatchObservers ==
    ASSUME TypeOK, ReadCacheInv, ObserversInv, NEW q \in Query, Watch(q)
    PROVE  ObserversInv'
<1> DEFINE g == snap[live.optimistic].graph
<1>1. /\ live.optimistic \in DOMAIN snap
      /\ snap' = AfterRead(live.optimistic, q, Strict)
      /\ UNCHANGED <<live, observers>>
  BY WatchParts
<1>2. PICK f \in Constructor :
        /\ f.kind = "watch" /\ f.observer.query = q
        /\ f.observer.result = Fetched(snap[live.optimistic], q, Strict)
        /\ frames' = Append(frames, f)
  BY WatchParts
<1>3. InformedBy(f.observer, g)
  <2>1. snap[live.optimistic] \in GraphSnapshot /\ snap[live.optimistic].readCache[q] \in Entries(q, g)
    BY <1>1 DEF TypeOK, ReadCacheInv
  <2>2. QED BY <1>2, <2>1, FetchedEntry DEF InformedBy
<1>4. Settles(Append(frames, f), observers, live.optimistic, g)
  BY <1>2, <1>3, ObserversInvSettles, PushSettles
<1>5. snap'[live'.optimistic].graph = g
  BY <1>1, SameGraph
<1>6. QED
  BY <1>1, <1>2, <1>4, <1>5, ObserversInvNext

LEMMA UnwatchObservers ==
    ASSUME TypeOK, ObserversInv, Considerate, NEW i \in 1..Len(observers), Unwatch(i)
    PROVE  ObserversInv'
<1> DEFINE g == snap[live.optimistic].graph
<1>1. May("unwatch") /\ observers' = RemoveAt(observers, i) /\ UNCHANGED <<live, snap, frames>>
  BY DEF Unwatch
<1>2. /\ \A k \in 1..Len(frames) : frames[k].kind # "watch" /\ ~Telling(frames[k])
      /\ \A k \in 1..Len(observers) : InformedBy(observers[k], g)
  BY <1>1, ConsiderateControl, AllInformed
<1>3. \A k \in 1..Len(observers') : InformedBy(observers'[k], g)
  <2>1. \A k \in 1..Len(observers') : \E m \in 1..Len(observers) : observers'[k] = observers[m]
    BY <1>1, RemoveAtKeeps DEF TypeOK
  <2>2. QED BY <1>2, <2>1
<1>4. Settles(frames, observers', live.optimistic, g)
  BY <1>2, <1>3, ObserversInvSettles DEF Settles
<1>5. QED
  BY <1>1, <1>4, ObserversInvNext

LEMMA EndObservers ==
    ASSUME TypeOK, ObserversInv, frames # <<>>, ~Telling(top), Store(snap, live, Popped),
           \A k \in 1..Len(observers') :
             \/ k \in 1..Len(observers) /\ observers'[k] = observers[k]
             \/ InformedBy(observers'[k], snap[live.optimistic].graph)
    PROVE  ObserversInv'
<1> DEFINE g == snap[live.optimistic].graph
<1>1. live' = live /\ frames' = Popped
  BY StoreHeap
<1>2. snap'[live'.optimistic].graph = g
  BY <1>1, SameGraph
<1>3. Settles(Popped, observers', live.optimistic, g)
  BY ObserversInvSettles, PopSettles
<1>4. QED
  BY <1>1, <1>2, <1>3, ObserversInvNext

LEMMA WatchReturnsObservers ==
    ASSUME TypeOK, ObserversInv, WatchReturns
    PROVE  ObserversInv'
<1> DEFINE g == snap[live.optimistic].graph
<1>1. /\ Control = "watch" /\ observers' = Append(observers, top.observer)
      /\ Store(snap, live, Popped)
  BY DEF WatchReturns
<1>2. frames # <<>> /\ top \in Constructor /\ top.kind = "watch"
  BY <1>1, ControlType
<1>3. InformedBy(top.observer, g)
  <2>1. Len(frames) \in 1..Len(frames)
    BY <1>2, TopType
  <2>2. QED BY <1>2, <2>1, ObserversInvSettles DEF Settles, top
<1>4. \A k \in 1..Len(observers') :
        \/ k \in 1..Len(observers) /\ observers'[k] = observers[k]
        \/ InformedBy(observers'[k], g)
  <2> DEFINE m == Len(observers)
  <2>1. top.observer \in QueryObserver
    BY <1>2 DEF Constructor
  <2>2. /\ m \in Nat /\ Len(observers') = m + 1 /\ observers'[m + 1] = top.observer
        /\ \A k \in 1..m : observers'[k] = observers[k]
    BY <1>1, <2>1, AppendProperties, LenProperties DEF TypeOK
  <2> HIDE DEF m, g
  <2>3. \A k \in 1..(m + 1) : k = m + 1 \/ k \in 1..m
    BY <2>2
  <2>4. QED BY <1>3, <2>2, <2>3 DEF m
<1>5. ~Telling(top)
  BY <1>2 DEF Telling
<1>6. QED
  BY <1>1, <1>2, <1>4, <1>5, EndObservers

LEMMA EndsObservers ==
    ASSUME TypeOK, ObserversInv, Considerate, OnChangeReturns \/ Throw
    PROVE  ObserversInv'
<1>1. Store(snap, live, Popped) /\ UNCHANGED observers
  BY DEF OnChangeReturns, Throw
<1>2. Control \in {"watch", "onChange"}
  BY ConsiderateControl DEF OnChangeReturns, Throw
<1>3. frames # <<>> /\ ~Telling(top)
  BY <1>2, ControlType DEF Telling
<1>4. QED
  BY <1>1, <1>3, EndObservers

LEMMA NextObservers ==
    TypeOK /\ ReadCacheInv /\ ObserversInv /\ Considerate /\ [Next]_vars => ObserversInv'
<1> SUFFICES ASSUME TypeOK, ReadCacheInv, ObserversInv, Considerate, [Next]_vars
             PROVE  ObserversInv'
  OBVIOUS
<1>1. ASSUME NEW s \in {live.baseline, live.optimistic}, NEW q \in Query, Read(s, q)
      PROVE  ObserversInv'
  <2>1. snap' = AfterRead(s, q, FALSE) /\ s \in DOMAIN snap /\ UNCHANGED <<live, observers, frames>>
    BY <1>1 DEF Read, TypeOK, Held
  <2>2. snap'[live'.optimistic].graph = snap[live.optimistic].graph
    BY <2>1, SameGraph
  <2>3. QED BY <2>1, <2>2, ObserversInvSettles, ObserversInvNext
<1>2. CASE Write
  BY <1>2, WriteObservers
<1>3. CASE PassOver
  BY <1>3, PassOverObservers
<1>4. CASE Notify
  BY <1>4, NotifyObservers
<1>5. CASE AllTold
  BY <1>5, AllToldObservers
<1>6. ASSUME NEW q \in Query, Watch(q) PROVE ObserversInv'
  BY <1>6, WatchObservers
<1>7. ASSUME NEW i \in 1..Len(observers), Unwatch(i) PROVE ObserversInv'
  BY <1>7, UnwatchObservers
<1>8. CASE ObserverReturns
  BY <1>8, ObserverReturnsObservers
<1>9. CASE WatchReturns
  BY <1>9, WatchReturnsObservers
<1>10. CASE OnChangeReturns \/ Throw
  BY <1>10, EndsObservers
<1>11. CASE UNCHANGED vars
  BY <1>11, ObserversInvSettles, ObserversInvNext DEF vars
<1>12. QED
  BY <1>1, <1>2, <1>3, <1>4, <1>5, <1>6, <1>7, <1>8, <1>9, <1>10, <1>11 DEF Next, Return

\* At most one loop is telling observers; those that it has told, or will
\* pass over, have what the live graph gives, and so have all when it is
\* through: however deep callbacks watch, write and throw in one another, if
\* none of them does what is careless.
THEOREM ObserversInvariant == Considerate /\ Spec => []ObserversInv
<1>1. Init => ObserversInv
  BY InitObservers
<1>2. TypeOK /\ ReadCacheInv /\ ObserversInv /\ Considerate /\ [Next]_vars => ObserversInv'
  BY NextObservers
<1>3. Considerate => []Considerate
  OBVIOUS
<1>4. QED
  BY <1>1, <1>2, <1>3, TypeCorrect, ReadCacheInvariant, PTL DEF Spec

\* When every callback has returned, what an observer was last told is what
\* the optimistic graph says (Cache._setSnapshot, QueryObserver.ts).
THEOREM ObserversAlwaysCurrent == Considerate /\ Spec => []ObserversCurrent
<1>1. TypeOK /\ ObserversInv => ObserversCurrent
  <2> SUFFICES ASSUME TypeOK, ObserversInv, frames = <<>>, NEW k \in 1..Len(observers)
               PROVE  Current(observers[k])
    BY DEF ObserversCurrent
  <2> DEFINE g == snap[live.optimistic].graph
  <2>1. InformedBy(observers[k], g)
    BY AllInformed DEF Control
  <2>2. observers[k] \in QueryObserver
    BY ElementOfSeq DEF TypeOK
  <2>3. observers[k].query \in Query
    BY <2>2 DEF QueryObserver
  <2>4. g \in Graph
    BY DEF TypeOK, Held, GraphSnapshot
  <2>5. observers[k].result \in Entries(observers[k].query, g) /\ observers[k].result.data # NoData
    BY <2>1 DEF InformedBy
  <2>6. observers[k].result.data = Result(observers[k].query, g)
    <3> HIDE DEF g
    <3>1. QED BY <2>3, <2>4, <2>5, EntryFacts
  <2>7. QED BY <2>6 DEF Current
<1>2. QED
  BY <1>1, TypeCorrect, ObserversInvariant, PTL
=============================================================================
