------------------------ MODULE SnapshotEditor_proofs ------------------------
(***************************************************************************)
(* Proofs about SnapshotEditor.                                            *)
(***************************************************************************)
EXTENDS EditorInvariants, Serialization, FoldTheorems, FiniteSetTheorems, TLAPS

\* What is true of 0, and of k whenever it is true of k - 1, is true of all
\* naturals: the set of those it is true of is Nat.
LEMMA AllNaturals ==
    ASSUME NEW T, 0 \in T, \A k \in Nat \ {0} : k - 1 \in T => k \in T
    PROVE  \A k \in Nat : k \in T
<1> TAKE k \in Nat
<1>1. \A i \in 1..k : i - 1 \in T => i \in T
  OBVIOUS
<1>2. QED BY <1>1, UpTo

\* The subsets of a finite set.
LEMMA Parts ==
    ASSUME NEW S, IsFiniteSet(S), NEW s \in SUBSET S
    PROVE  /\ IsFiniteSet(s) /\ Cardinality(s) \in Nat /\ Cardinality(s) <= Cardinality(S)
           /\ Cardinality(s) = 0 <=> s = {}
           /\ \A x \in s : Cardinality(s \ {x}) = Cardinality(s) - 1
<1>1. IsFiniteSet(s) /\ Cardinality(s) <= Cardinality(S)
  BY FS_Subset
<1>2. Cardinality(s) \in Nat
  BY <1>1, FS_CardinalityType
<1>3. Cardinality(s) = 0 <=> s = {}
  BY <1>1, FS_EmptySet
<1>4. \A x \in s : Cardinality(s \ {x}) = Cardinality(s) - 1
  BY <1>1, FS_RemoveElement
<1>5. QED BY <1>1, <1>2, <1>3, <1>4

\* The first positions are finitely many, and as many as their number.
LEMMA Segment ==
    ASSUME NEW n \in Nat
    PROVE  IsFiniteSet(1..n) /\ Cardinality(1..n) = n
BY FS_Interval

\* The last of a set of positions, and of the first positions.
LEMMA LastOf ==
    ASSUME NEW n \in Nat
    PROVE  /\ \A s \in SUBSET (1..n) : s # {} => Max(s) \in s
           /\ \A k \in 1..n : Max(1..k) = k /\ (1..k) \ {k} = 1..(k - 1)
<1>1. ASSUME NEW s \in SUBSET (1..n), s # {} PROVE Max(s) \in s
  <2> DEFINE T == {n - i : i \in s}
  <2>1. T \in SUBSET Nat /\ T # {}
    BY <1>1
  <2>2. PICK m \in T : \A k \in T : m <= k
    <3> HIDE DEF T
    <3>1. QED BY <2>1, LeastElement
  <2>3. n - m \in s /\ \A y \in s : n - m >= y
    BY <2>2
  <2>4. QED BY <2>3 DEF Max
<1>2. ASSUME NEW k \in 1..n PROVE Max(1..k) = k /\ (1..k) \ {k} = 1..(k - 1)
  BY DEF Max
<1>3. QED BY <1>1, <1>2

-----------------------------------------------------------------------------
(* Folds.  Those of SequencesExt and FiniteSetsExt go over the subsets of  *)
(* what they fold.  Turn is one turn of each fold of the model; `a' is     *)
(* what its body depends on besides.                                       *)

Walked(base, p)     == FoldLeft(Walk, base, p)
EditsDone(base, p)  == FoldLeft(MergeReferenceEdit, base, p)
Swept(base, n)      == FoldLeft(LAMBDA m, i : CollectOne(m), base, [i \in 1..n |-> i])
ReachedIn(base, e, n) ==
    FoldLeft(LAMBDA T, i : T \cup Referrers(e, T), base, [i \in 1..n |-> i])
Unlinked(base, id, S) ==
    FoldSet(LAMBDA r, e : RemoveReference(e, "inbound", r.id, [id |-> id, path |-> r.path]), base, S)
Repointed(base, S) ==
    FoldSet(LAMBDA x, d : RebuildValue(d, x.from.id, x.from.path, [to |-> x.to, fresh |-> TRUE]), base, S)
CutAll(g, s, base, S) == FoldSet(LAMBDA r, at : CutReference(g, s, at, r), base, S)
PutAll(s, n, base, S) == FoldSet(LAMBDA r, at : RestoreReference(s, n, at, r), base, S)

Turn(fold, a, x, y) ==
    CASE fold = "walk"    -> Walk(x, y)
      [] fold = "edit"    -> MergeReferenceEdit(x, y)
      [] fold = "collect" -> CollectOne(x)
      [] fold = "unlink"  -> RemoveReference(x, "inbound", y.id, [id |-> a, path |-> y.path])
      [] fold = "reach"   -> x \cup Referrers(a, x)
      [] fold = "rebuild" -> RebuildValue(x, y.from.id, y.from.path, [to |-> y.to, fresh |-> TRUE])
      [] fold = "cut"     -> CutReference(a[1], a[2], x, y)
      [] fold = "put"     -> RestoreReference(a[1], a[2], x, y)

\* c chooses the element of each set that comes last.
Chooses(c, S) == \A s \in SUBSET S : s # {} => c[s] \in s

\* The result of folding each subset of S.
IsFold(h, S, c, v, base, fold, a) ==
    h = [s \in SUBSET S |->
           IF s = {} THEN base ELSE Turn(fold, a, h[s \ {c[s]}], v[c[s]])]

\* There is such a function, so the ones that the folds choose are that.
LEMMA FoldDefined ==
    ASSUME NEW S, IsFiniteSet(S), NEW c, Chooses(c, S), NEW v, NEW base, NEW fold, NEW a
    PROVE  \E h : IsFold(h, S, c, v, base, fold, a)
<1> DEFINE Step(h, s) == IF s = {} THEN base ELSE Turn(fold, a, h[s \ {c[s]}], v[c[s]])
           Small(k) == {s \in SUBSET S : Cardinality(s) <= k}
           T == {k \in Nat : \E h : h = [s \in Small(k) |-> Step(h, s)]}
<1>1. 0 \in T
  <2>1. Small(0) = {{}}
    BY Parts
  <2>2. [s \in Small(0) |-> base] = [s \in Small(0) |-> Step([s2 \in Small(0) |-> base], s)]
    BY <2>1
  <2>3. QED BY <2>2
<1>2. ASSUME NEW k \in Nat \ {0}, k - 1 \in T PROVE k \in T
  <2>1. PICK h : h = [s \in Small(k - 1) |-> Step(h, s)]
    BY <1>2
  <2> DEFINE d == [s \in Small(k) |-> Step(h, s)]
  <2>2. ASSUME NEW s \in Small(k), s # {} PROVE s \ {c[s]} \in Small(k - 1)
    <3>1. s \in SUBSET S /\ c[s] \in s
      BY <2>2 DEF Chooses
    <3>2. Cardinality(s) \in Nat /\ Cardinality(s \ {c[s]}) = Cardinality(s) - 1
      BY <3>1, Parts
    <3>3. Cardinality(s) <= k
      BY <2>2
    <3>4. Cardinality(s \ {c[s]}) <= k - 1
      BY <3>2, <3>3
    <3>5. QED BY <3>1, <3>4
  <2>3. ASSUME NEW s \in Small(k - 1) PROVE s \in Small(k) /\ d[s] = h[s]
    <3>1. s \in Small(k)
      <4>1. Cardinality(s) \in Nat
        BY Parts
      <4>2. QED BY <4>1
    <3>2. h[s] = Step(h, s)
      BY <2>1
    <3>3. QED BY <3>1, <3>2
  <2>4. \A s \in Small(k) : Step(h, s) = Step(d, s)
    BY <2>2, <2>3
  <2>5. d = [s \in Small(k) |-> Step(d, s)]
    BY <2>4
  <2>6. QED BY <2>5
<1>3. Cardinality(S) \in T
  <2>1. Cardinality(S) \in Nat
    BY FS_CardinalityType
  <2> HIDE DEF T
  <2>2. QED BY <1>1, <1>2, <2>1, AllNaturals
<1>4. Small(Cardinality(S)) = SUBSET S
  BY Parts
<1>5. QED BY <1>3, <1>4 DEF IsFold

TakesLast(c, n) == c = [s \in SUBSET (1..n) |-> Max(s)]

\* A sequence is folded step by step.
LEMMA FoldSteps ==
    ASSUME NEW n \in Nat, NEW c, TakesLast(c, n),
           NEW h, NEW v, NEW base, NEW fold, NEW a, IsFold(h, 1..n, c, v, base, fold, a)
    PROVE  \E g : /\ g[0] = base
                  /\ \A k \in 1..n : g[k] = Turn(fold, a, g[k - 1], v[k])
                  /\ h[1..n] = g[n]
<1> DEFINE g == [k \in 0..n |-> h[1..k]]
<1>1. g[0] = base
  <2>1. 1..0 = {} /\ 0 \in 0..n
    OBVIOUS
  <2>2. h[{}] = base
    BY DEF IsFold
  <2>3. QED BY <2>1, <2>2
<1>2. \A k \in 1..n : g[k] = Turn(fold, a, g[k - 1], v[k])
  <2> TAKE k \in 1..n
  <2>1. 1..k \in SUBSET (1..n) /\ 1..k # {} /\ k \in 0..n /\ k - 1 \in 0..n
    <3>1. k \in Nat /\ k >= 1 /\ k <= n
      OBVIOUS
    <3>2. k \in 1..k /\ \A i \in 1..k : i \in 1..n
      BY <3>1
    <3>3. k \in 0..n /\ k - 1 \in 0..n
      BY <3>1
    <3>4. QED BY <3>2, <3>3
  <2>2. c[1..k] = k /\ (1..k) \ {k} = 1..(k - 1)
    BY <2>1, LastOf DEF TakesLast
  <2>3. h[1..k] = Turn(fold, a, h[(1..k) \ {k}], v[k])
    BY <2>1, <2>2 DEF IsFold
  <2>4. QED BY <2>1, <2>2, <2>3
<1>3. h[1..n] = g[n]
  OBVIOUS
<1> HIDE DEF g
<1>4. QED BY <1>1, <1>2, <1>3

\* Taking the last of the positions that are left is a way to choose.
LEMMA LastChosen ==
    ASSUME NEW n \in Nat
    PROVE  IsFiniteSet(1..n) /\ Chooses([s \in SUBSET (1..n) |-> Max(s)], 1..n)
BY LastOf, Segment DEF Chooses

\* The walk of a payload.
LEMMA WalkSteps ==
    ASSUME NEW base, NEW p, NEW n \in Nat, DOMAIN p = 1..n
    PROVE  \E g : /\ g[0] = base
                  /\ \A k \in 1..n : g[k] = Walk(g[k - 1], p[k])
                  /\ Walked(base, p) = g[n]
<1> DEFINE S == 1..n
           c == [s \in SUBSET S |-> Max(s)]
           v == p
           H == CHOOSE h : h = [s \in SUBSET S |->
                  IF s = {} THEN base ELSE Walk(h[s \ {Max(s)}], v[Max(s)])]
<1>1. FoldLeft(Walk, base, v) = H[S]
  BY DEF FoldLeft, MapThenFoldSet
<1>2. \A h : IsFold(h, S, c, v, base, "walk", 0) <=>
               h = [s \in SUBSET S |->
                  IF s = {} THEN base ELSE Walk(h[s \ {Max(s)}], v[Max(s)])]
  BY DEF IsFold, Turn
<1>3. IsFold(H, S, c, v, base, "walk", 0)
  BY <1>2, FoldDefined, LastChosen
<1> HIDE DEF H
<1>4. TakesLast(c, n)
  BY DEF TakesLast
<1>5. IsFold(H, 1..n, c, v, base, "walk", 0)
  BY <1>3
<1> HIDE DEF c, v, S
<1>6. PICK g : /\ g[0] = base
               /\ \A k \in 1..n : g[k] = Turn("walk", 0, g[k - 1], v[k])
               /\ H[1..n] = g[n]
  BY <1>4, <1>5, FoldSteps
<1> USE DEF v, S
<1>7. QED BY <1>1, <1>6 DEF Turn, Walked

\* The reference edits of a payload.
LEMMA EditSteps ==
    ASSUME NEW base, NEW p, NEW n \in Nat, DOMAIN p = 1..n
    PROVE  \E g : /\ g[0] = base
                  /\ \A k \in 1..n : g[k] = MergeReferenceEdit(g[k - 1], p[k])
                  /\ EditsDone(base, p) = g[n]
<1> DEFINE S == 1..n
           c == [s \in SUBSET S |-> Max(s)]
           v == p
           H == CHOOSE h : h = [s \in SUBSET S |->
                  IF s = {} THEN base ELSE MergeReferenceEdit(h[s \ {Max(s)}], v[Max(s)])]
<1>1. FoldLeft(MergeReferenceEdit, base, v) = H[S]
  BY DEF FoldLeft, MapThenFoldSet
<1>2. \A h : IsFold(h, S, c, v, base, "edit", 0) <=>
               h = [s \in SUBSET S |->
                  IF s = {} THEN base ELSE MergeReferenceEdit(h[s \ {Max(s)}], v[Max(s)])]
  BY DEF IsFold, Turn
<1>3. IsFold(H, S, c, v, base, "edit", 0)
  BY <1>2, FoldDefined, LastChosen
<1> HIDE DEF H
<1>4. TakesLast(c, n)
  BY DEF TakesLast
<1>5. IsFold(H, 1..n, c, v, base, "edit", 0)
  BY <1>3
<1> HIDE DEF c, v, S
<1>6. PICK g : /\ g[0] = base
               /\ \A k \in 1..n : g[k] = Turn("edit", 0, g[k - 1], v[k])
               /\ H[1..n] = g[n]
  BY <1>4, <1>5, FoldSteps
<1> USE DEF v, S
<1>7. QED BY <1>1, <1>6 DEF Turn, EditsDone

\* The rounds of garbage collection.
LEMMA CollectSteps ==
    ASSUME NEW base, NEW n \in Nat
    PROVE  \E g : /\ g[0] = base
                  /\ \A k \in 1..n : g[k] = CollectOne(g[k - 1])
                  /\ Swept(base, n) = g[n]
<1> DEFINE S == 1..n
           c == [s \in SUBSET S |-> Max(s)]
           v == [i \in 1..n |-> i]
           H == CHOOSE h : h = [s \in SUBSET S |->
                  IF s = {} THEN base ELSE CollectOne(h[s \ {Max(s)}])]
<1>1. FoldLeft(LAMBDA m, i : CollectOne(m), base, v) = H[S]
  BY DEF FoldLeft, MapThenFoldSet
<1>2. \A h : IsFold(h, S, c, v, base, "collect", 0) <=>
               h = [s \in SUBSET S |->
                  IF s = {} THEN base ELSE CollectOne(h[s \ {Max(s)}])]
  BY DEF IsFold, Turn
<1>3. IsFold(H, S, c, v, base, "collect", 0)
  BY <1>2, FoldDefined, LastChosen
<1> HIDE DEF H
<1>4. TakesLast(c, n)
  BY DEF TakesLast
<1>5. IsFold(H, 1..n, c, v, base, "collect", 0)
  BY <1>3
<1> HIDE DEF c, v, S
<1>6. PICK g : /\ g[0] = base
               /\ \A k \in 1..n : g[k] = Turn("collect", 0, g[k - 1], v[k])
               /\ H[1..n] = g[n]
  BY <1>4, <1>5, FoldSteps
<1> USE DEF v, S
<1>7. QED BY <1>1, <1>6 DEF Turn, Swept

\* The rounds in which the referrers of edited nodes are found.
LEMMA ReachSteps ==
    ASSUME NEW base, NEW e, NEW n \in Nat
    PROVE  \E g : /\ g[0] = base
                  /\ \A k \in 1..n : g[k] = g[k - 1] \cup Referrers(e, g[k - 1])
                  /\ ReachedIn(base, e, n) = g[n]
<1> DEFINE S == 1..n
           c == [s \in SUBSET S |-> Max(s)]
           v == [i \in 1..n |-> i]
           H == CHOOSE h : h = [s \in SUBSET S |->
                  IF s = {} THEN base ELSE h[s \ {Max(s)}] \cup Referrers(e, h[s \ {Max(s)}])]
<1>1. FoldLeft(LAMBDA T, i : T \cup Referrers(e, T), base, v) = H[S]
  BY DEF FoldLeft, MapThenFoldSet
<1>2. \A h : IsFold(h, S, c, v, base, "reach", e) <=>
               h = [s \in SUBSET S |->
                  IF s = {} THEN base ELSE h[s \ {Max(s)}] \cup Referrers(e, h[s \ {Max(s)}])]
  BY DEF IsFold, Turn
<1>3. IsFold(H, S, c, v, base, "reach", e)
  BY <1>2, FoldDefined, LastChosen
<1> HIDE DEF H
<1>4. TakesLast(c, n)
  BY DEF TakesLast
<1>5. IsFold(H, 1..n, c, v, base, "reach", e)
  BY <1>3
<1> HIDE DEF c, v, S
<1>6. PICK g : /\ g[0] = base
               /\ \A k \in 1..n : g[k] = Turn("reach", e, g[k - 1], v[k])
               /\ H[1..n] = g[n]
  BY <1>4, <1>5, FoldSteps
<1> USE DEF v, S
<1>7. QED BY <1>1, <1>6 DEF Turn, ReachedIn

\* What a collected node refers to is told so.
Unlinks(h, base, id, S) ==
    /\ h[{}] = base
    /\ \A s \in SUBSET S : s # {} =>
          \E x \in s : h[s] = RemoveReference(h[s \ {x}], "inbound", x.id, [id |-> id, path |-> x.path])

\* Removing the references to a node is one removal after the other, in some order.
LEMMA UnlinkSteps ==
    ASSUME NEW base, NEW id, NEW S, IsFiniteSet(S)
    PROVE  \E h : Unlinks(h, base, id, S) /\ Unlinked(base, id, S) = h[S]
<1> DEFINE c == [s \in SUBSET S |-> CHOOSE x \in s : TRUE]
           v == [x \in S |-> x]
           last(s) == CHOOSE x \in s : TRUE
           H == CHOOSE h : h = [s \in SUBSET S |->
                  IF s = {} THEN base
                  ELSE RemoveReference(h[s \ {last(s)}], "inbound", last(s).id, [id |-> id, path |-> last(s).path])]
<1>1. FoldSet(LAMBDA r, e : RemoveReference(e, "inbound", r.id, [id |-> id, path |-> r.path]),
              base, S) = H[S]
  BY DEF FoldSet, MapThenFoldSet
<1>2. Chooses(c, S)
  BY DEF Chooses
<1>3. \A h : IsFold(h, S, c, v, base, "unlink", id) <=>
               h = [s \in SUBSET S |->
                  IF s = {} THEN base
                  ELSE RemoveReference(h[s \ {last(s)}], "inbound", last(s).id, [id |-> id, path |-> last(s).path])]
  BY ZenonT(30) DEF IsFold, Turn
<1>4. IsFold(H, S, c, v, base, "unlink", id)
  <2>1. PICK x : IsFold(x, S, c, v, base, "unlink", id)
    <3> HIDE DEF c, v
    <3>1. QED BY <1>2, FoldDefined
  <2>2. \E h : h = [s \in SUBSET S |->
                  IF s = {} THEN base
                  ELSE RemoveReference(h[s \ {last(s)}], "inbound", last(s).id, [id |-> id, path |-> last(s).path])]
    <3> HIDE DEF c, v, last
    <3>1. QED BY <1>3, <2>1
  <2>3. H = [s \in SUBSET S |->
                  IF s = {} THEN base
                  ELSE RemoveReference(H[s \ {last(s)}], "inbound", last(s).id, [id |-> id, path |-> last(s).path])]
    BY <2>2
  <2> HIDE DEF H
  <2>4. QED BY <1>3, <2>3
<1> HIDE DEF H
<1>5. ASSUME NEW s \in SUBSET S, s # {}
      PROVE  c[s] \in s /\ v[c[s]] = c[s] /\ H[s] = Turn("unlink", id, H[s \ {c[s]}], v[c[s]])
  <2> HIDE DEF c
  <2>1. c[s] \in s
    BY <1>2, <1>5 DEF Chooses
  <2>2. H[s] = Turn("unlink", id, H[s \ {c[s]}], v[c[s]])
    BY <1>4, <1>5 DEF IsFold
  <2>3. QED BY <2>1, <2>2
<1>6. H[{}] = base
  BY <1>4 DEF IsFold
<1> HIDE DEF c, v
<1>7. Unlinks(H, base, id, S)
  BY <1>5, <1>6 DEF Turn, Unlinks
<1>8. QED BY <1>1, <1>7 DEF Unlinked

\* References are pointed to new data.
Repoints(h, base, S) ==
    /\ h[{}] = base
    /\ \A s \in SUBSET S : s # {} =>
          \E x \in s : h[s] = RebuildValue(h[s \ {x}], x.from.id, x.from.path, [to |-> x.to, fresh |-> TRUE])

\* Repointing the referrers is one write after the other, in some order.
LEMMA RebuildSteps ==
    ASSUME NEW base, NEW S, IsFiniteSet(S)
    PROVE  \E h : Repoints(h, base, S) /\ Repointed(base, S) = h[S]
<1> DEFINE c == [s \in SUBSET S |-> CHOOSE x \in s : TRUE]
           v == [x \in S |-> x]
           last(s) == CHOOSE x \in s : TRUE
           H == CHOOSE h : h = [s \in SUBSET S |->
                  IF s = {} THEN base
                  ELSE RebuildValue(h[s \ {last(s)}], last(s).from.id, last(s).from.path, [to |-> last(s).to, fresh |-> TRUE])]
<1>1. FoldSet(LAMBDA x, d : RebuildValue(d, x.from.id, x.from.path, [to |-> x.to, fresh |-> TRUE]),
              base, S) = H[S]
  BY DEF FoldSet, MapThenFoldSet
<1>2. Chooses(c, S)
  BY DEF Chooses
<1>3. \A h : IsFold(h, S, c, v, base, "rebuild", 0) <=>
               h = [s \in SUBSET S |->
                  IF s = {} THEN base
                  ELSE RebuildValue(h[s \ {last(s)}], last(s).from.id, last(s).from.path, [to |-> last(s).to, fresh |-> TRUE])]
  BY ZenonT(30) DEF IsFold, Turn
<1>4. IsFold(H, S, c, v, base, "rebuild", 0)
  <2>1. PICK x : IsFold(x, S, c, v, base, "rebuild", 0)
    <3> HIDE DEF c, v
    <3>1. QED BY <1>2, FoldDefined
  <2>2. \E h : h = [s \in SUBSET S |->
                  IF s = {} THEN base
                  ELSE RebuildValue(h[s \ {last(s)}], last(s).from.id, last(s).from.path, [to |-> last(s).to, fresh |-> TRUE])]
    <3> HIDE DEF c, v, last
    <3>1. QED BY <1>3, <2>1
  <2>3. H = [s \in SUBSET S |->
                  IF s = {} THEN base
                  ELSE RebuildValue(H[s \ {last(s)}], last(s).from.id, last(s).from.path, [to |-> last(s).to, fresh |-> TRUE])]
    BY <2>2
  <2> HIDE DEF H
  <2>4. QED BY <1>3, <2>3
<1> HIDE DEF H
<1>5. ASSUME NEW s \in SUBSET S, s # {}
      PROVE  c[s] \in s /\ v[c[s]] = c[s] /\ H[s] = Turn("rebuild", 0, H[s \ {c[s]}], v[c[s]])
  <2> HIDE DEF c
  <2>1. c[s] \in s
    BY <1>2, <1>5 DEF Chooses
  <2>2. H[s] = Turn("rebuild", 0, H[s \ {c[s]}], v[c[s]])
    BY <1>4, <1>5 DEF IsFold
  <2>3. QED BY <2>1, <2>2
<1>6. H[{}] = base
  BY <1>4 DEF IsFold
<1> HIDE DEF c, v
<1>7. Repoints(H, base, S)
  BY <1>5, <1>6 DEF Turn, Repoints
<1>8. QED BY <1>1, <1>7 DEF Repointed

-----------------------------------------------------------------------------
(* What the helpers of the editor do, on the view of its nodes.            *)

\* What a node starts as is a node snapshot.
LEMMA NewTyped == NewSnapshot \in NodeSnapshot /\ NewSnapshot # Absent
<1>1. NewSnapshot \in NodeSnapshot
  BY DEF NewSnapshot, NodeSnapshot, NoData
<1>2. QED BY <1>1, AbsentAssumption

\* The view of the nodes is total, and is the nodes themselves where they are present.
LEMMA ViewTyped ==
    ASSUME NEW nodes \in [Node -> NodeSnapshot \cup {Absent}]
    PROVE  /\ View(nodes) \in [Node -> NodeSnapshot]
           /\ \A n \in Present(nodes) : nodes[n] = View(nodes)[n] /\ n \in Node
           /\ \A n \in Node \ Present(nodes) : View(nodes)[n] = NewSnapshot
BY NewTyped, AbsentAssumption DEF View, Present

\* d is e with the view V of its nodes, with nodes that are new versions and
\* with nodes that are edited.
Moved(e, d, V, ids, edits) ==
    /\ d \in Editor /\ ~d.failed
    /\ View(d.nodes) = V
    /\ Present(d.nodes) = Present(e.nodes) \cup ids
    /\ d.made = e.made \cup ids
    /\ d.edited = e.edited \cup edits
    /\ d.merged = e.merged
    /\ (ids \ Present(e.nodes)) \cap e.made = {}

\* Two moves are one move.
LEMMA MovedTwice ==
    ASSUME NEW e, NEW d, NEW f, NEW V, NEW W, NEW i, NEW j, NEW x, NEW y,
           Moved(e, d, V, i, x), Moved(d, f, W, j, y)
    PROVE  Moved(e, f, W, i \cup j, x \cup y)
BY DEF Moved

\* A new version of a node differs from the old one in no data.
LEMMA Ensured ==
    ASSUME NEW e \in Editor, NEW id \in Node, ~EnsureNewSnapshot(e, id).failed
    PROVE  /\ ~e.failed
           /\ Moved(e, EnsureNewSnapshot(e, id), View(e.nodes), {id}, {})
           /\ EnsureNewSnapshot(e, id).nodes
                = [e.nodes EXCEPT ![id] = View(e.nodes)[id]]
<1> DEFINE d == EnsureNewSnapshot(e, id)
<1>1. ~e.failed /\ ~(id \in e.made /\ e.nodes[id] = Absent)
  BY DEF EnsureNewSnapshot, Editor
<1>2. d = [e EXCEPT !.made = @ \cup {id}, !.nodes[id] = IF @ = Absent THEN NewSnapshot ELSE @]
  BY <1>1 DEF EnsureNewSnapshot
<1>3. e.nodes \in [Node -> NodeSnapshot \cup {Absent}] /\ e.made \in SUBSET Node
  BY DEF Editor
<1>4. /\ d.nodes = [e.nodes EXCEPT ![id] = View(e.nodes)[id]]
      /\ d.made = e.made \cup {id} /\ d.edited = e.edited /\ d.merged = e.merged
      /\ d.failed = e.failed
  BY <1>2, <1>3 DEF View, Editor
<1>5. d \in Editor
  <2>1. d.nodes \in [Node -> NodeSnapshot \cup {Absent}]
    BY <1>3, <1>4, ViewTyped
  <2>2. QED BY <1>2, <1>3, <1>4, <2>1 DEF Editor
<1>6. View(d.nodes) = View(e.nodes) /\ Present(d.nodes) = Present(e.nodes) \cup {id}
  BY <1>3, <1>4, NewTyped, AbsentAssumption DEF View, Present
<1>7. ({id} \ Present(e.nodes)) \cap e.made = {}
  BY <1>1 DEF Present
<1>8. QED BY <1>1, <1>4, <1>5, <1>6, <1>7 DEF Moved

\* A node that there is a new version of gets another snapshot.
LEMMA Replaced ==
    ASSUME NEW e \in Editor, NEW id \in Node, NEW s \in NodeSnapshot,
           ~EnsureNewSnapshot(e, id).failed
    PROVE  Moved(e, [EnsureNewSnapshot(e, id) EXCEPT !.nodes[id] = s],
                 [View(e.nodes) EXCEPT ![id] = s], {id}, {})
<1> DEFINE d == EnsureNewSnapshot(e, id)
           f == [d EXCEPT !.nodes[id] = s]
<1>1. /\ Moved(e, d, View(e.nodes), {id}, {})
      /\ d.nodes = [e.nodes EXCEPT ![id] = View(e.nodes)[id]]
  BY Ensured
<1> HIDE DEF d
<1>2. /\ e.nodes \in [Node -> NodeSnapshot \cup {Absent}]
      /\ d.nodes \in [Node -> NodeSnapshot \cup {Absent}] /\ d \in Editor
  BY <1>1 DEF Editor, Moved
<1>3. /\ f.nodes = [d.nodes EXCEPT ![id] = s]
      /\ f.made = d.made /\ f.edited = d.edited /\ f.merged = d.merged /\ f.failed = d.failed
  BY <1>2 DEF Editor
<1>4. f \in Editor
  BY <1>2, <1>3 DEF Editor
<1>5. View(f.nodes) = [View(e.nodes) EXCEPT ![id] = s] /\ Present(f.nodes) = Present(d.nodes)
  <2>1. id \in Present(d.nodes)
    BY <1>1 DEF Moved
  <2>2. View(f.nodes) = [View(d.nodes) EXCEPT ![id] = s]
    BY <1>2, <1>3, AbsentAssumption, ZenonT(30) DEF View
  <2>3. Present(f.nodes) = Present(d.nodes)
    BY <1>2, <1>3, <2>1, AbsentAssumption DEF Present
  <2>4. QED BY <1>1, <2>2, <2>3 DEF Moved
<1>6. Moved(e, f, [View(e.nodes) EXCEPT ![id] = s], {id}, {})
  BY <1>1, <1>3, <1>4, <1>5 DEF Moved
<1>7. QED BY <1>6 DEF d

\* The node id of V with other data, and with references added and removed.
WithData(V, id, at)  == [V EXCEPT ![id] = [@ EXCEPT !.at = at, !.fresh = TRUE]]
WithLeaf(V, id, v)   == [V EXCEPT ![id] = [@ EXCEPT !.leaf = v, !.fresh = TRUE]]
WithIn(V, id, refs)  == [V EXCEPT ![id] = [@ EXCEPT !.inbound = refs]]
WithOut(V, id, refs) == [V EXCEPT ![id] = [@ EXCEPT !.outbound = refs]]

\* The values that a path can have, and references of one node.
Value == Pointer \cup {Missing, Null, Here}

\* Changing a part of a node leaves a node snapshot.
LEMMA WithTyped ==
    ASSUME NEW V \in [Node -> NodeSnapshot], NEW id \in Node
    PROVE  /\ \A at \in [Path -> Value] : WithData(V, id, at) \in [Node -> NodeSnapshot]
           /\ \A v \in Scalar : WithLeaf(V, id, v) \in [Node -> NodeSnapshot]
           /\ \A refs \in SUBSET Reference : WithIn(V, id, refs) \in [Node -> NodeSnapshot]
           /\ \A refs \in SUBSET Reference : WithOut(V, id, refs) \in [Node -> NodeSnapshot]
BY ZenonT(30) DEF WithData, WithLeaf, WithIn, WithOut, NodeSnapshot, Value

\* Writing the data of a node moves only that node.
LEMMA SetDataMoves ==
    ASSUME NEW e \in Editor, NEW id \in Node, NEW at \in [Path -> Value],
           ~SetData(e, id, at).failed
    PROVE  ~e.failed /\ Moved(e, SetData(e, id, at), WithData(View(e.nodes), id, at), {id}, {})
<1> DEFINE new == EnsureNewSnapshot(e, id)
           s == [View(e.nodes)[id] EXCEPT !.at = at, !.fresh = TRUE]
<1>1. ~new.failed
  BY DEF SetData
<1>2. ~e.failed /\ new.nodes = [e.nodes EXCEPT ![id] = View(e.nodes)[id]] /\ new \in Editor
  BY <1>1, Ensured DEF Moved
<1>3. e.nodes \in [Node -> NodeSnapshot \cup {Absent}] /\ View(e.nodes) \in [Node -> NodeSnapshot]
  BY ViewTyped DEF Editor
<1>4. s \in NodeSnapshot
  BY <1>3 DEF NodeSnapshot, Value
<1>5. Moved(e, [new EXCEPT !.nodes[id] = s], [View(e.nodes) EXCEPT ![id] = s], {id}, {})
  BY <1>1, <1>4, Replaced
<1>6. SetData(e, id, at) = [new EXCEPT !.nodes[id] = s]
  <2> HIDE DEF new
  <2>1. new.nodes[id] = View(e.nodes)[id]
    BY <1>2, <1>3
  <2>2. [new EXCEPT !.nodes[id].at = at, !.nodes[id].fresh = TRUE] = [new EXCEPT !.nodes[id] = s]
    BY <1>2, <1>3, <2>1 DEF Editor
  <2>3. QED BY <1>1, <2>2 DEF SetData, new
<1>7. WithData(View(e.nodes), id, at) = [View(e.nodes) EXCEPT ![id] = s]
  BY <1>3 DEF WithData
<1>8. QED BY <1>2, <1>5, <1>6, <1>7

\* Removing a reference moves only the node it is removed from.
LEMMA RemoveReferenceMoves ==
    ASSUME NEW e \in Editor, NEW id \in Node, NEW ref
    PROVE  /\ ~RemoveReference(e, "inbound", id, ref).failed =>
                /\ ~e.failed
                /\ Moved(e, RemoveReference(e, "inbound", id, ref),
                         WithIn(View(e.nodes), id, View(e.nodes)[id].inbound \ {ref}), {id}, {})
           /\ ~RemoveReference(e, "outbound", id, ref).failed =>
                /\ ~e.failed
                /\ Moved(e, RemoveReference(e, "outbound", id, ref),
                         WithOut(View(e.nodes), id, View(e.nodes)[id].outbound \ {ref}), {id}, {})
<1> DEFINE new == EnsureNewSnapshot(e, id)
           s == [View(e.nodes)[id] EXCEPT !.inbound = @ \ {ref}]
           t == [View(e.nodes)[id] EXCEPT !.outbound = @ \ {ref}]
<1>0. SUFFICES ASSUME ~new.failed
      PROVE  /\ ~e.failed
             /\ Moved(e, [new EXCEPT !.nodes[id]["inbound"] = @ \ {ref}],
                         WithIn(View(e.nodes), id, View(e.nodes)[id].inbound \ {ref}), {id}, {})
             /\ Moved(e, [new EXCEPT !.nodes[id]["outbound"] = @ \ {ref}],
                         WithOut(View(e.nodes), id, View(e.nodes)[id].outbound \ {ref}), {id}, {})
  BY DEF RemoveReference
<1>2. ~e.failed /\ new.nodes = [e.nodes EXCEPT ![id] = View(e.nodes)[id]] /\ new \in Editor
  BY <1>0, Ensured DEF Moved
<1>3. e.nodes \in [Node -> NodeSnapshot \cup {Absent}] /\ View(e.nodes) \in [Node -> NodeSnapshot]
  BY ViewTyped DEF Editor
<1>4. s \in NodeSnapshot /\ t \in NodeSnapshot
  BY <1>3 DEF NodeSnapshot
<1>5. /\ Moved(e, [new EXCEPT !.nodes[id] = s], [View(e.nodes) EXCEPT ![id] = s], {id}, {})
      /\ Moved(e, [new EXCEPT !.nodes[id] = t], [View(e.nodes) EXCEPT ![id] = t], {id}, {})
  BY <1>0, <1>4, Replaced
<1>6. /\ [new EXCEPT !.nodes[id]["inbound"] = @ \ {ref}] = [new EXCEPT !.nodes[id] = s]
      /\ [new EXCEPT !.nodes[id]["outbound"] = @ \ {ref}] = [new EXCEPT !.nodes[id] = t]
  <2> HIDE DEF new
  <2>1. new.nodes[id] = View(e.nodes)[id]
    BY <1>2, <1>3
  <2>2. QED BY <1>2, <1>3, <2>1 DEF Editor
<1>7. /\ WithIn(View(e.nodes), id, View(e.nodes)[id].inbound \ {ref}) = [View(e.nodes) EXCEPT ![id] = s]
      /\ WithOut(View(e.nodes), id, View(e.nodes)[id].outbound \ {ref}) = [View(e.nodes) EXCEPT ![id] = t]
  BY <1>3 DEF WithIn, WithOut
<1>8. QED BY <1>2, <1>5, <1>6, <1>7

\* Adding a reference moves only the node it is added to.
LEMMA AddReferenceMoves ==
    ASSUME NEW e \in Editor, NEW id \in Node, NEW ref \in Reference
    PROVE  /\ ~AddReference(e, "inbound", id, ref).failed =>
                /\ ~e.failed
                /\ Moved(e, AddReference(e, "inbound", id, ref),
                         WithIn(View(e.nodes), id, View(e.nodes)[id].inbound \cup {ref}), {id}, {})
           /\ ~AddReference(e, "outbound", id, ref).failed =>
                /\ ~e.failed
                /\ Moved(e, AddReference(e, "outbound", id, ref),
                         WithOut(View(e.nodes), id, View(e.nodes)[id].outbound \cup {ref}), {id}, {})
<1> DEFINE new == EnsureNewSnapshot(e, id)
           s == [View(e.nodes)[id] EXCEPT !.inbound = @ \cup {ref}]
           t == [View(e.nodes)[id] EXCEPT !.outbound = @ \cup {ref}]
<1>0. SUFFICES ASSUME ~new.failed
      PROVE  /\ ~e.failed
             /\ Moved(e, [new EXCEPT !.nodes[id]["inbound"] = @ \cup {ref}],
                         WithIn(View(e.nodes), id, View(e.nodes)[id].inbound \cup {ref}), {id}, {})
             /\ Moved(e, [new EXCEPT !.nodes[id]["outbound"] = @ \cup {ref}],
                         WithOut(View(e.nodes), id, View(e.nodes)[id].outbound \cup {ref}), {id}, {})
  BY DEF AddReference
<1>2. ~e.failed /\ new.nodes = [e.nodes EXCEPT ![id] = View(e.nodes)[id]] /\ new \in Editor
  BY <1>0, Ensured DEF Moved
<1>3. e.nodes \in [Node -> NodeSnapshot \cup {Absent}] /\ View(e.nodes) \in [Node -> NodeSnapshot]
  BY ViewTyped DEF Editor
<1>4. s \in NodeSnapshot /\ t \in NodeSnapshot
  BY <1>3 DEF NodeSnapshot
<1>5. /\ Moved(e, [new EXCEPT !.nodes[id] = s], [View(e.nodes) EXCEPT ![id] = s], {id}, {})
      /\ Moved(e, [new EXCEPT !.nodes[id] = t], [View(e.nodes) EXCEPT ![id] = t], {id}, {})
  BY <1>0, <1>4, Replaced
<1>6. /\ [new EXCEPT !.nodes[id]["inbound"] = @ \cup {ref}] = [new EXCEPT !.nodes[id] = s]
      /\ [new EXCEPT !.nodes[id]["outbound"] = @ \cup {ref}] = [new EXCEPT !.nodes[id] = t]
  <2> HIDE DEF new
  <2>1. new.nodes[id] = View(e.nodes)[id]
    BY <1>2, <1>3
  <2>2. QED BY <1>2, <1>3, <2>1 DEF Editor
<1>7. /\ WithIn(View(e.nodes), id, View(e.nodes)[id].inbound \cup {ref}) = [View(e.nodes) EXCEPT ![id] = s]
      /\ WithOut(View(e.nodes), id, View(e.nodes)[id].outbound \cup {ref}) = [View(e.nodes) EXCEPT ![id] = t]
  BY <1>3 DEF WithIn, WithOut
<1>8. QED BY <1>2, <1>5, <1>6, <1>7

\* An edit of data moves only its node, and marks it as edited.
LEMMA EditMoves ==
    ASSUME NEW e \in Editor, NEW id \in Node, NEW at \in [Path -> Value],
           ~Edit(e, id, at).failed
    PROVE  ~e.failed /\ Moved(e, Edit(e, id, at), WithData(View(e.nodes), id, at), {id}, {id})
<1> DEFINE d == [e EXCEPT !.edited = @ \cup {id}]
<1>1. /\ d \in Editor /\ d.nodes = e.nodes /\ d.made = e.made /\ d.merged = e.merged
      /\ d.failed = e.failed /\ d.edited = e.edited \cup {id}
  BY DEF Editor
<1>2. ~SetData(d, id, at).failed
  BY DEF Edit
<1> HIDE DEF d
<1>3. ~d.failed /\ Moved(d, SetData(d, id, at), WithData(View(d.nodes), id, at), {id}, {})
  BY <1>1, <1>2, SetDataMoves
<1>4. Moved(e, SetData(d, id, at), WithData(View(e.nodes), id, at), {id}, {id})
  BY <1>1, <1>3 DEF Moved
<1>5. QED BY <1>1, <1>3, <1>4 DEF Edit, d

\* The data the walk reads is that of the view.
LEMMA DataOf ==
    ASSUME NEW e \in Editor, NEW id \in Node
    PROVE  NodeData(e, id) = View(e.nodes)[id].at /\ NodeData(e, id) \in [Path -> Value]
BY ViewTyped DEF NodeData, View, Editor, NewSnapshot, NodeSnapshot, Value

-----------------------------------------------------------------------------
(* Locations: what is where in the data.                                   *)

\* What an instruction of a payload carries.
LEMMA InstructionTyped ==
    ASSUME NEW p \in Payload, NEW j \in DOMAIN p
    PROVE  /\ p[j] \in Instructions
           /\ p[j].op = "leaf" => p[j].node \in Node /\ p[j].value \in Scalar
           /\ p[j].op = "ref" => p[j].node \in Node /\ p[j].path \in Path
                                 /\ p[j].target \in Entity \cup {Null}
           /\ p[j].op = "list" => p[j].node \in Node /\ p[j].path \in Path /\ p[j].length \in Nat
           /\ p[j].op = "param" => p[j].node \in Param
           /\ p[j].op = "fragment" => p[j].node \in Entity /\ p[j].named \in BOOLEAN
           /\ p[j].op \in {"leaf", "ref", "list", "param", "fragment"}
<1>1. p[j] \in Instruction
  BY PayloadAssumption
<1>2. p[j] \in Instructions
  BY DEF Instructions
<1>3. QED BY <1>1, <1>2 DEF Instruction

\* References and lists of a payload are at locations for references and lists.
LEMMA LocationTyped ==
    /\ RefLocations \subseteq Reference /\ ListLocations \subseteq Reference
    /\ \A p \in Payload : \A j \in DOMAIN p :
          /\ p[j].op = "ref" => [id |-> p[j].node, path |-> p[j].path] \in RefLocations
          /\ p[j].op = "list" => [id |-> p[j].node, path |-> p[j].path] \in ListLocations
<1>1. \A i \in Instructions : i.op \in {"ref", "list"} => i.node \in Node /\ i.path \in Path
  <2> TAKE i \in Instructions
  <2>1. PICK p \in Payload : \E j \in DOMAIN p : i = p[j]
    BY DEF Instructions
  <2>2. QED BY <2>1, InstructionTyped
<1>2. RefLocations \subseteq Reference /\ ListLocations \subseteq Reference
  BY <1>1 DEF RefLocations, ListLocations, Reference
<1>3. QED BY <1>2, InstructionTyped DEF RefLocations, ListLocations

\* What is inside something is not at the path of all.
LEMMA InsideNotAll ==
    ASSUME NEW g \in Path, NEW q \in Path, IsStrictPrefix(g, q)
    PROVE  q # <<>>
<1>1. SUFFICES ASSUME q = <<>> PROVE FALSE
  OBVIOUS
<1>2. /\ Len(g) <= Len(q) /\ g # q
      /\ Len(g) \in Nat /\ g = [i \in 1..Len(g) |-> g[i]]
  BY PathAssumption DEF IsStrictPrefix, IsPrefix
<1>3. Len(g) = 0
  BY <1>1, <1>2
<1>4. g = [i \in 1..0 |-> g[i]]
  BY <1>2, <1>3
<1>5. g = <<>>
  BY <1>4
<1>6. QED BY <1>1, <1>2, <1>5

\* The kinds of locations, at one node.
LEMMA LocationKinds ==
    ASSUME NEW n \in Node, NEW q \in Path, NEW g \in Path
    PROVE  LET ref(x)  == [id |-> n, path |-> x] \in RefLocations
               list(x) == [id |-> n, path |-> x] \in ListLocations
           IN  /\ ~(ref(q) /\ list(q))
               /\ (ref(q) \/ list(q)) /\ (ref(g) \/ list(g)) /\ IsStrictPrefix(g, q) =>
                     /\ ref(q) /\ list(g)
                     /\ IndexIn(q, g) \in Nat \ {0} /\ q = Append(g, IndexIn(q, g))
               /\ (ref(q) \/ list(q)) /\ IsStrictPrefix(g, q) /\ g # <<>> => list(g)
               /\ (ref(q) \/ list(q)) /\ q = <<>> => n \in Param
<1> DEFINE x == [id |-> n, path |-> q]
           y == [id |-> n, path |-> g]
<1>1. x.id = n /\ x.path = q /\ y.id = n /\ y.path = g
  OBVIOUS
<1> HIDE DEF x, y
<1>2. ~(x \in RefLocations /\ x \in ListLocations)
  BY PayloadsAreWalks DEF FieldsHaveOneKind
<1>3. ASSUME x \in RefLocations \cup ListLocations, y \in RefLocations \cup ListLocations,
             IsStrictPrefix(g, q)
      PROVE  /\ x \in RefLocations /\ y \in ListLocations
             /\ IndexIn(q, g) \in Nat \ {0} /\ q = Append(g, IndexIn(q, g))
  BY <1>1, <1>3, PayloadsAreWalks DEF FieldsHaveOneKind, Below
<1>4. ASSUME x \in RefLocations \cup ListLocations, IsStrictPrefix(g, q), g # <<>>
      PROVE  y \in ListLocations
  BY <1>1, <1>4, PayloadsAreWalks DEF FieldsHaveOneKind, y
<1>5. ASSUME x \in RefLocations \cup ListLocations, q = <<>> PROVE n \in Param
  BY <1>1, <1>5, PayloadsAreWalks DEF FieldsHaveOneKind
<1>6. QED BY <1>2, <1>3, <1>4, <1>5 DEF x, y

\* The elements of a list.
LEMMA ElementPath ==
    ASSUME NEW q \in Path, NEW k \in Nat
    PROVE  IsStrictPrefix(q, Append(q, k)) /\ IndexIn(Append(q, k), q) = k
<1> DEFINE S == {q[i] : i \in 1..Len(q)} \cup Nat
<1>1. Len(q) \in Nat /\ q = [i \in 1..Len(q) |-> q[i]]
  BY PathAssumption
<1>2. q \in Seq(S)
  <2>1. \A i \in 1..Len(q) : q[i] \in S
    OBVIOUS
  <2> HIDE DEF S
  <2>2. [i \in 1..Len(q) |-> q[i]] \in [1..Len(q) -> S]
    BY <2>1
  <2>3. QED BY <1>1, <2>2
<1>3. k \in S
  OBVIOUS
<1> HIDE DEF S
<1>4. /\ Append(q, k) \in Seq(S) /\ Len(Append(q, k)) = Len(q) + 1
      /\ Append(q, k)[Len(q) + 1] = k
      /\ \A i \in 1..Len(q) : Append(q, k)[i] = q[i]
  BY <1>2, <1>3
<1>5. SubSeq(q, 1, Len(q)) = SubSeq(Append(q, k), 1, Len(q))
  BY <1>1, <1>2, <1>4
<1>6. q # Append(q, k) /\ Len(q) <= Len(Append(q, k))
  <2>1. Len(q) \in Nat
    BY <1>1
  <2>2. Len(q) # Len(q) + 1 /\ Len(q) <= Len(q) + 1
    BY <2>1
  <2>3. Len(q) # Len(Append(q, k))
    BY <1>4, <2>2
  <2>4. QED BY <1>4, <2>2, <2>3
<1>7. IsStrictPrefix(q, Append(q, k))
  BY <1>5, <1>6 DEF IsStrictPrefix, IsPrefix
<1>8. QED BY <1>4, <1>7 DEF IndexIn

\* Data that has values only at locations, each of one kind.
Kinds(at, n) ==
    \A q \in Path : at[q] # Missing =>
        \/ at[q] = Here /\ [id |-> n, path |-> q] \in ListLocations
        \/ at[q] \in Pointer \cup {Null} /\ [id |-> n, path |-> q] \in RefLocations

\* The kinds of the locations are kept in all nodes when they are in each.
LEMMA KindsOf ==
    ASSUME NEW V \in [Node -> NodeSnapshot]
    PROVE  KindsKept(V) <=> \A n \in Node : Kinds(V[n].at, n)
BY DEF KindsKept, Kinds

\* The lists on the way to a location are there.
Rooted(at, path) == \A g \in Path \ {<<>>} : IsStrictPrefix(g, path) => at[g] = Here

\* A reference is set and nothing else is changed.
LEMMA DeepSetReference ==
    ASSUME NEW n \in Node, NEW at \in [Path -> Value], Kinds(at, n), NEW original,
           NEW path \in Path, [id |-> n, path |-> path] \in RefLocations, Rooted(at, path),
           NEW v
    PROVE  DeepSet(at, original, path, v) = [at EXCEPT ![path] = v]
<1>1. ASSUME NEW q \in Path, IsStrictPrefix(path, q) PROVE at[q] = Missing
  BY <1>1, LocationKinds DEF Kinds
<1>2. ASSUME NEW q \in Path, q # <<>>, IsStrictPrefix(q, path) PROVE at[q] = Here
  BY <1>2 DEF Rooted
<1>3. ASSUME NEW g \in Path \ {<<>>}, IsStrictPrefix(g, path) PROVE ~(at[g] # Here)
  BY <1>3 DEF Rooted
<1>4. QED BY <1>1, <1>2, <1>3 DEF DeepSet

\* A list loses the elements at and beyond its new end, and is there.
LEMMA ResizedList ==
    ASSUME NEW n \in Node, NEW at \in [Path -> Value], NEW original,
           NEW path \in Path, [id |-> n, path |-> path] \in ListLocations, NEW length \in Nat
    PROVE  Resized(at, original, path, length) =
             [q \in Path |->
                IF q = path THEN Here
                ELSE IF IsStrictPrefix(path, q) /\ ~(at[path] = Here /\ IndexIn(q, path) <= length)
                THEN Missing
                ELSE at[q]]
<1>1. \A g \in Path \ {<<>>} : ~IsStrictPrefix(g, path)
  <2> SUFFICES ASSUME NEW g \in Path \ {<<>>}, IsStrictPrefix(g, path) PROVE FALSE
    OBVIOUS
  <2>1. QED BY LocationKinds
<1>2. ~IsStrictPrefix(path, path)
  BY DEF IsStrictPrefix
<1>3. QED BY <1>1, <1>2 DEF Resized, DeepSet, IndexIn

-----------------------------------------------------------------------------
(* The walk of a payload.                                                  *)

EditRecord == [node : Node, path : Path, prev : Entity \cup {Null}, next : Entity \cup {Null},
               write : BOOLEAN]

\* What holds of an editor at any time: data and references are of their
\* kinds, references have two ends, and the edited node ids tell what is new.
Sound(e) ==
    /\ e \in Editor /\ ~e.failed
    /\ EndsMatch(View(e.nodes)) /\ ReferencesLed(View(e.nodes))
    /\ KindsKept(View(e.nodes)) /\ FreshAreFresh(View(e.nodes))
    /\ EditsTell(e)

\* R are the reference edits to do.  They are what the references and the data
\* disagree in.
IsAt(r, n, q) == r.node = n /\ r.path = q

OneOf(id) == {id} \ {Null}

Pending(V, R) ==
    /\ \A n \in Node, q \in Path :
          (\A r \in R : ~IsAt(r, n, q)) => Referred(V, n, q) = Targets(V[n].at[q])
    /\ \A r \in R : /\ Referred(V, r.node, r.path) = OneOf(r.prev)
                    /\ r.write => Targets(V[r.node].at[r.path]) = OneOf(r.prev)
    /\ \A r, s \in R : IsAt(r, s.node, s.path) => r = s

\* Where the edits come from, of the first k instructions of p.
Origins(R, p, k) ==
    \A r \in R : \E j \in 1..k :
        /\ p[j].node = r.node
        /\ \/ r.write /\ p[j].op = "ref" /\ p[j].path = r.path /\ p[j].target = r.next
              /\ r.prev # r.next
           \/ ~r.write /\ r.next = Null /\ p[j].op = "list" /\ IsStrictPrefix(p[j].path, r.path)
              /\ [id |-> r.node, path |-> r.path] \in RefLocations
              /\ IndexIn(r.path, p[j].path) > p[j].length

\* A list that was walked is there, and has nothing beyond its end.
ListsDone(V, p, k) ==
    \A j \in 1..k : p[j].op = "list" =>
        /\ V[p[j].node].at[p[j].path] = Here
        /\ \A q \in Path : IsStrictPrefix(p[j].path, q) /\ V[p[j].node].at[q] # Missing
              => IndexIn(q, p[j].path) <= p[j].length

\* The other lists are whole.
IsListAt(i, y) == i.op = "list" /\ i.node = y.id /\ i.path = y.path

ListsToDo(V, p, k) ==
    \A y \in ListLocations :
        (\A j \in 1..k : ~IsListAt(p[j], y)) => ListWhole(V[y.id].at, y.path)

\* A reference that was walked has a value, or will have.
RefsDone(V, R, p, k) ==
    \A j \in 1..k : p[j].op = "ref" =>
        \/ V[p[j].node].at[p[j].path] # Missing
        \/ \E r \in R : IsAt(r, p[j].node, p[j].path)

\* A node that was come to is there; an entity is referred to, or will be.
Reached(V, P, R, p, k) ==
    /\ p # <<>> /\ RootOf(p) \in Param => RootOf(p) \in P
    /\ \A j \in 1..k :
        /\ p[j].op = "ref" /\ p[j].target \in Entity =>
              V[p[j].target].inbound # {} \/ \E r \in R : r.next = p[j].target
        /\ p[j].op \in {"leaf", "param"} => p[j].node \in P
        /\ p[j].op = "fragment" /\ p[j].named => V[p[j].node].inbound # {}

\* A node that needs no reference to it: a root, or an entity without an id.
Apart(V, n) == n \in Root \/ (n \in Unnamed /\ V[n].leaf = Missing)

\* Any other node that nothing refers to will be referred to.
Referenced(V, P, R) ==
    \A n \in P : V[n].inbound = {} => Apart(V, n) \/ (n \in Entity /\ \E r \in R : r.next = n)

WalkInv(e, R, p, k) ==
    LET V == View(e.nodes)
        P == Present(e.nodes)
    IN  /\ R \subseteq EditRecord
        /\ Pending(V, R) /\ Origins(R, p, k)
        /\ ListsDone(V, p, k) /\ ListsToDo(V, p, k) /\ RefsDone(V, R, p, k)
        /\ Reached(V, P, R, p, k) /\ Referenced(V, P, R)

\* d is e with other data s of a node, of the same kinds, and pointers to new
\* data are right.
Rewrote(e, d, n, s) ==
    /\ n \in Node /\ s \in NodeSnapshot
    /\ Moved(e, d, [View(e.nodes) EXCEPT ![n] = s], {n}, {n})
    /\ s.inbound = View(e.nodes)[n].inbound /\ s.outbound = View(e.nodes)[n].outbound
    /\ s.fresh /\ Kinds(s.at, n)
    /\ \A q \in Path : s.at[q] \in Pointer /\ s.at[q].fresh => View(e.nodes)[s.at[q].to].fresh

\* The same without new pointers.
Wrote(e, d, n, s) ==
    /\ n \in Node /\ s \in NodeSnapshot
    /\ Moved(e, d, [View(e.nodes) EXCEPT ![n] = s], {n}, {n})
    /\ s.inbound = View(e.nodes)[n].inbound /\ s.outbound = View(e.nodes)[n].outbound
    /\ s.fresh /\ Kinds(s.at, n)
    /\ \A q \in Path : s.at[q] \in Pointer => s.at[q] = View(e.nodes)[n].at[q]

SameReferred(e, d) ==
    \A m \in Node, q \in Path : Referred(View(d.nodes), m, q) = Referred(View(e.nodes), m, q)

\* It is as sound as e.
LEMMA DataRewritten ==
    ASSUME NEW e, Sound(e), NEW d, NEW n, NEW s, Rewrote(e, d, n, s)
    PROVE  Sound(d) /\ SameReferred(e, d)
<1> DEFINE V == View(e.nodes)
           W == View(d.nodes)
<1>0. /\ n \in Node /\ s \in NodeSnapshot /\ s.fresh /\ Kinds(s.at, n)
      /\ s.inbound = V[n].inbound /\ s.outbound = V[n].outbound
      /\ \A q \in Path : s.at[q] \in Pointer /\ s.at[q].fresh => V[s.at[q].to].fresh
      /\ Moved(e, d, [V EXCEPT ![n] = s], {n}, {n})
  BY DEF Rewrote
<1>1. /\ e \in Editor /\ e.nodes \in [Node -> NodeSnapshot \cup {Absent}]
      /\ V \in [Node -> NodeSnapshot] /\ W = [V EXCEPT ![n] = s]
      /\ d \in Editor /\ ~d.failed /\ d.nodes \in [Node -> NodeSnapshot \cup {Absent}]
      /\ W \in [Node -> NodeSnapshot]
      /\ Present(d.nodes) = Present(e.nodes) \cup {n}
      /\ d.made = e.made \cup {n} /\ d.edited = e.edited \cup {n}
  BY <1>0, ViewTyped DEF Sound, Moved, Editor
<1> HIDE DEF V, W
<1>3. \A m \in Node : W[m].inbound = V[m].inbound /\ W[m].outbound = V[m].outbound
  BY <1>0, <1>1 DEF V
<1>4. EndsMatch(W) /\ ReferencesLed(W)
  BY <1>3 DEF Sound, EndsMatch, ReferencesLed, V
<1>5. KindsKept(W)
  <2>1. \A m \in Node : Kinds(V[m].at, m)
    BY <1>1, KindsOf DEF Sound, V
  <2>2. \A m \in Node : Kinds(W[m].at, m)
    BY <1>0, <1>1, <2>1
  <2>3. QED BY <1>1, <2>2, KindsOf
<1>6. FreshAreFresh(W)
  <2>1. FreshAreFresh(V)
    BY DEF Sound, V
  <2>2. SUFFICES ASSUME NEW m \in Node, NEW q \in Path, W[m].at[q] \in Pointer, W[m].at[q].fresh
        PROVE  W[W[m].at[q].to].fresh
    BY DEF FreshAreFresh
  <2>3. W[m].at[q].to \in Node
    BY <2>2 DEF Pointer, Node
  <2>4. V[W[m].at[q].to].fresh
    <3>1. CASE m = n
      BY <1>0, <1>1, <2>2, <3>1 DEF V
    <3>2. CASE m # n
      <4>1. W[m] = V[m]
        BY <1>1, <3>2
      <4>2. QED BY <2>1, <2>2, <4>1 DEF FreshAreFresh
    <3>3. QED BY <3>1, <3>2
  <2>5. QED BY <1>0, <1>1, <2>3, <2>4
<1>7. EditsTell(d)
  <2>1. EditsTell(e)
    BY DEF Sound
  <2>2. d.edited \subseteq d.made
    BY <1>1, <2>1 DEF EditsTell
  <2>3. \A m \in Node : W[m].fresh => m \in d.edited
    BY <1>0, <1>1, <2>1 DEF EditsTell, V
  <2>4. ASSUME NEW m \in Present(d.nodes) \ Param, m \in d.edited PROVE d.nodes[m].fresh
    <3>1. m \in Node /\ d.nodes[m] = W[m]
      BY <1>1, <2>4, ViewTyped DEF W
    <3>2. CASE m = n
      BY <1>0, <1>1, <3>1, <3>2
    <3>3. CASE m # n
      <4>1. m \in Present(e.nodes) /\ m \in e.edited
        BY <1>1, <2>4, <3>3
      <4>2. e.nodes[m].fresh /\ e.nodes[m] = V[m]
        BY <1>1, <2>1, <2>4, <4>1, ViewTyped DEF EditsTell, V
      <4>3. QED BY <1>1, <3>1, <3>3, <4>2
    <3>4. QED BY <3>2, <3>3
  <2>5. \A m \in Node \ d.edited : W[m].leaf = View(graph)[m].leaf /\ W[m].at = View(graph)[m].at
    BY <1>0, <1>1, <2>1 DEF EditsTell, V
  <2>6. QED BY <2>2, <2>3, <2>4, <2>5 DEF EditsTell, W
<1>8. QED BY <1>1, <1>3, <1>4, <1>5, <1>6, <1>7 DEF Sound, Referred, SameReferred, W, V

\* Data is written without a change of what is referred to: the references stay sound.
LEMMA DataWritten ==
    ASSUME NEW e, Sound(e), NEW d, NEW n, NEW s, Wrote(e, d, n, s)
    PROVE  Sound(d) /\ SameReferred(e, d)
<1>1. FreshAreFresh(View(e.nodes)) /\ n \in Node
  BY DEF Sound, Wrote
<1>2. \A q \in Path : s.at[q] \in Pointer /\ s.at[q].fresh => View(e.nodes)[s.at[q].to].fresh
  BY <1>1 DEF Wrote, FreshAreFresh
<1>3. Rewrote(e, d, n, s)
  BY <1>2 DEF Wrote, Rewrote
<1>4. QED BY <1>3, DataRewritten

\* What nothing is known of has no references to it.
LEMMA ReferredIsThere ==
    ASSUME NEW nodes \in [Node -> NodeSnapshot \cup {Absent}], NEW n \in Node
    PROVE  /\ View(nodes)[n].inbound # {} => n \in Present(nodes)
           /\ View(nodes)[n].outbound # {} => n \in Present(nodes)
           /\ \A q \in Path : View(nodes)[n].at[q] # Missing => n \in Present(nodes)
BY ViewTyped DEF NewSnapshot, NoData

\* A walk has come to the node that it writes to.
Comes(V, P, R, n) ==
    \/ n \in Root \/ n \in P
    \/ n \in Entity /\ \E r \in R : r.next = n
    \/ n \in Unnamed

LEMMA WrittenThere ==
    ASSUME NEW nodes \in [Node -> NodeSnapshot \cup {Absent}], NEW R,
           NEW p \in Payload, NEW k \in DOMAIN p, NEW l, l >= k - 1, l \in Nat,
           Reached(View(nodes), Present(nodes), R, p, l), p[k].op # "fragment"
    PROVE  /\ Written(p[k]) \in Node
           /\ Comes(View(nodes), Present(nodes), R, Written(p[k]))
           /\ p[k].op = "leaf" /\ Written(p[k]) \in Entity =>
                 View(nodes)[Written(p[k])].inbound # {} \/ \E r \in R : r.next = Written(p[k])
<1> DEFINE n == Written(p[k])
           V == View(nodes)
           P == Present(nodes)
<1>1. k \in Nat \ {0} /\ NodesAfterFields(p) /\ p # <<>>
  BY PayloadAssumption, PayloadsAreWalks
<1>2. n \in Node
  BY InstructionTyped, PayloadAssumption DEF Written, Reference, Node
<1>3. CASE n \in Param
  <2>1. CASE n = RootOf(p)
    BY <1>1, <1>2, <1>3, <2>1, NodeAssumption DEF Reached, Comes, Node
  <2>2. CASE \E j \in 1..(k - 1) : p[j] = FieldOf(n)
    <3>1. PICK j \in 1..(k - 1) : p[j] = FieldOf(n)
      BY <2>2
    <3>2. j \in 1..l /\ p[j].op = "param" /\ p[j].node = n
      BY <1>1, <3>1 DEF FieldOf
    <3>3. QED BY <1>2, <1>3, <3>2, NodeAssumption DEF Reached, Comes, Node
  <2>3. QED BY <1>1, <1>3, <2>1, <2>2 DEF NodesAfterFields
<1>4. CASE n \in Entity
  <2>1. CASE p[1] = FragmentOf(n, TRUE)
    <3>1. p[1].op = "fragment" /\ p[1].node = n /\ p[1].named
      BY <2>1 DEF FragmentOf
    <3>2. 1 \in 1..l
      BY <1>1, <3>1
    <3>3. V[n].inbound # {}
      BY <3>1, <3>2 DEF Reached
    <3> HIDE DEF n
    <3>4. QED BY <1>2, <3>3, ReferredIsThere DEF Comes, n
  <2>2. CASE p[1] = FragmentOf(n, FALSE) /\ p[k].op # "leaf"
    BY <1>1, <1>2, <1>4, <2>2 DEF Unnamed, Comes
  <2>3. CASE \E j \in 1..(k - 1) : p[j].op = "ref" /\ p[j].target = n
    <3>1. PICK j \in 1..(k - 1) : p[j].op = "ref" /\ p[j].target = n
      BY <2>3
    <3>2. j \in 1..l
      BY <1>1
    <3>3. V[n].inbound # {} \/ \E r \in R : r.next = n
      BY <1>4, <3>1, <3>2 DEF Reached
    <3> HIDE DEF n
    <3>4. QED BY <1>2, <1>4, <3>3, ReferredIsThere DEF Comes, n
  <2>4. QED BY <1>1, <1>4, <2>1, <2>2, <2>3 DEF NodesAfterFields
<1>5. CASE n \in Root
  BY <1>2, <1>5, NodeAssumption DEF Comes, Node
<1>6. QED BY <1>2, <1>3, <1>4, <1>5 DEF Node

\* A node that has a new version gets another snapshot once more.
LEMMA ReplacedAgain ==
    ASSUME NEW e \in Editor, NEW id \in Node, NEW s \in NodeSnapshot, NEW t, NEW d,
           Moved(e, d, [View(e.nodes) EXCEPT ![id] = t], {id}, {id})
    PROVE  Moved(e, [d EXCEPT !.nodes[id] = s], [View(e.nodes) EXCEPT ![id] = s], {id}, {id})
<1> DEFINE f == [d EXCEPT !.nodes[id] = s]
           V == View(e.nodes)
<1>1. /\ d \in Editor /\ d.nodes \in [Node -> NodeSnapshot \cup {Absent}]
      /\ e.nodes \in [Node -> NodeSnapshot \cup {Absent}]
  BY DEF Moved, Editor
<1>2. /\ f.nodes = [d.nodes EXCEPT ![id] = s] /\ f \in Editor
      /\ f.made = d.made /\ f.edited = d.edited /\ f.merged = d.merged /\ f.failed = d.failed
  BY <1>1 DEF Editor
<1>3. View(f.nodes) = [View(d.nodes) EXCEPT ![id] = s]
  <2> HIDE DEF f
  <2>1. QED BY <1>1, <1>2, AbsentAssumption DEF View
<1>4. View(f.nodes) = [V EXCEPT ![id] = s]
  <2>1. View(d.nodes) = [V EXCEPT ![id] = t] /\ V \in [Node -> NodeSnapshot]
    BY <1>1, ViewTyped DEF Moved
  <2> HIDE DEF V, f
  <2>2. QED BY <1>3, <2>1
<1>5. Present(f.nodes) = Present(d.nodes)
  <2>1. id \in Present(d.nodes)
    BY DEF Moved
  <2>2. QED BY <1>1, <1>2, <2>1, AbsentAssumption DEF Present
<1> HIDE DEF f, V
<1>6. QED BY <1>2, <1>4, <1>5 DEF Moved, f, V

\* The same, as a step of a walk: the node that is written may not have been
\* there, and is if nothing more is written.
LEMMA WrittenInWalk ==
    ASSUME NEW e, Sound(e), NEW R, NEW p \in Payload, NEW k \in DOMAIN p,
           NEW l, l = k - 1, WalkInv(e, R, p, l), p[k].op \notin {"param", "fragment"},
           NEW d, NEW s, Wrote(e, d, p[k].node, s),
           p[k].op # "leaf" => s.leaf = View(e.nodes)[p[k].node].leaf
    PROVE  /\ Sound(d) /\ SameReferred(e, d)
           /\ Reached(View(d.nodes), Present(d.nodes), R, p, l)
           /\ Referenced(View(d.nodes), Present(d.nodes), R)
<1> DEFINE V == View(e.nodes)
           W == View(d.nodes)
           P == Present(e.nodes)
           n == p[k].node
<1>1. /\ k \in Nat \ {0} /\ k - 1 \in Nat /\ Reached(V, P, R, p, l)
      /\ \A j \in 1..l : j \in DOMAIN p
  BY PayloadAssumption DEF WalkInv
<1>2. n \in Node /\ Written(p[k]) = n
  BY InstructionTyped DEF Written, Node
<1>3. Sound(d) /\ SameReferred(e, d)
  BY DataWritten
<1>4. /\ Present(d.nodes) = P \cup {n} /\ W = [V EXCEPT ![n] = s]
      /\ e.nodes \in [Node -> NodeSnapshot \cup {Absent}] /\ s.inbound = V[n].inbound
  BY DEF Moved, Sound, Editor, Wrote
<1>5. V \in [Node -> NodeSnapshot]
  BY <1>4, ViewTyped
<1>6. /\ Comes(V, P, R, n)
      /\ p[k].op = "leaf" /\ n \in Entity => V[n].inbound # {} \/ \E r \in R : r.next = n
  <2> DEFINE nodes == e.nodes
             o == Written(p[k])
  <2>1. k - 1 >= k - 1 /\ p[k].op # "fragment" /\ nodes \in [Node -> NodeSnapshot \cup {Absent}]
    BY <1>1, <1>4
  <2>2. l \in Nat /\ l >= k - 1 /\ Reached(View(nodes), Present(nodes), R, p, l)
    BY <1>1, <2>1
  <2> HIDE DEF nodes
  <2>3. /\ Comes(View(nodes), Present(nodes), R, o)
        /\ p[k].op = "leaf" /\ o \in Entity => View(nodes)[o].inbound # {} \/ \E r \in R : r.next = o
    BY <2>1, <2>2, WrittenThere
  <2>4. QED BY <1>2, <2>3 DEF nodes
<1>7. Reached(W, Present(d.nodes), R, p, l)
  <2>1. \A m \in Node : W[m].inbound = V[m].inbound
    BY <1>2, <1>4, <1>5
  <2>2. \A j \in 1..l : /\ p[j].op = "ref" /\ p[j].target \in Entity => p[j].target \in Node
                        /\ p[j].op = "fragment" => p[j].node \in Node
    BY <1>1, InstructionTyped DEF Node
  <2> HIDE DEF V, W, P, n
  <2>3. QED BY <1>1, <1>4, <2>1, <2>2 DEF Reached
<1>8. Referenced(W, Present(d.nodes), R)
  <2>1. \A m \in P : V[m].inbound = {} => Apart(V, m) \/ (m \in Entity /\ \E r \in R : r.next = m)
    BY DEF WalkInv, Referenced
  <2>2. \A m \in Node : W[m].inbound = V[m].inbound /\ (m # n => W[m].leaf = V[m].leaf)
    BY <1>2, <1>4, <1>5
  <2>3. W[n].leaf = s.leaf
    BY <1>2, <1>4, <1>5
  <2>4. Present(d.nodes) \subseteq Node /\ P \subseteq Node
    BY DEF Present
  <2>5. n \notin P => V[n].leaf = Missing
    BY <1>2, <1>4, ViewTyped DEF NewSnapshot
  <2>6. n \in Unnamed => n \in Entity
    BY DEF Unnamed
  <2> HIDE DEF V, W, P, n
  <2>7. ASSUME W[n].inbound = {} PROVE Apart(W, n) \/ (n \in Entity /\ \E r \in R : r.next = n)
    <3>1. V[n].inbound = {}
      BY <1>2, <2>2, <2>7
    <3>2. CASE n \in P
      BY <1>6, <2>1, <2>3, <2>6, <3>1, <3>2 DEF Apart, V, n
    <3>3. CASE n \notin P
      BY <1>6, <2>3, <2>5, <2>6, <3>1, <3>3 DEF Apart, Comes, V, n
    <3>4. QED BY <3>2, <3>3
  <2>8. QED BY <1>4, <2>1, <2>2, <2>4, <2>7 DEF Referenced, Apart
<1>9. QED BY <1>3, <1>7, <1>8

\* The instructions before an instruction.
LEMMA Earlier ==
    ASSUME NEW p \in Payload, NEW k \in DOMAIN p
    PROVE  /\ k \in Nat \ {0} /\ k - 1 \in Nat
           /\ \A j \in 1..(k - 1) : j \in 1..k /\ j # k
           /\ \A j \in 1..k :
                 /\ j \in DOMAIN p /\ (j \in 1..(k - 1) \/ j = k)
                 /\ p[j].op = "ref" => [id |-> p[j].node, path |-> p[j].path] \in RefLocations
                 /\ p[j].op = "list" => [id |-> p[j].node, path |-> p[j].path] \in ListLocations
                 /\ p[j].op \in {"ref", "list"} => p[j].node \in Node /\ p[j].path \in Path
<1>1. k \in Nat \ {0} /\ \A j \in 1..k : j \in DOMAIN p
  BY PayloadAssumption
<1>2. QED BY <1>1, InstructionTyped, LocationTyped

\* What is left of the invariant when no list and no reference is touched.
LEMMA LeafWalked ==
    ASSUME NEW e, Sound(e), NEW R, NEW p \in Payload, NEW k \in DOMAIN p,
           WalkInv(e, R, p, k - 1), p[k].op = "leaf", NEW edits
    PROVE  LET w == WalkLeaf([editor |-> e, edits |-> edits], p[k])
           IN  /\ w.edits = edits /\ w = [editor |-> w.editor, edits |-> edits]
               /\ ~w.editor.failed => Sound(w.editor) /\ WalkInv(w.editor, R, p, k)
                                      /\ w.editor.merged = e.merged
<1> DEFINE n == p[k].node
           v == p[k].value
           V == View(e.nodes)
           P == Present(e.nodes)
           w == WalkLeaf([editor |-> e, edits |-> edits], p[k])
           old == IF e.nodes[n] = Absent THEN Missing ELSE e.nodes[n].leaf
           d == Edit(e, n, NodeData(e, n))
<1>1. n \in Node /\ v \in Scalar /\ k \in Nat \ {0}
  BY InstructionTyped, PayloadAssumption
<1>2. e \in Editor /\ e.nodes \in [Node -> NodeSnapshot \cup {Absent}] /\ V \in [Node -> NodeSnapshot]
  BY ViewTyped DEF Sound, Editor
<1>3. /\ \A j \in 1..k : /\ j \in 1..(k - 1) \/ j = k
                        /\ p[j].op \in {"ref", "list"} => p[j].node \in Node /\ p[j].path \in Path
      /\ \A y \in ListLocations : y.id \in Node /\ y.path \in Path
      /\ \A j \in 1..(k - 1) : j \in 1..k
  BY Earlier, LocationTyped DEF Reference
<1>4. CASE v = old
  <2>1. w = [editor |-> e, edits |-> edits]
    BY <1>4 DEF WalkLeaf
  <2>2. n \in P
    BY <1>1, <1>4, ValueAssumption DEF Present
  <2>3. WalkInv(e, R, p, k)
    <3> HIDE DEF n, V, P, w, old, d
    <3>1. Origins(R, p, k)
      BY <1>1 DEF WalkInv, Origins
    <3>2. ListsDone(V, p, k) /\ ListsToDo(V, p, k) /\ RefsDone(V, R, p, k)
      BY <1>1, <1>3 DEF WalkInv, ListsDone, ListsToDo, RefsDone, V
    <3>3. Reached(V, P, R, p, k)
      BY <1>1, <1>3, <2>2 DEF WalkInv, Reached, P, V, n
    <3>4. QED BY <3>1, <3>2, <3>3 DEF WalkInv, V, P
  <2>4. QED BY <2>1, <2>3
<1>5. CASE v # old
  <2> DEFINE s == [V[n] EXCEPT !.leaf = v, !.fresh = TRUE]
             f == [d EXCEPT !.nodes[n].leaf = v]
  <2>1. w = [editor |-> IF d.failed THEN d ELSE f, edits |-> edits]
    BY <1>5 DEF WalkLeaf
  <2>2. SUFFICES ASSUME ~d.failed
        PROVE  Sound(f) /\ WalkInv(f, R, p, k) /\ f.merged = e.merged
    <3> HIDE DEF f, d
    <3>1. QED BY <2>1
  <2>3. NodeData(e, n) = V[n].at /\ NodeData(e, n) \in [Path -> Value]
    BY <1>1, <1>2, DataOf
  <2>4. Moved(e, d, WithData(V, n, V[n].at), {n}, {n})
    <3> HIDE DEF n, V
    <3>1. QED BY <1>1, <1>2, <2>2, <2>3, EditMoves DEF V
  <2>5. s \in NodeSnapshot /\ WithData(V, n, V[n].at) = [V EXCEPT ![n] = [V[n] EXCEPT !.fresh = TRUE]]
    BY <1>1, <1>2, ZenonT(30) DEF NodeSnapshot, WithData
  <2>6. Moved(e, f, [V EXCEPT ![n] = s], {n}, {n})
    <3>1. f = [d EXCEPT !.nodes[n] = s]
      <4>1. d \in Editor /\ n \in Present(d.nodes) /\ View(d.nodes) = WithData(V, n, V[n].at)
        BY <2>4 DEF Moved
      <4>2. d.nodes \in [Node -> NodeSnapshot \cup {Absent}]
        BY <4>1 DEF Editor
      <4> HIDE DEF V, d, n
      <4>3. d.nodes[n] = [V[n] EXCEPT !.fresh = TRUE]
        <5>1. d.nodes[n] = View(d.nodes)[n]
          BY <4>1, <4>2, ViewTyped
        <5> DEFINE t == [V[n] EXCEPT !.fresh = TRUE]
        <5>2. View(d.nodes) = [V EXCEPT ![n] = t]
          BY <2>5, <4>1
        <5> HIDE DEF t
        <5>3. View(d.nodes)[n] = t
          BY <1>1, <1>2, <5>2
        <5>4. QED BY <5>1, <5>3 DEF t
      <4>4. [d.nodes[n] EXCEPT !.leaf = v] = s
        BY <1>1, <1>2, <4>3 DEF NodeSnapshot
      <4>5. QED BY <1>1, <4>1, <4>2, <4>4 DEF Editor
    <3> DEFINE t == [V[n] EXCEPT !.fresh = TRUE]
    <3>2. Moved(e, d, [V EXCEPT ![n] = t], {n}, {n}) /\ s \in NodeSnapshot
      BY <2>4, <2>5
    <3> HIDE DEF V, d, n, s, t, f
    <3>3. Moved(e, [d EXCEPT !.nodes[n] = s], [V EXCEPT ![n] = s], {n}, {n})
      BY <1>1, <1>2, <3>2, ReplacedAgain DEF V
    <3>4. QED BY <3>1, <3>3
  <2>7. /\ s.inbound = V[n].inbound /\ s.outbound = V[n].outbound /\ s.fresh /\ s.at = V[n].at
    BY <1>1, <1>2 DEF NodeSnapshot
  <2>8. Kinds(V[n].at, n)
    BY <1>1, <1>2, KindsOf DEF Sound
  <2> HIDE DEF f, s, d
  <2>9. Wrote(e, f, n, s)
    BY <1>1, <2>5, <2>6, <2>7, <2>8 DEF Wrote
  <2>10. /\ Sound(f) /\ SameReferred(e, f)
         /\ Reached(View(f.nodes), Present(f.nodes), R, p, k - 1)
         /\ Referenced(View(f.nodes), Present(f.nodes), R)
    BY <2>9, WrittenInWalk
  <2> DEFINE W == View(f.nodes)
  <2>11. /\ Present(f.nodes) = P \cup {n}
         /\ \A m \in Node : W[m].at = V[m].at
    BY <1>1, <1>2, <2>6, <2>7 DEF Moved
  <2> HIDE DEF V, P, n, W
  <2>12. Pending(W, R) /\ Origins(R, p, k)
    BY <1>1, <2>10, <2>11 DEF WalkInv, Pending, Origins, EditRecord, SameReferred, V, W
  <2>13. ListsDone(W, p, k) /\ ListsToDo(W, p, k) /\ RefsDone(W, R, p, k)
    BY <1>1, <1>3, <2>11 DEF WalkInv, ListsDone, ListsToDo, RefsDone, V, W
  <2>14. Reached(View(f.nodes), Present(f.nodes), R, p, k)
    BY <1>1, <1>3, <2>10, <2>11 DEF Reached, n
  <2>15. R \subseteq EditRecord /\ f.merged = e.merged
    BY <2>6 DEF Moved, WalkInv
  <2>16. QED BY <2>10, <2>12, <2>13, <2>14, <2>15 DEF WalkInv, W
<1>6. QED BY <1>4, <1>5

\* A reference in a list is walked after the list, and is not beyond its end.
LEMMA WalkedUnder ==
    ASSUME NEW p \in Payload, NEW k \in DOMAIN p, p[k].op = "ref",
           NEW g \in Path, [id |-> p[k].node, path |-> g] \in ListLocations,
           IsStrictPrefix(g, p[k].path)
    PROVE  /\ \E j \in 1..(k - 1) : p[j].op = "list" /\ p[j].node = p[k].node /\ p[j].path = g
           /\ \A j \in DOMAIN p : p[j].op = "list" /\ p[j].node = p[k].node /\ p[j].path = g
                 => IndexIn(p[k].path, g) <= p[j].length
<1> DEFINE x == [id |-> p[k].node, path |-> p[k].path]
           y == [id |-> p[k].node, path |-> g]
<1>1. Below(x, y) /\ y \in ListLocations
  BY DEF Below
<1>2. PICK j \in 1..(k - 1) : /\ p[j].op = "list" /\ p[j].node = y.id /\ p[j].path = y.path
                              /\ IndexIn(p[k].path, y.path) <= p[j].length
  BY <1>1, PayloadsAreWalks DEF ListsAreWhole
<1>3. j \in DOMAIN p
  BY <1>2, Earlier
<1>4. \A i \in DOMAIN p : p[i].op = "list" /\ p[i].node = p[k].node /\ p[i].path = g => p[i] = p[j]
  BY <1>2, <1>3, PayloadsAreWalks DEF OneResult
<1>5. QED BY <1>2, <1>4

\* A reference edit at a reference that is walked is for that reference.
LEMMA EditOfReference ==
    ASSUME NEW p \in Payload, NEW k \in DOMAIN p, p[k].op = "ref",
           NEW R \in SUBSET EditRecord, NEW l, 1..l \subseteq DOMAIN p, Origins(R, p, l),
           NEW r \in R, IsAt(r, p[k].node, p[k].path)
    PROVE  r.write /\ r.next = p[k].target /\ r.prev # r.next
<1>1. PICK j \in 1..l :
         /\ p[j].node = r.node
         /\ \/ r.write /\ p[j].op = "ref" /\ p[j].path = r.path /\ p[j].target = r.next
               /\ r.prev # r.next
            \/ ~r.write /\ r.next = Null /\ p[j].op = "list" /\ IsStrictPrefix(p[j].path, r.path)
               /\ [id |-> r.node, path |-> r.path] \in RefLocations
               /\ IndexIn(r.path, p[j].path) > p[j].length
  BY DEF Origins
<1>2. j \in DOMAIN p /\ r.node = p[k].node /\ r.path = p[k].path
  BY <1>1 DEF IsAt
<1>3. CASE p[j].op = "ref"
  <2>1. p[j] = p[k]
    BY <1>1, <1>2, <1>3, PayloadsAreWalks DEF OneResult
  <2>2. QED BY <1>1, <1>3, <2>1
<1>4. CASE p[j].op = "list"
  <2>1. /\ p[j].path \in Path /\ [id |-> p[k].node, path |-> p[j].path] \in ListLocations
        /\ p[j].length \in Nat
    BY <1>1, <1>2, <1>4, InstructionTyped, LocationTyped
  <2>2. [id |-> p[k].node, path |-> p[k].path] \in RefLocations /\ p[k].node \in Node /\ p[k].path \in Path
    BY InstructionTyped, LocationTyped
  <2>3. IndexIn(p[k].path, p[j].path) \in Nat
    BY <1>1, <1>2, <1>4, <2>1, <2>2, LocationKinds
  <2>4. IndexIn(p[k].path, p[j].path) <= p[j].length
    BY <1>1, <1>2, <1>4, <2>1, WalkedUnder
  <2>5. QED BY <1>1, <1>2, <1>4, <2>1, <2>3, <2>4
<1>5. QED BY <1>1, <1>3, <1>4

\* The lists on the way to a reference have been walked.
LEMMA WayWalked ==
    ASSUME NEW p \in Payload, NEW k \in DOMAIN p, p[k].op = "ref", NEW V, NEW l,
           ListsDone(V, p, l), \A j \in 1..(k - 1) : j \in 1..l
    PROVE  Rooted(V[p[k].node].at, p[k].path)
<1>1. SUFFICES ASSUME NEW g \in Path \ {<<>>}, IsStrictPrefix(g, p[k].path)
      PROVE  V[p[k].node].at[g] = Here
  BY DEF Rooted
<1>2. [id |-> p[k].node, path |-> g] \in ListLocations
  BY <1>1, InstructionTyped, LocationTyped, LocationKinds
<1>3. PICK j \in 1..(k - 1) : p[j].op = "list" /\ p[j].node = p[k].node /\ p[j].path = g
  BY <1>1, <1>2, WalkedUnder
<1>4. QED BY <1>3 DEF ListsDone

\* The value at a reference.
LEMMA ValueOfReference ==
    ASSUME NEW e, Sound(e), NEW n \in Node, NEW q \in Path, [id |-> n, path |-> q] \in RefLocations
    PROVE  LET v == View(e.nodes)[n].at[q]
           IN  /\ ValueAt(e, n, q) = v
               /\ v = Missing \/ v = Null \/ v \in Pointer
               /\ v \in Pointer => v.to \in Entity /\ v # Missing /\ v # Null /\ Targets(v) = {v.to}
               /\ v \notin Pointer => Targets(v) = {}
<1>1. ValueAt(e, n, q) = View(e.nodes)[n].at[q]
  BY DataOf DEF ValueAt, Sound
<1>2. [id |-> n, path |-> q] \notin ListLocations
  BY LocationKinds
<1>3. KindsKept(View(e.nodes))
  BY DEF Sound
<1>4. QED BY <1>1, <1>2, <1>3, ValueAssumption DEF KindsKept, Targets, Pointer

\* A reference that is to change is left to an edit.
LEMMA RefEdited ==
    ASSUME NEW e, Sound(e), NEW R, NEW p \in Payload, NEW k \in DOMAIN p,
           NEW l, l = k - 1, WalkInv(e, R, p, l), p[k].op = "ref",
           NEW prev \in Entity \cup {Null}, prev # p[k].target,
           OneOf(prev) = Targets(View(e.nodes)[p[k].node].at[p[k].path])
    PROVE  LET r == ReferenceEdit(p[k].node, p[k].path, prev, p[k].target, TRUE)
           IN  r \in EditRecord /\ WalkInv(e, R \cup {r}, p, k)
<1> DEFINE n == p[k].node
           q == p[k].path
           r == ReferenceEdit(n, q, prev, p[k].target, TRUE)
           V == View(e.nodes)
           P == Present(e.nodes)
           S == R \cup {r}
<1>1. /\ n \in Node /\ q \in Path /\ p[k].target \in Entity \cup {Null}
      /\ k \in Nat \ {0} /\ l \in Nat
      /\ \A j \in 1..l : j \in 1..k
      /\ \A j \in 1..k : j \in 1..l \/ j = k
      /\ 1..l \subseteq DOMAIN p
      /\ R \subseteq EditRecord /\ Pending(V, R) /\ Origins(R, p, l)
  BY InstructionTyped, Earlier DEF WalkInv
<1>2. /\ r \in EditRecord /\ r.node = n /\ r.path = q /\ r.prev = prev /\ r.next = p[k].target /\ r.write
      /\ r = [node |-> n, path |-> q, prev |-> prev, next |-> p[k].target, write |-> TRUE]
  BY <1>1 DEF EditRecord, ReferenceEdit
<1>3. \A s \in R : IsAt(s, n, q) => s = r
  <2>1. SUFFICES ASSUME NEW s \in R, IsAt(s, n, q) PROVE s = r
    OBVIOUS
  <2>2. s.write /\ s.next = p[k].target
    BY <1>1, <2>1, EditOfReference
  <2>3. OneOf(s.prev) = OneOf(prev)
    BY <1>1, <2>1, <2>2 DEF Pending, IsAt
  <2>4. s \in EditRecord
    BY <1>1
  <2>5. s.prev = prev
    BY <2>3, <2>4 DEF OneOf, EditRecord
  <2>6. s.write = TRUE
    BY <2>2, <2>4 DEF EditRecord
  <2>7. QED BY <1>2, <2>1, <2>2, <2>4, <2>5, <2>6 DEF EditRecord, IsAt
<1> HIDE DEF r, V, P
<1>4. Pending(V, S)
  <2>1. Referred(V, n, q) = OneOf(prev)
    <3>1. CASE \E s \in R : IsAt(s, n, q)
      BY <1>1, <1>2, <1>3, <3>1 DEF Pending
    <3>2. CASE \A s \in R : ~IsAt(s, n, q)
      BY <1>1, <3>2 DEF Pending, V
    <3>3. QED BY <3>1, <3>2
  <2>2. \A m \in Node, g \in Path :
          (\A s \in S : ~IsAt(s, m, g)) => Referred(V, m, g) = Targets(V[m].at[g])
    BY <1>1 DEF Pending
  <2>3. \A s \in S : /\ Referred(V, s.node, s.path) = OneOf(s.prev)
                     /\ s.write => Targets(V[s.node].at[s.path]) = OneOf(s.prev)
    BY <1>1, <1>2, <2>1 DEF Pending, V
  <2>4. \A s, t \in S : IsAt(s, t.node, t.path) => s = t
    BY <1>1, <1>2, <1>3, ZenonT(30) DEF Pending, IsAt
  <2>5. QED BY <2>2, <2>3, <2>4 DEF Pending
<1>5. Origins(S, p, k)
  <2>1. \A s \in R : \E j \in 1..k :
        /\ p[j].node = s.node
        /\ \/ s.write /\ p[j].op = "ref" /\ p[j].path = s.path /\ p[j].target = s.next
              /\ s.prev # s.next
           \/ ~s.write /\ s.next = Null /\ p[j].op = "list" /\ IsStrictPrefix(p[j].path, s.path)
              /\ [id |-> s.node, path |-> s.path] \in RefLocations
              /\ IndexIn(s.path, p[j].path) > p[j].length
    BY <1>1 DEF Origins
  <2>2. k \in 1..k
    BY <1>1
  <2>3. QED BY <1>2, <2>1, <2>2 DEF Origins
<1>6. ListsDone(V, p, k) /\ ListsToDo(V, p, k)
  BY <1>1 DEF WalkInv, ListsDone, ListsToDo, V
<1>7. RefsDone(V, S, p, k)
  BY <1>1, <1>2 DEF WalkInv, RefsDone, IsAt, V
<1>8. Reached(V, P, S, p, k)
  BY <1>1, <1>2 DEF WalkInv, Reached, P, V
<1>9. Referenced(V, P, S)
  BY DEF WalkInv, Referenced, V, P
<1>10. S \subseteq EditRecord
  BY <1>1, <1>2
<1>11. QED BY <1>2, <1>4, <1>5, <1>6, <1>7, <1>8, <1>9, <1>10 DEF WalkInv, V, P, r

\* A reference that was not there is null.
LEMMA RefNulled ==
    ASSUME NEW e, Sound(e), NEW R, NEW p \in Payload, NEW k \in DOMAIN p,
           NEW l, l = k - 1, WalkInv(e, R, p, l), p[k].op = "ref", p[k].target = Null,
           View(e.nodes)[p[k].node].at[p[k].path] = Missing,
           NEW d, d = SetValue(e, p[k].node, p[k].path, Null), ~d.failed
    PROVE  Sound(d) /\ WalkInv(d, R, p, k) /\ d.merged = e.merged
<1> DEFINE n == p[k].node
           q == p[k].path
           V == View(e.nodes)
           P == Present(e.nodes)
           at == [V[n].at EXCEPT ![q] = Null]
           s == [V[n] EXCEPT !.at = at, !.fresh = TRUE]
           W == View(d.nodes)
<1>1. /\ n \in Node /\ q \in Path /\ [id |-> n, path |-> q] \in RefLocations
      /\ k \in Nat \ {0} /\ l \in Nat
      /\ \A j \in 1..l : j \in 1..k
      /\ \A j \in 1..k : /\ j \in 1..l \/ j = k
                         /\ p[j].op \in {"ref", "list"} => p[j].node \in Node /\ p[j].path \in Path
                         /\ p[j].op = "list" => [id |-> p[j].node, path |-> p[j].path] \in ListLocations
      /\ \A j \in 1..l : j \in DOMAIN p
  BY InstructionTyped, Earlier, LocationTyped
<1>0. \A y \in ListLocations : y.id \in Node /\ y.path \in Path /\ y = [id |-> y.id, path |-> y.path]
  BY LocationTyped DEF Reference
<1>2. /\ e \in Editor /\ e.nodes \in [Node -> NodeSnapshot \cup {Absent}]
      /\ V \in [Node -> NodeSnapshot] /\ V[n].at \in [Path -> Value] /\ V[n].at[q] = Missing
      /\ NodeData(e, n) = V[n].at
  BY <1>1, ViewTyped, DataOf DEF Sound, Editor
<1>3. Kinds(V[n].at, n)
  BY <1>1, <1>2, KindsOf DEF Sound
<1>4. d = Edit(e, n, at)
  <2>1. Rooted(V[n].at, q)
    BY <1>1, WayWalked DEF WalkInv
  <2>2. DeepSet(V[n].at, Original(n), q, Null) = at
    <3> HIDE DEF V, n, q
    <3>1. QED BY <1>1, <1>2, <1>3, <2>1, DeepSetReference
  <2>3. QED BY <1>2, <2>2 DEF SetValue
<1>5. at \in [Path -> Value] /\ Kinds(at, n) /\ \A g \in Path : at[g] \in Pointer => at[g] = V[n].at[g]
  BY <1>1, <1>2, <1>3, ValueAssumption DEF Kinds, Value
<1> HIDE DEF at
<1>6. Wrote(e, d, n, s)
  <2>0. n \in Node /\ ~Edit(e, n, at).failed /\ V \in [Node -> NodeSnapshot] /\ at \in [Path -> Value]
    BY <1>1, <1>2, <1>4, <1>5
  <2>1. Moved(e, d, WithData(V, n, at), {n}, {n})
    <3> HIDE DEF n
    <3>1. QED BY <1>2, <1>4, <2>0, EditMoves
  <2>2. /\ s \in NodeSnapshot /\ WithData(V, n, at) = [V EXCEPT ![n] = s]
        /\ s.at = at /\ s.fresh /\ s.inbound = V[n].inbound /\ s.outbound = V[n].outbound
    <3> HIDE DEF V, n
    <3>1. QED BY <2>0, ZenonT(30) DEF WithData, NodeSnapshot, Value
  <2> HIDE DEF V, n, s
  <2>3. QED BY <1>1, <1>5, <2>1, <2>2 DEF Wrote, V
<1>7. /\ Sound(d) /\ SameReferred(e, d)
      /\ Reached(View(d.nodes), Present(d.nodes), R, p, l) /\ Referenced(W, Present(d.nodes), R)
  <2>1. s.leaf = V[n].leaf
    BY <1>2 DEF NodeSnapshot
  <2>2. QED BY <1>6, <2>1, WrittenInWalk
<1>8. /\ W = [V EXCEPT ![n] = s] /\ Present(d.nodes) = P \cup {n} /\ d.merged = e.merged /\ s.at = at
  BY <1>6 DEF Wrote, Moved
<1>9. \A m \in Node, g \in Path :
        W[m].at[g] = IF m = n /\ g = q THEN Null ELSE V[m].at[g]
  BY <1>1, <1>2, <1>8 DEF at
<1>10. R \subseteq EditRecord /\ Pending(V, R) /\ Origins(R, p, l) /\ ListsDone(V, p, l)
       /\ ListsToDo(V, p, l) /\ RefsDone(V, R, p, l)
  BY DEF WalkInv
<1> HIDE DEF W, V, P, n, q, s
<1>11. Pending(W, R)
  <2>1. \A m \in Node, g \in Path : Targets(W[m].at[g]) = Targets(V[m].at[g])
    BY <1>1, <1>2, <1>9, ValueAssumption, ZenonT(30) DEF Targets
  <2>2. \A m \in Node, g \in Path : Referred(W, m, g) = Referred(V, m, g)
    BY <1>7 DEF SameReferred, V, W
  <2>3. \A r \in R : r.node \in Node /\ r.path \in Path
    BY <1>10 DEF EditRecord
  <2>4. QED BY <1>10, <2>1, <2>2, <2>3 DEF Pending
<1>12. Origins(R, p, k)
  BY <1>1, <1>10 DEF Origins
<1>13. ListsDone(W, p, k)
  <2>1. SUFFICES ASSUME NEW j \in 1..k, p[j].op = "list"
        PROVE  /\ W[p[j].node].at[p[j].path] = Here
               /\ \A g \in Path : IsStrictPrefix(p[j].path, g) /\ W[p[j].node].at[g] # Missing
                     => IndexIn(g, p[j].path) <= p[j].length
    BY DEF ListsDone
  <2>2. j \in 1..l /\ j \in DOMAIN p
    BY <1>1, <2>1
  <2>3. /\ V[p[j].node].at[p[j].path] = Here
        /\ \A g \in Path : IsStrictPrefix(p[j].path, g) /\ V[p[j].node].at[g] # Missing
              => IndexIn(g, p[j].path) <= p[j].length
    BY <1>10, <2>1, <2>2 DEF ListsDone
  <2>4. W[p[j].node].at[p[j].path] = Here
    <3>1. p[j].node \in Node /\ p[j].path \in Path
      BY <1>1, <2>1
    <3>2. V[n].at[q] # Here
      BY <1>2, ValueAssumption
    <3>3. QED BY <1>9, <2>3, <3>1, <3>2
  <2>5. ASSUME p[j].node = n, IsStrictPrefix(p[j].path, q) PROVE IndexIn(q, p[j].path) <= p[j].length
    BY <1>1, <2>1, <2>2, <2>5, WalkedUnder DEF n, q
  <2>6. QED BY <1>1, <1>9, <2>1, <2>3, <2>4, <2>5
<1>14. ListsToDo(W, p, k)
  <2>1. SUFFICES ASSUME NEW y \in ListLocations, \A j \in 1..k : ~IsListAt(p[j], y)
        PROVE  ListWhole(W[y.id].at, y.path)
    BY DEF ListsToDo
  <2>2. ListWhole(V[y.id].at, y.path) /\ y.id \in Node /\ y.path \in Path
    BY <1>0, <1>1, <1>10, <2>1 DEF ListsToDo
  <2>3. ~(y.id = n /\ IsStrictPrefix(y.path, q))
    <3>1. SUFFICES ASSUME y.id = n, IsStrictPrefix(y.path, q) PROVE FALSE
      OBVIOUS
    <3>2. [id |-> n, path |-> y.path] \in ListLocations
      BY <1>0, <3>1
    <3>3. \E j \in 1..l : p[j].op = "list" /\ p[j].node = n /\ p[j].path = y.path
      BY <2>2, <3>1, <3>2, WalkedUnder DEF n, q
    <3>4. QED BY <1>1, <2>1, <3>1, <3>3 DEF IsListAt
  <2>4. QED BY <1>1, <1>2, <1>9, <2>2, <2>3, ValueAssumption DEF ListWhole
<1>15. RefsDone(W, R, p, k)
  <2>1. ASSUME NEW j \in 1..k, p[j].op = "ref"
        PROVE  W[p[j].node].at[p[j].path] # Missing \/ \E r \in R : IsAt(r, p[j].node, p[j].path)
    <3>1. p[j].node \in Node /\ p[j].path \in Path /\ (j \in 1..l \/ j = k)
      BY <1>1, <2>1
    <3>2. CASE j = k
      BY <1>9, <3>1, <3>2, ValueAssumption DEF n, q
    <3>3. CASE j \in 1..l
      BY <1>9, <1>10, <2>1, <3>1, <3>3, ValueAssumption DEF RefsDone
    <3>4. QED BY <3>1, <3>2, <3>3
  <2>2. QED BY <2>1 DEF RefsDone
<1>16. Reached(View(d.nodes), Present(d.nodes), R, p, k)
  BY <1>1, <1>7, NodeAssumption DEF Reached, Node
<1>17. QED BY <1>7, <1>8, <1>10, <1>11, <1>12, <1>13, <1>14, <1>15, <1>16 DEF WalkInv, W

\* The edits that a walk has collected.
Collected(edits) == {edits[a] : a \in 1..Len(edits)}

\* One more edit is collected.
LEMMA CollectedMore ==
    ASSUME NEW edits \in Seq(EditRecord), NEW r \in EditRecord
    PROVE  /\ Append(edits, r) \in Seq(EditRecord)
           /\ Collected(Append(edits, r)) = Collected(edits) \cup {r}
<1>1. Append(edits, r) \in Seq(EditRecord)
  OBVIOUS
<1>2. Collected(Append(edits, r)) = Collected(edits) \cup {r}
  <2>1. /\ Len(Append(edits, r)) = Len(edits) + 1 /\ Len(edits) \in Nat
        /\ \A a \in 1..Len(edits) : Append(edits, r)[a] = edits[a]
        /\ Append(edits, r)[Len(edits) + 1] = r
    OBVIOUS
  <2>2. \A a \in 1..(Len(edits) + 1) : a \in 1..Len(edits) \/ a = Len(edits) + 1
    BY <2>1
  <2>3. \A a \in 1..Len(edits) : a \in 1..(Len(edits) + 1)
    BY <2>1
  <2>4. Len(edits) + 1 \in 1..(Len(edits) + 1)
    BY <2>1
  <2>5. QED BY <2>1, <2>2, <2>3, <2>4 DEF Collected
<1>3. QED BY <1>1, <1>2

\* The edits of two lists are collected.
LEMMA CollectedBoth ==
    ASSUME NEW edits \in Seq(EditRecord), NEW more \in Seq(EditRecord)
    PROVE  /\ edits \o more \in Seq(EditRecord)
           /\ Collected(edits \o more) = Collected(edits) \cup Collected(more)
<1>1. edits \o more \in Seq(EditRecord)
  OBVIOUS
<1>2. Collected(edits \o more) = Collected(edits) \cup Collected(more)
  <2>1. /\ Len(edits \o more) = Len(edits) + Len(more) /\ Len(edits) \in Nat /\ Len(more) \in Nat
        /\ \A a \in 1..Len(edits) : (edits \o more)[a] = edits[a]
        /\ \A a \in 1..Len(more) : (edits \o more)[Len(edits) + a] = more[a]
    OBVIOUS
  <2>2. \A a \in 1..(Len(edits) + Len(more)) :
           a \in 1..Len(edits) \/ (a - Len(edits) \in 1..Len(more) /\ Len(edits) + (a - Len(edits)) = a)
    BY <2>1
  <2>3. \A a \in 1..Len(edits) : a \in 1..(Len(edits) + Len(more))
    BY <2>1
  <2>4. \A a \in 1..Len(more) : Len(edits) + a \in 1..(Len(edits) + Len(more))
    BY <2>1
  <2>5. ASSUME NEW x \in Collected(edits \o more) PROVE x \in Collected(edits) \cup Collected(more)
    BY <2>1, <2>2 DEF Collected
  <2>6. ASSUME NEW x \in Collected(edits) \cup Collected(more) PROVE x \in Collected(edits \o more)
    BY <2>1, <2>3, <2>4 DEF Collected
  <2>7. QED BY <2>5, <2>6
<1>3. QED BY <1>1, <1>2

\* A walk after k instructions.
WalkedTo(w, p, k, merged) ==
    /\ w = [editor |-> w.editor, edits |-> w.edits] /\ w.edits \in Seq(EditRecord)
    /\ ~w.editor.failed =>
          /\ Sound(w.editor) /\ w.editor.merged = merged
          /\ WalkInv(w.editor, Collected(w.edits), p, k)

\* The walk of a reference keeps the invariant of the walk.
LEMMA RefWalked ==
    ASSUME NEW w, NEW p \in Payload, NEW k \in DOMAIN p, NEW l, l = k - 1, NEW merged,
           WalkedTo(w, p, l, merged), ~w.editor.failed, p[k].op = "ref"
    PROVE  WalkedTo(WalkRef(w, p[k]), p, k, merged)
<1> DEFINE n == p[k].node
           q == p[k].path
           t == p[k].target
           e == w.editor
           R == Collected(w.edits)
           V == View(e.nodes)
           P == Present(e.nodes)
           v == V[n].at[q]
           prev == IF v \in {Missing, Null} THEN Null ELSE v.to
           r == ReferenceEdit(n, q, prev, t, TRUE)
<1>1. /\ w = [editor |-> e, edits |-> w.edits] /\ w.edits \in Seq(EditRecord)
      /\ Sound(e) /\ e.merged = merged /\ WalkInv(e, R, p, l)
  BY DEF WalkedTo
<1>2. /\ n \in Node /\ q \in Path /\ t \in Entity \cup {Null} /\ [id |-> n, path |-> q] \in RefLocations
      /\ Null \notin Entity
  BY InstructionTyped, LocationTyped, NodeAssumption DEF Node
<1>3. /\ ValueAt(e, n, q) = v
      /\ v = Missing \/ v = Null \/ v \in Pointer
      /\ v \in Pointer => v.to \in Entity /\ v # Missing /\ v # Null /\ Targets(v) = {v.to}
      /\ v \notin Pointer => Targets(v) = {}
  <2> HIDE DEF n, q, e
  <2>1. QED BY <1>1, <1>2, ValueOfReference
<1>4. prev \in Entity \cup {Null} /\ OneOf(prev) = Targets(v)
  BY <1>2, <1>3, ValueAssumption DEF OneOf
<1>5. WalkRef(w, p[k]) =
        IF t # prev THEN [w EXCEPT !.edits = Append(@, r)]
        ELSE IF t = Null /\ v # Null
        THEN [w EXCEPT !.editor = SetValue(@, n, q, Null)]
        ELSE w
  <2>1. ValueAt(w.editor, p[k].node, p[k].path) = v
    BY <1>3
  <2>2. QED BY <2>1 DEF WalkRef
<1>6. CASE t # prev
  <2>1. r \in EditRecord /\ WalkInv(e, R \cup {r}, p, k)
    <3> HIDE DEF e, R, prev
    <3>1. QED BY <1>1, <1>4, <1>6, RefEdited
  <2> DEFINE edits == Append(w.edits, r)
  <2>2. edits \in Seq(EditRecord) /\ Collected(edits) = R \cup {r}
    <3> HIDE DEF r
    <3>1. QED BY <1>1, <2>1, CollectedMore
  <2>3. WalkRef(w, p[k]) = [editor |-> e, edits |-> edits]
    BY <1>1, <1>5, <1>6
  <2> HIDE DEF edits
  <2> DEFINE x == WalkRef(w, p[k])
  <2>4. x.editor = e /\ x.edits = edits /\ x = [editor |-> x.editor, edits |-> x.edits]
    BY <2>3
  <2>5. Sound(e) /\ e.merged = merged /\ WalkInv(e, Collected(edits), p, k)
    BY <1>1, <2>1, <2>2
  <2> HIDE DEF e, R, r, x
  <2>6. WalkedTo(x, p, k, merged)
    BY <2>2, <2>4, <2>5 DEF WalkedTo
  <2>7. QED BY <2>6 DEF x
<1>7. CASE t = prev /\ t = Null /\ v # Null
  <2> DEFINE d == SetValue(e, n, q, Null)
  <2>1. v = Missing
    BY <1>2, <1>3, <1>7
  <2>2. WalkRef(w, p[k]) = [editor |-> d, edits |-> w.edits]
    BY <1>1, <1>5, <1>7
  <2>3. ~d.failed => Sound(d) /\ WalkInv(d, R, p, k) /\ d.merged = e.merged
    <3>1. /\ d = SetValue(e, p[k].node, p[k].path, Null) /\ p[k].target = Null
          /\ View(e.nodes)[p[k].node].at[p[k].path] = Missing
      BY <1>7, <2>1
    <3> HIDE DEF d, e, R
    <3>2. QED BY <1>1, <3>1, RefNulled
  <2> HIDE DEF d, R, e
  <2>4. QED BY <1>1, <2>2, <2>3 DEF WalkedTo, R
<1>8. CASE t = prev /\ ~(t = Null /\ v # Null)
  <2>1. WalkRef(w, p[k]) = w
    BY <1>5, <1>8
  <2>2. v # Missing
    BY <1>3, <1>8, ValueAssumption
  <2>3. /\ \A j \in 1..l : j \in 1..k
        /\ \A j \in 1..k : j \in 1..l \/ j = k
        /\ 1..l \subseteq DOMAIN p
        /\ R \subseteq EditRecord /\ Pending(V, R) /\ Origins(R, p, l)
    BY <1>1, Earlier DEF WalkInv
  <2>4. t \in Entity => V[t].inbound # {} \/ \E s \in R : s.next = t
    <3>1. SUFFICES ASSUME t \in Entity PROVE V[t].inbound # {} \/ \E s \in R : s.next = t
      OBVIOUS
    <3>2. CASE \E s \in R : IsAt(s, n, q)
      <4>1. PICK s \in R : IsAt(s, n, q)
        BY <3>2
      <4>2. s.next = t
        BY <2>3, <4>1, EditOfReference
      <4>3. QED BY <4>2
    <3>3. CASE \A s \in R : ~IsAt(s, n, q)
      <4>1. Referred(V, n, q) = {t}
        BY <1>2, <1>3, <1>8, <2>3, <3>1, <3>3 DEF Pending
      <4>2. [id |-> n, path |-> q] \in V[t].inbound
        BY <1>1, <1>2, <3>1, <4>1 DEF Sound, EndsMatch, Referred, Node
      <4>3. QED BY <4>2
    <3>4. QED BY <3>2, <3>3
  <2> HIDE DEF V, P, R, v
  <2>5. Origins(R, p, k)
    BY <2>3 DEF Origins
  <2>6. ListsDone(V, p, k) /\ ListsToDo(V, p, k)
    BY <1>1, <2>3 DEF WalkInv, ListsDone, ListsToDo, V
  <2>7. RefsDone(V, R, p, k)
    BY <1>1, <2>2, <2>3 DEF WalkInv, RefsDone, v, V
  <2>8. Reached(V, P, R, p, k)
    BY <1>1, <2>3, <2>4 DEF WalkInv, Reached, P, V
  <2>9. WalkInv(e, R, p, k)
    BY <1>1, <2>3, <2>5, <2>6, <2>7, <2>8 DEF WalkInv, V, P
  <2>10. QED BY <1>1, <2>1, <2>9 DEF WalkedTo, R
<1>9. QED BY <1>6, <1>7, <1>8

\* A finite set as a sequence.
LEMMA SequenceOf ==
    ASSUME NEW S, IsFiniteSet(S)
    PROVE  /\ SetToSeq(S) \in Seq(S)
           /\ {SetToSeq(S)[a] : a \in 1..Len(SetToSeq(S))} = S
<1> DEFINE N == Cardinality(S)
           f == SetToSeq(S)
<1>1. N \in Nat /\ Bijection(1..N, S) # {}
  BY FS_CardinalityType DEF ExistsBijection
<1>2. \E b \in [1..N -> S] : IsInjective(b)
  BY <1>1 DEF Bijection, Injection
<1>3. f \in [1..N -> S] /\ IsInjective(f)
  BY <1>2 DEF SetToSeq
<1> HIDE DEF f
<1>4. f \in Injection(1..N, S)
  BY <1>3 DEF Injection
<1>5. Cardinality(1..N) = N
  BY <1>1, Segment
<1>6. f \in Surjection(1..N, S)
  BY <1>4, <1>5, FS_Injection
<1>7. f \in Seq(S) /\ Len(f) = N
  BY <1>1, <1>3
<1>8. {f[a] : a \in 1..N} = S
  BY <1>3, <1>6 DEF Surjection
<1>9. QED BY <1>7, <1>8 DEF f

\* References are finitely many.
LEMMA FiniteReferences == \A S \in SUBSET Reference : IsFiniteSet(S)
<1> DEFINE f == [x \in Node \X Path |-> [id |-> x[1], path |-> x[2]]]
<1>1. IsFiniteSet(Node \X Path)
  BY PathAssumption, NodeAssumption, FS_Product
<1>2. f \in Surjection(Node \X Path, Reference)
  <2>1. f \in [Node \X Path -> Reference]
    BY DEF Reference
  <2>2. ASSUME NEW r \in Reference PROVE \E x \in Node \X Path : f[x] = r
    <3>1. r.id \in Node /\ r.path \in Path /\ r = [id |-> r.id, path |-> r.path]
      BY DEF Reference
    <3>2. <<r.id, r.path>> \in Node \X Path /\ f[<<r.id, r.path>>] = r
      BY <3>1
    <3>3. QED BY <3>2
  <2> HIDE DEF f
  <2>3. QED BY <2>1, <2>2 DEF Surjection
<1> HIDE DEF f
<1>3. IsFiniteSet(Reference)
  BY <1>1, <1>2, FS_Surjection
<1>4. QED BY <1>3, FS_Subset

\* An element tells its list and its index.
LEMMA ElementOf ==
    ASSUME NEW q \in Path, NEW g \in Path, NEW a \in Nat, NEW b \in Nat, Append(q, a) = Append(g, b)
    PROVE  q = g /\ a = b
<1> DEFINE S == {q[i] : i \in 1..Len(q)} \cup {g[i] : i \in 1..Len(g)} \cup Nat
<1>1. /\ Len(q) \in Nat /\ q = [i \in 1..Len(q) |-> q[i]]
      /\ Len(g) \in Nat /\ g = [i \in 1..Len(g) |-> g[i]]
  BY PathAssumption
<1>2. q \in Seq(S) /\ g \in Seq(S)
  <2>1. (\A i \in 1..Len(q) : q[i] \in S) /\ (\A i \in 1..Len(g) : g[i] \in S)
    OBVIOUS
  <2> HIDE DEF S
  <2>2. [i \in 1..Len(q) |-> q[i]] \in [1..Len(q) -> S] /\ [i \in 1..Len(g) |-> g[i]] \in [1..Len(g) -> S]
    BY <2>1
  <2>3. QED BY <1>1, <2>2
<1>3. a \in S /\ b \in S
  OBVIOUS
<1> HIDE DEF S
<1>4. /\ Len(Append(q, a)) = Len(q) + 1 /\ Append(q, a)[Len(q) + 1] = a
      /\ \A i \in 1..Len(q) : Append(q, a)[i] = q[i]
      /\ Len(Append(g, b)) = Len(g) + 1 /\ Append(g, b)[Len(g) + 1] = b
      /\ \A i \in 1..Len(g) : Append(g, b)[i] = g[i]
  BY <1>2, <1>3
<1>5. Len(q) = Len(g)
  <2>1. Len(Append(q, a)) = Len(Append(g, b))
    OBVIOUS
  <2>2. Len(q) \in Nat /\ Len(g) \in Nat /\ Len(q) + 1 = Len(g) + 1
    BY <1>1, <1>4, <2>1
  <2>3. QED BY <2>2
<1>6. \A i \in 1..Len(q) : q[i] = g[i]
  BY <1>4, <1>5
<1>7. QED BY <1>1, <1>4, <1>5, <1>6

\* What there is in a list.
Elements(at, list) == {q \in Path : IsStrictPrefix(list, q) /\ at[q] # Missing}

\* No element of a whole list has an index beyond their number.
LEMMA ListCounted ==
    ASSUME NEW at, NEW y \in Path, ListWhole(at, y), NEW q \in Elements(at, y),
           IndexIn(q, y) \in Nat
    PROVE  Cardinality(Elements(at, y)) \in Nat /\ IndexIn(q, y) <= Cardinality(Elements(at, y))
<1> DEFINE x == IndexIn(q, y)
           E == Elements(at, y)
           f == [i \in 1..x |-> Append(y, i)]
<1>1. IsFiniteSet(E) /\ Cardinality(E) \in Nat
  <2>1. E \in SUBSET Path
    BY DEF Elements
  <2> HIDE DEF E
  <2>2. QED BY <2>1, PathAssumption, Parts
<1>2. \A i \in 1..x : Append(y, i) \in E
  BY ElementPath DEF ListWhole, Elements
<1> HIDE DEF E
<1>3. f \in [1..x -> E]
  BY <1>2
<1>4. \A i, j \in 1..x : f[i] = f[j] => i = j
  BY ElementPath
<1>5. f \in Injection(1..x, E)
  <2> HIDE DEF f
  <2>1. QED BY <1>3, <1>4 DEF Injection, IsInjective
<1>6. Cardinality(1..x) <= Cardinality(E)
  <2> HIDE DEF f
  <2>1. QED BY <1>1, <1>5, FS_Injection
<1>7. Cardinality(1..x) = x
  BY Segment
<1>8. QED BY <1>1, <1>6, <1>7 DEF E

\* The instruction k is a list of length at y of n, after a walk of what is
\* before it.
AtList(e, R, p, k, n, y, length) ==
    /\ Sound(e) /\ WalkInv(e, R, p, k - 1) /\ p \in Payload /\ k \in DOMAIN p
    /\ p[k].op = "list" /\ p[k].node = n /\ p[k].path = y /\ p[k].length = length

\* The list was there before.
Listed(p, k, n, y) == \E j \in 1..(k - 1) : p[j].op = "list" /\ p[j].node = n /\ p[j].path = y

\* What is known where a list is walked.
LEMMA AtListTyped ==
    ASSUME NEW e, NEW R, NEW p, NEW k, NEW n, NEW y, NEW length, AtList(e, R, p, k, n, y, length)
    PROVE  /\ n \in Node /\ y \in Path /\ length \in Nat /\ [id |-> n, path |-> y] \in ListLocations
           /\ View(e.nodes) \in [Node -> NodeSnapshot] /\ View(e.nodes)[n].at \in [Path -> Value]
           /\ Kinds(View(e.nodes)[n].at, n)
           /\ View(e.nodes)[n].at[y] \in {Missing, Here}
<1>1. n \in Node /\ y \in Path /\ length \in Nat /\ [id |-> n, path |-> y] \in ListLocations
  BY InstructionTyped, LocationTyped DEF AtList
<1>2. e.nodes \in [Node -> NodeSnapshot \cup {Absent}]
  BY DEF AtList, Sound, Editor
<1>3. View(e.nodes) \in [Node -> NodeSnapshot]
  BY <1>2, ViewTyped
<1>4. View(e.nodes)[n].at \in [Path -> Value]
  BY <1>1, <1>3 DEF NodeSnapshot, Value
<1>5. Kinds(View(e.nodes)[n].at, n)
  BY <1>1, <1>3, KindsOf DEF AtList, Sound
<1>6. View(e.nodes)[n].at[y] \in {Missing, Here}
  BY <1>1, <1>5, LocationKinds DEF Kinds
<1>7. QED BY <1>1, <1>3, <1>4, <1>5, <1>6

\* The elements the list had before: references or nulls, none beyond the end if it was walked already.
LEMMA ElementsBefore ==
    ASSUME NEW e, NEW R, NEW p, NEW k, NEW n, NEW y, NEW length, AtList(e, R, p, k, n, y, length),
           NEW g \in Elements(View(e.nodes)[n].at, y)
    PROVE  /\ g \in Path /\ View(e.nodes)[n].at[g] \in Pointer \cup {Null}
           /\ [id |-> n, path |-> g] \in RefLocations
           /\ IndexIn(g, y) \in Nat \ {0} /\ g = Append(y, IndexIn(g, y))
           /\ View(e.nodes)[n].at[y] = Here
           /\ Listed(p, k, n, y) => IndexIn(g, y) <= length
           /\ ~Listed(p, k, n, y) =>
                /\ ListWhole(View(e.nodes)[n].at, y)
                /\ Cardinality(Elements(View(e.nodes)[n].at, y)) \in Nat
                /\ IndexIn(g, y) <= Cardinality(Elements(View(e.nodes)[n].at, y))
<1> DEFINE at == View(e.nodes)[n].at
<1>1. /\ n \in Node /\ y \in Path /\ length \in Nat /\ [id |-> n, path |-> y] \in ListLocations
      /\ Kinds(at, n)
  BY AtListTyped
<1>2. g \in Path /\ IsStrictPrefix(y, g) /\ at[g] # Missing
  BY DEF Elements
<1> HIDE DEF at
<1>3. [id |-> n, path |-> g] \in RefLocations \cup ListLocations
  BY <1>1, <1>2 DEF Kinds
<1>4. /\ [id |-> n, path |-> g] \in RefLocations
      /\ IndexIn(g, y) \in Nat \ {0} /\ g = Append(y, IndexIn(g, y))
  BY <1>1, <1>2, <1>3, LocationKinds
<1>5. at[g] \in Pointer \cup {Null}
  BY <1>1, <1>2, <1>4, LocationKinds DEF Kinds
<1>6. CASE Listed(p, k, n, y)
  <2>1. PICK j \in 1..(k - 1) : p[j].op = "list" /\ p[j].node = n /\ p[j].path = y
    BY <1>6 DEF Listed
  <2>2. at[y] = Here /\ IndexIn(g, y) <= p[j].length
    BY <1>2, <2>1 DEF AtList, WalkInv, ListsDone, at
  <2>3. p[j] = p[k]
    <3>1. j \in DOMAIN p
      BY Earlier DEF AtList
    <3>2. QED BY <2>1, <3>1, PayloadsAreWalks DEF OneResult, AtList
  <2>4. QED BY <1>2, <1>4, <1>5, <1>6, <2>2, <2>3 DEF AtList, at
<1>7. CASE ~Listed(p, k, n, y)
  <2> DEFINE loc == [id |-> n, path |-> y]
  <2>1. loc.id = n /\ loc.path = y /\ loc \in ListLocations
    BY <1>1
  <2> HIDE DEF loc
  <2>2. \A j \in 1..(k - 1) : ~IsListAt(p[j], loc)
    BY <1>7, <2>1 DEF Listed, IsListAt
  <2>3. ListWhole(at, y)
    BY <2>1, <2>2 DEF AtList, WalkInv, ListsToDo, at
  <2>4. at[y] = Here
    BY <1>2, <2>3 DEF ListWhole
  <2>5. Cardinality(Elements(at, y)) \in Nat /\ IndexIn(g, y) <= Cardinality(Elements(at, y))
    BY <1>1, <1>4, <2>3, ListCounted DEF at
  <2>6. QED BY <1>2, <1>4, <1>5, <1>7, <2>3, <2>4, <2>5 DEF at
<1>8. QED BY <1>6, <1>7

\* The edits before it at references in the list.
LEMMA EditsBefore ==
    ASSUME NEW e, NEW R, NEW p, NEW k, NEW n, NEW y, NEW length, AtList(e, R, p, k, n, y, length),
           NEW s \in R, NEW g \in Path, IsAt(s, n, g), IsStrictPrefix(y, g)
    PROVE  /\ Listed(p, k, n, y) /\ s \in EditRecord
           /\ s.write => IndexIn(g, y) <= length
           /\ ~s.write => s.next = Null /\ IndexIn(g, y) > length
<1>0. p \in Payload /\ k \in DOMAIN p
  BY DEF AtList
<1>1. /\ n \in Node /\ y \in Path /\ length \in Nat /\ [id |-> n, path |-> y] \in ListLocations
      /\ R \subseteq EditRecord /\ s.node = n /\ s.path = g
  BY AtListTyped DEF AtList, WalkInv, IsAt
<1>2. PICK j \in 1..(k - 1) :
         /\ p[j].node = s.node
         /\ \/ s.write /\ p[j].op = "ref" /\ p[j].path = s.path /\ p[j].target = s.next
               /\ s.prev # s.next
            \/ ~s.write /\ s.next = Null /\ p[j].op = "list" /\ IsStrictPrefix(p[j].path, s.path)
               /\ [id |-> s.node, path |-> s.path] \in RefLocations
               /\ IndexIn(s.path, p[j].path) > p[j].length
  BY DEF AtList, WalkInv, Origins
<1>3. j \in DOMAIN p /\ j \in 1..k /\ k \in Nat
  BY <1>0, Earlier
<1>4. CASE s.write
  <2>1. p[j].op = "ref" /\ p[j].node = n /\ p[j].path = g
    BY <1>1, <1>2, <1>4
  <2>2. /\ \E i \in 1..(j - 1) : p[i].op = "list" /\ p[i].node = n /\ p[i].path = y
        /\ \A i \in DOMAIN p : p[i].op = "list" /\ p[i].node = n /\ p[i].path = y
                 => IndexIn(g, y) <= p[i].length
    BY <1>0, <1>1, <1>3, <2>1, WalkedUnder
  <2>3. \A i \in 1..(j - 1) : i \in 1..(k - 1)
    BY <1>3
  <2>4. QED BY <1>0, <1>1, <1>4, <2>2, <2>3 DEF Listed, AtList
<1>5. CASE ~s.write
  <2>1. /\ p[j].op = "list" /\ p[j].node = n /\ IsStrictPrefix(p[j].path, g)
        /\ [id |-> n, path |-> g] \in RefLocations /\ IndexIn(g, p[j].path) > p[j].length /\ s.next = Null
    BY <1>1, <1>2, <1>5
  <2>2. p[j].path \in Path /\ [id |-> n, path |-> p[j].path] \in ListLocations
    BY <1>0, <1>3, <2>1, InstructionTyped, LocationTyped
  <2>3. /\ IndexIn(g, y) \in Nat /\ g = Append(y, IndexIn(g, y))
        /\ IndexIn(g, p[j].path) \in Nat /\ g = Append(p[j].path, IndexIn(g, p[j].path))
    BY <1>1, <2>1, <2>2, LocationKinds
  <2>4. p[j].path = y
    <3> DEFINE a == IndexIn(g, y)
               b == IndexIn(g, p[j].path)
    <3>1. a \in Nat /\ b \in Nat /\ Append(y, a) = Append(p[j].path, b)
      BY <2>3
    <3> HIDE DEF a, b
    <3>2. QED BY <1>1, <2>2, <3>1, ElementOf
  <2>5. p[j] = p[k]
    BY <1>0, <1>3, <2>1, <2>4, PayloadsAreWalks DEF OneResult, AtList
  <2>6. QED BY <1>1, <1>2, <1>5, <2>1, <2>4, <2>5 DEF Listed, AtList
<1>6. QED BY <1>4, <1>5

\* The references in the list.
LEMMA ReferencesBefore ==
    ASSUME NEW e, NEW R, NEW p, NEW k, NEW n, NEW y, NEW length, AtList(e, R, p, k, n, y, length),
           NEW r \in View(e.nodes)[n].outbound, IsStrictPrefix(y, r.path)
    PROVE  /\ r = [id |-> r.id, path |-> r.path] /\ r.path \in Path /\ r.id \in Entity
           /\ [id |-> n, path |-> r.path] \in RefLocations
           /\ r.id \in Referred(View(e.nodes), n, r.path)
<1>1. /\ n \in Node /\ View(e.nodes) \in [Node -> NodeSnapshot] /\ [id |-> n, path |-> y] \in ListLocations
  BY AtListTyped
<1>2. r \in Reference
  BY <1>1 DEF NodeSnapshot
<1>3. r = [id |-> r.id, path |-> r.path] /\ r.path \in Path /\ r.id \in Node
  BY <1>2 DEF Reference
<1>4. ReferencesLed(View(e.nodes))
  BY DEF AtList, Sound
<1>5. [id |-> n, path |-> r.path] # Self(r.id)
  <2>1. y \in Path
    BY AtListTyped
  <2>2. QED BY <1>3, <2>1, InsideNotAll DEF Self
<1>6. \/ r.id \in Param /\ Owner(r.id) = [id |-> n, path |-> r.path]
      \/ r.id \in Entity /\ [id |-> n, path |-> r.path] \in RefLocations
  BY <1>1, <1>3, <1>4, <1>5 DEF ReferencesLed
<1>7. ASSUME r.id \in Param, Owner(r.id) = [id |-> n, path |-> r.path] PROVE FALSE
  BY <1>1, <1>7, PayloadsAreWalks DEF FieldsHaveOneKind, Below
<1>8. QED BY <1>3, <1>5, <1>6, <1>7 DEF Referred

\* Two edits with the same parts are the same.
LEMMA SameEdit ==
    ASSUME NEW s \in EditRecord, NEW t \in EditRecord, s.node = t.node, s.path = t.path,
           s.prev = t.prev, s.next = t.next, s.write = t.write
    PROVE  s = t
BY DEF EditRecord

\* The references beyond the end of a list, and the edits that drop them.
Beyond(e, n, y, length) ==
    IF Cardinality(Elements(View(e.nodes)[n].at, y)) <= length THEN {}
    ELSE {r \in View(e.nodes)[n].outbound : IsStrictPrefix(y, r.path) /\ IndexIn(r.path, y) > length}

Drops(e, n, y, length) ==
    {ReferenceEdit(n, r.path, r.id, Null, FALSE) : r \in Beyond(e, n, y, length)}

\* An edit that drops a reference beyond the end is of this list, writes nothing and is the only one there.
LEMMA DropsKnown ==
    ASSUME NEW e, NEW R, NEW p, NEW k, NEW n, NEW y, NEW length, AtList(e, R, p, k, n, y, length),
           NEW s \in Drops(e, n, y, length)
    PROVE  /\ s \in EditRecord /\ s.node = n /\ s.next = Null /\ ~s.write
           /\ IsStrictPrefix(y, s.path) /\ IndexIn(s.path, y) > length
           /\ [id |-> n, path |-> s.path] \in RefLocations
           /\ Referred(View(e.nodes), n, s.path) = OneOf(s.prev)
           /\ \A t \in R \cup Drops(e, n, y, length) : IsAt(t, n, s.path) => t = s
<1> DEFINE V == View(e.nodes)
<1>0. n \in Node /\ length \in Nat /\ Null \notin Entity
  BY AtListTyped, NodeAssumption DEF Node
<1>1. \A t \in Drops(e, n, y, length) :
         /\ t \in EditRecord /\ t.node = n /\ t.next = Null /\ t.write = FALSE
         /\ t.path \in Path /\ IsStrictPrefix(y, t.path) /\ IndexIn(t.path, y) > length
         /\ [id |-> n, path |-> t.path] \in RefLocations
         /\ t.prev \in Referred(V, n, t.path) /\ t.prev \in Entity
         /\ Cardinality(Elements(V[n].at, y)) > length
  <2> SUFFICES ASSUME NEW r \in Beyond(e, n, y, length)
               PROVE LET t == ReferenceEdit(n, r.path, r.id, Null, FALSE)
                     IN  /\ t \in EditRecord /\ t.node = n /\ t.next = Null /\ t.write = FALSE
                         /\ t.path \in Path /\ IsStrictPrefix(y, t.path) /\ IndexIn(t.path, y) > length
                         /\ [id |-> n, path |-> t.path] \in RefLocations
                         /\ t.prev \in Referred(V, n, t.path) /\ t.prev \in Entity
                         /\ Cardinality(Elements(V[n].at, y)) > length
    BY DEF Drops
  <2>1. /\ ~(Cardinality(Elements(V[n].at, y)) <= length)
        /\ r \in V[n].outbound /\ IsStrictPrefix(y, r.path) /\ IndexIn(r.path, y) > length
    BY DEF Beyond
  <2>2. /\ r.path \in Path /\ r.id \in Entity /\ [id |-> n, path |-> r.path] \in RefLocations
        /\ r.id \in Referred(V, n, r.path)
    BY <2>1, ReferencesBefore
  <2>3. Cardinality(Elements(V[n].at, y)) > length
    <3>1. IsFiniteSet(Elements(V[n].at, y))
      <4>1. Elements(V[n].at, y) \in SUBSET Path
        BY DEF Elements
      <4>2. QED BY <4>1, PathAssumption, Parts
    <3>2. Cardinality(Elements(V[n].at, y)) \in Nat
      BY <3>1, FS_CardinalityType
    <3>3. QED BY <1>0, <2>1, <3>2
  <2> HIDE DEF V
  <2>4. QED BY <1>0, <2>1, <2>2, <2>3 DEF ReferenceEdit, EditRecord
<1>2. R \subseteq EditRecord /\ Pending(V, R)
  BY DEF AtList, WalkInv
<1>3. s.path \in Path /\ IsStrictPrefix(y, s.path) /\ IndexIn(s.path, y) > length
  BY <1>1
<1> HIDE DEF V
<1>4. CASE \E t \in R : IsAt(t, n, s.path)
  <2>1. PICK t \in R : IsAt(t, n, s.path)
    BY <1>4
  <2>2. /\ t \in EditRecord /\ t.node = n /\ t.path = s.path
        /\ Listed(p, k, n, y)
        /\ t.write => IndexIn(s.path, y) <= length
        /\ ~t.write => t.next = Null
    BY <1>3, <2>1, EditsBefore DEF IsAt
  <2>3. IndexIn(s.path, y) \in Nat
    BY <1>0, <1>1, <1>3, AtListTyped, LocationKinds
  <2>4. t.write = FALSE /\ t.next = Null
    BY <1>0, <1>3, <2>2, <2>3 DEF EditRecord
  <2>5. Referred(V, n, s.path) = OneOf(t.prev)
    BY <1>2, <2>1, <2>2 DEF Pending
  <2>6. \A x \in Drops(e, n, y, length) : x.path = s.path => x = t
    <3> TAKE x \in Drops(e, n, y, length)
    <3>1. SUFFICES ASSUME x.path = s.path PROVE x = t
      OBVIOUS
    <3>2. x.prev = t.prev
      BY <1>1, <2>5, <3>1 DEF OneOf
    <3>3. x \in EditRecord /\ x.node = n /\ x.next = Null /\ x.write = FALSE
      BY <1>1
    <3>4. QED BY <2>2, <2>4, <3>1, <3>2, <3>3, SameEdit
  <2>7. \A x \in R : IsAt(x, n, s.path) => x = t
    BY <1>2, <2>1, <2>2 DEF Pending, IsAt
  <2>8. s = t
    BY <2>6
  <2>9. QED BY <1>1, <2>5, <2>6, <2>7, <2>8 DEF IsAt, V
<1>5. CASE \A t \in R : ~IsAt(t, n, s.path)
  <2>1. Referred(V, n, s.path) = Targets(V[n].at[s.path])
    BY <1>0, <1>2, <1>3, <1>5 DEF Pending
  <2>2. Referred(V, n, s.path) = {s.prev}
    BY <1>1, <2>1 DEF Targets
  <2>3. \A x \in Drops(e, n, y, length) : x.path = s.path => x = s
    <3> TAKE x \in Drops(e, n, y, length)
    <3>1. SUFFICES ASSUME x.path = s.path PROVE x = s
      OBVIOUS
    <3>2. x.prev = s.prev
      BY <1>1, <2>2, <3>1
    <3>3. /\ x \in EditRecord /\ x.node = n /\ x.next = Null /\ x.write = FALSE
          /\ s \in EditRecord /\ s.node = n /\ s.next = Null /\ s.write = FALSE
      BY <1>1
    <3>4. QED BY <3>1, <3>2, <3>3, SameEdit
  <2>4. OneOf(s.prev) = {s.prev}
    BY <1>0, <1>1 DEF OneOf
  <2>5. QED BY <1>1, <1>5, <2>2, <2>3, <2>4 DEF IsAt, V
<1>6. QED BY <1>4, <1>5

\* No pointer beyond the end is without an edit.
LEMMA DropsAll ==
    ASSUME NEW e, NEW R, NEW p, NEW k, NEW n, NEW y, NEW length, AtList(e, R, p, k, n, y, length),
           NEW g \in Elements(View(e.nodes)[n].at, y), IndexIn(g, y) > length,
           \A s \in R \cup Drops(e, n, y, length) : ~IsAt(s, n, g)
    PROVE  View(e.nodes)[n].at[g] \notin Pointer
<1> DEFINE V == View(e.nodes)
           E == Elements(V[n].at, y)
<1>1. SUFFICES ASSUME V[n].at[g] \in Pointer PROVE FALSE
  OBVIOUS
<1>2. n \in Node /\ length \in Nat /\ g \in Path /\ IsStrictPrefix(y, g) /\ IndexIn(g, y) \in Nat
  <2>1. n \in Node /\ length \in Nat
    BY AtListTyped
  <2>2. IndexIn(g, y) \in Nat
    BY ElementsBefore
  <2>3. g \in Path /\ IsStrictPrefix(y, g)
    BY DEF Elements
  <2>4. QED BY <2>1, <2>2, <2>3
<1>3. ~Listed(p, k, n, y)
  <2>1. Listed(p, k, n, y) => IndexIn(g, y) <= length
    BY ElementsBefore
  <2>2. QED BY <1>2, <2>1
<1>4. Cardinality(E) \in Nat /\ IndexIn(g, y) <= Cardinality(E)
  BY <1>3, ElementsBefore
<1> HIDE DEF V, E
<1>5. Referred(V, n, g) = {V[n].at[g].to}
  BY <1>1, <1>2 DEF AtList, WalkInv, Pending, Targets, V
<1>6. [id |-> V[n].at[g].to, path |-> g] \in V[n].outbound
  BY <1>5 DEF Referred
<1> DEFINE r == [id |-> V[n].at[g].to, path |-> g]
<1>7. r \in V[n].outbound /\ r.path = g
  BY <1>6
<1> HIDE DEF r
<1>8. r \in Beyond(e, n, y, length)
  BY <1>2, <1>4, <1>7 DEF Beyond, V, E
<1>9. ReferenceEdit(n, r.path, r.id, Null, FALSE) \in Drops(e, n, y, length)
  BY <1>8 DEF Drops
<1>10. QED BY <1>7, <1>9 DEF ReferenceEdit, IsAt

\* The data with the list cut.
Cut(at, path, length) ==
    [q \in Path |->
        IF q = path THEN Here
        ELSE IF IsStrictPrefix(path, q) /\ ~(at[path] = Here /\ IndexIn(q, path) <= length)
        THEN Missing
        ELSE at[q]]

\* A list that is cut has its kinds, and nothing beyond its end.
LEMMA CutList ==
    ASSUME NEW e, NEW R, NEW p, NEW k, NEW n, NEW y, NEW length, AtList(e, R, p, k, n, y, length),
           NEW at, at = View(e.nodes)[n].at, NEW cut, cut = Cut(at, y, length)
    PROVE  /\ cut \in [Path -> Value] /\ Kinds(cut, n)
           /\ cut[y] = Here
           /\ \A g \in Path : cut[g] \in Pointer => cut[g] = at[g]
           /\ \A g \in Path : IsStrictPrefix(y, g) /\ cut[g] # Missing => IndexIn(g, y) <= length
           /\ \A g \in Path \ {y} :
                \/ cut[g] = at[g]
                \/ /\ g \in Elements(at, y) /\ cut[g] = Missing
                   /\ ~Listed(p, k, n, y) /\ IndexIn(g, y) > length
<1>0. ASSUME NEW g \in Elements(View(e.nodes)[n].at, y)
      PROVE  [id |-> n, path |-> g] \in RefLocations /\ View(e.nodes)[n].at[y] = Here
  BY ElementsBefore
<1>1. /\ y \in Path /\ length \in Nat /\ [id |-> n, path |-> y] \in ListLocations
      /\ at \in [Path -> Value] /\ Kinds(at, n)
  BY AtListTyped
<1>2. cut \in [Path -> Value] /\ cut[y] = Here
  BY <1>1 DEF Cut, Value
<1>3. Kinds(cut, n)
  BY <1>1 DEF Kinds, Cut
<1>4. \A g \in Path : cut[g] \in Pointer => cut[g] = at[g]
  BY ValueAssumption DEF Cut
<1>5. \A g \in Path : IsStrictPrefix(y, g) /\ cut[g] # Missing => IndexIn(g, y) <= length
  BY DEF Cut, IsStrictPrefix
<1>6. ASSUME NEW g \in Path \ {y}, cut[g] # at[g]
      PROVE  /\ g \in Elements(at, y) /\ cut[g] = Missing
             /\ ~Listed(p, k, n, y) /\ IndexIn(g, y) > length
  <2>1. /\ cut[g] = Missing /\ IsStrictPrefix(y, g) /\ ~(at[y] = Here /\ IndexIn(g, y) <= length)
    BY <1>6 DEF Cut
  <2>2. g \in Elements(at, y)
    BY <1>6, <2>1 DEF Elements
  <2>3. /\ at[y] = Here /\ IndexIn(g, y) \in Nat
        /\ Listed(p, k, n, y) => IndexIn(g, y) <= length
    <3>1. g \in Elements(View(e.nodes)[n].at, y)
      BY <2>2
    <3>2. IndexIn(g, y) \in Nat /\ (Listed(p, k, n, y) => IndexIn(g, y) <= length)
      BY <3>1, ElementsBefore
    <3>3. at[y] = Here
      BY <3>1, <1>0
    <3>4. QED BY <3>2, <3>3
  <2>4. QED BY <1>1, <2>1, <2>2, <2>3
<1>7. QED BY <1>2, <1>3, <1>4, <1>5, <1>6

\* A list that is there and has its length already.
LEMMA ListKept ==
    ASSUME NEW e, NEW R, NEW p, NEW k, NEW n, NEW y, NEW length, AtList(e, R, p, k, n, y, length),
           Cardinality(Elements(View(e.nodes)[n].at, y)) = length,
           View(e.nodes)[n].at[y] = Here
    PROVE  WalkInv(e, R, p, k)
<1> DEFINE V == View(e.nodes)
           P == Present(e.nodes)
<1>1. /\ k \in Nat \ {0}
      /\ \A j \in 1..(k - 1) : j \in 1..k
      /\ \A j \in 1..k : j \in 1..(k - 1) \/ j = k
  BY Earlier DEF AtList
<1>2. \A g \in Path : IsStrictPrefix(y, g) /\ V[n].at[g] # Missing => IndexIn(g, y) <= length
  <2> TAKE g \in Path
  <2>1. SUFFICES ASSUME IsStrictPrefix(y, g), V[n].at[g] # Missing PROVE IndexIn(g, y) <= length
    OBVIOUS
  <2>2. g \in Elements(V[n].at, y)
    BY <2>1 DEF Elements
  <2>3. /\ [id |-> n, path |-> g] \in RefLocations
        /\ Listed(p, k, n, y) => IndexIn(g, y) <= length
        /\ ~Listed(p, k, n, y) => IndexIn(g, y) <= Cardinality(Elements(V[n].at, y))
    BY <2>2, ElementsBefore
  <2>4. QED BY <2>3
<1>3. /\ R \subseteq EditRecord /\ Pending(V, R) /\ Origins(R, p, k - 1)
      /\ ListsDone(V, p, k - 1) /\ ListsToDo(V, p, k - 1) /\ RefsDone(V, R, p, k - 1)
      /\ Reached(V, P, R, p, k - 1) /\ Referenced(V, P, R)
      /\ p[k].op = "list" /\ p[k].node = n /\ p[k].path = y /\ p[k].length = length
      /\ V[n].at[y] = Here
  BY DEF AtList, WalkInv
<1> HIDE DEF V, P
<1>4. Origins(R, p, k)
  BY <1>1, <1>3 DEF Origins
<1>5. ListsDone(V, p, k) /\ ListsToDo(V, p, k)
  BY <1>1, <1>2, <1>3 DEF ListsDone, ListsToDo
<1>6. RefsDone(V, R, p, k) /\ Reached(V, P, R, p, k)
  BY <1>1, <1>3 DEF RefsDone, Reached
<1>7. QED BY <1>3, <1>4, <1>5, <1>6 DEF WalkInv, V, P

\* A list is cut, and the references beyond its end are to be dropped.
LEMMA ListCutInWalk ==
    ASSUME NEW e, NEW R, NEW p, NEW k, NEW n, NEW y, NEW length, AtList(e, R, p, k, n, y, length),
           NEW d, d = Edit(e, n, Resized(View(e.nodes)[n].at, Original(n), y, length)), ~d.failed,
           NEW S, S = R \cup Drops(e, n, y, length)
    PROVE  Sound(d) /\ WalkInv(d, S, p, k) /\ d.merged = e.merged
<1> DEFINE V == View(e.nodes)
           P == Present(e.nodes)
           W == View(d.nodes)
           old == V[n].at
           cut == Cut(old, y, length)
           s == [V[n] EXCEPT !.at = cut, !.fresh = TRUE]
           l == k - 1
<1>0. /\ p \in Payload /\ k \in DOMAIN p /\ Sound(e) /\ e \in Editor
      /\ p[k].op = "list" /\ p[k].node = n /\ p[k].path = y /\ p[k].length = length
  BY DEF AtList, Sound
<1>1. /\ k \in Nat \ {0} /\ \A j \in 1..l : j \in 1..k /\ j \in DOMAIN p
      /\ \A j \in 1..k : /\ j \in 1..l \/ j = k
                         /\ p[j].op \in {"ref", "list"} => p[j].node \in Node /\ p[j].path \in Path
                         /\ p[j].op = "ref" => [id |-> p[j].node, path |-> p[j].path] \in RefLocations
                         /\ p[j].op = "list" => [id |-> p[j].node, path |-> p[j].path] \in ListLocations
  BY <1>0, Earlier
<1>2. \A x \in ListLocations : x.id \in Node /\ x.path \in Path /\ x = [id |-> x.id, path |-> x.path]
  BY LocationTyped DEF Reference
<1>3. /\ n \in Node /\ y \in Path /\ length \in Nat /\ [id |-> n, path |-> y] \in ListLocations
      /\ V \in [Node -> NodeSnapshot] /\ old \in [Path -> Value] /\ Kinds(old, n)
      /\ old[y] \in {Missing, Here}
  BY AtListTyped
<1>4. /\ R \subseteq EditRecord /\ Pending(V, R) /\ Origins(R, p, l)
      /\ ListsDone(V, p, l) /\ ListsToDo(V, p, l) /\ RefsDone(V, R, p, l)
      /\ Reached(V, P, R, p, l) /\ Referenced(V, P, R)
  BY DEF AtList, WalkInv
<1>5. /\ cut \in [Path -> Value] /\ Kinds(cut, n) /\ cut[y] = Here
      /\ \A g \in Path : cut[g] \in Pointer => cut[g] = old[g]
      /\ \A g \in Path : IsStrictPrefix(y, g) /\ cut[g] # Missing => IndexIn(g, y) <= length
      /\ \A g \in Path \ {y} :
           \/ cut[g] = old[g]
           \/ /\ g \in Elements(old, y) /\ cut[g] = Missing
              /\ ~Listed(p, k, n, y) /\ IndexIn(g, y) > length
  <2> HIDE DEF old, cut
  <2>1. old = View(e.nodes)[n].at /\ cut = Cut(old, y, length)
    BY DEF old, cut
  <2>2. QED BY <2>1, CutList
<1>6. d = Edit(e, n, cut)
  <2>1. Resized(old, Original(n), y, length) = cut
    <3> HIDE DEF old
    <3>1. QED BY <1>3, ResizedList DEF Cut
  <2>2. QED BY <2>1
<1> HIDE DEF cut
<1>7. Wrote(e, d, n, s)
  <2>0. n \in Node /\ ~Edit(e, n, cut).failed /\ V \in [Node -> NodeSnapshot] /\ cut \in [Path -> Value]
    BY <1>3, <1>5, <1>6
  <2>1. Moved(e, d, WithData(V, n, cut), {n}, {n})
    BY <1>0, <1>6, <2>0, EditMoves
  <2>2. /\ s \in NodeSnapshot /\ WithData(V, n, cut) = [V EXCEPT ![n] = s]
        /\ s.at = cut /\ s.fresh /\ s.inbound = V[n].inbound /\ s.outbound = V[n].outbound
    <3> HIDE DEF V
    <3>1. QED BY <2>0 DEF WithData, NodeSnapshot, Value
  <2> HIDE DEF V, s
  <2>3. QED BY <1>3, <1>5, <2>1, <2>2 DEF Wrote, V, old
<1>8. /\ Sound(d) /\ SameReferred(e, d)
      /\ Reached(View(d.nodes), Present(d.nodes), R, p, l) /\ Referenced(W, Present(d.nodes), R)
  <2>1. WalkInv(e, R, p, l) /\ Wrote(e, d, p[k].node, s)
    BY <1>0, <1>7 DEF AtList
  <2> HIDE DEF s, W
  <2> DEFINE ll == l
  <2>2. ll = k - 1 /\ WalkInv(e, R, p, ll)
    BY <2>1
  <2> HIDE DEF ll
  <2>3. Sound(d) /\ SameReferred(e, d)
      /\ Reached(View(d.nodes), Present(d.nodes), R, p, ll) /\ Referenced(View(d.nodes), Present(d.nodes), R)
    <3>1. p[k].op = "list" /\ p[k].node = n
      BY DEF AtList
    <3>2. s.leaf = View(e.nodes)[p[k].node].leaf
      BY <1>3, <3>1 DEF NodeSnapshot, s
    <3>3. QED BY <1>0, <2>1, <2>2, <3>1, <3>2, WrittenInWalk
  <2>4. QED BY <2>3 DEF ll, W
<1>9. /\ W = [V EXCEPT ![n] = s] /\ Present(d.nodes) = P \cup {n} /\ d.merged = e.merged /\ s.at = cut
  BY <1>7 DEF Wrote, Moved
<1>10. \A m \in Node, g \in Path : W[m].at[g] = IF m = n THEN cut[g] ELSE V[m].at[g]
  BY <1>3, <1>9
<1>11. \A t \in Drops(e, n, y, length) :
         /\ t \in EditRecord /\ t.node = n /\ t.next = Null /\ ~t.write
         /\ IsStrictPrefix(y, t.path) /\ IndexIn(t.path, y) > length
         /\ [id |-> n, path |-> t.path] \in RefLocations
         /\ Referred(V, n, t.path) = OneOf(t.prev)
         /\ \A r \in R \cup Drops(e, n, y, length) : IsAt(r, n, t.path) => r = t
  BY DropsKnown
<1>12. \A g \in Elements(old, y) :
         IndexIn(g, y) > length /\ (\A r \in S : ~IsAt(r, n, g)) => old[g] \notin Pointer
  BY DropsAll
<1>13. \A r \in R, g \in Path : IsAt(r, n, g) /\ IsStrictPrefix(y, g) => Listed(p, k, n, y)
  BY EditsBefore
<1>14. ASSUME NEW j \in 1..l, p[j].op = "ref", p[j].node = n, IsStrictPrefix(y, p[j].path)
       PROVE  Listed(p, k, n, y)
  <2>1. \E i \in 1..(j - 1) : p[i].op = "list" /\ p[i].node = n /\ p[i].path = y
    BY <1>0, <1>1, <1>3, <1>14, WalkedUnder
  <2>2. \A i \in 1..(j - 1) : i \in 1..(k - 1)
    BY <1>1
  <2>3. QED BY <2>1, <2>2 DEF Listed
<1> HIDE DEF W, V, P, old, s
<1>15. S \subseteq EditRecord
  BY <1>4, <1>11
<1>16. Pending(W, S)
  <2>1. \A m \in Node, g \in Path : Referred(W, m, g) = Referred(V, m, g)
    BY <1>8 DEF SameReferred, V, W
  <2>2. Targets(cut[y]) = {} /\ Targets(old[y]) = {} /\ Targets(Missing) = {}
    BY <1>3, <1>5, ValueAssumption DEF Targets
  <2>3. ASSUME NEW m \in Node, NEW g \in Path, \A r \in S : ~IsAt(r, m, g)
        PROVE  Referred(W, m, g) = Targets(W[m].at[g])
    <3>1. Referred(V, m, g) = Targets(V[m].at[g])
      BY <1>4, <2>3 DEF Pending
    <3>2. CASE m # n \/ cut[g] = old[g]
      BY <1>10, <2>1, <3>1, <3>2 DEF old
    <3>3. CASE m = n /\ g = y
      BY <1>10, <2>1, <2>2, <3>1, <3>3 DEF old
    <3>4. CASE m = n /\ g # y /\ cut[g] # old[g]
      <4>1. g \in Elements(old, y) /\ cut[g] = Missing /\ IndexIn(g, y) > length
        BY <1>5, <3>4
      <4>2. Targets(old[g]) = {}
        BY <1>12, <2>3, <3>4, <4>1 DEF Targets
      <4>3. QED BY <1>10, <2>1, <2>2, <3>1, <3>4, <4>1, <4>2 DEF old
    <3>5. QED BY <3>2, <3>3, <3>4
  <2>4. ASSUME NEW r \in S
        PROVE  /\ Referred(W, r.node, r.path) = OneOf(r.prev)
               /\ r.write => Targets(W[r.node].at[r.path]) = OneOf(r.prev)
    <3>1. r.node \in Node /\ r.path \in Path
      BY <1>15 DEF EditRecord
    <3>2. CASE r \in Drops(e, n, y, length)
      BY <1>11, <2>1, <3>1, <3>2
    <3>3. CASE r \in R
      <4>1. /\ Referred(V, r.node, r.path) = OneOf(r.prev)
            /\ r.write => Targets(V[r.node].at[r.path]) = OneOf(r.prev)
        BY <1>4, <3>3 DEF Pending
      <4>2. ASSUME r.node = n PROVE Targets(cut[r.path]) = Targets(old[r.path])
        <5>1. CASE r.path = y
          BY <2>2, <5>1
        <5>2. CASE r.path # y
          <6>1. IsStrictPrefix(y, r.path) => Listed(p, k, n, y)
            BY <1>13, <3>1, <3>3, <4>2 DEF IsAt
          <6>2. cut[r.path] = old[r.path]
            BY <1>5, <3>1, <5>2, <6>1 DEF Elements
          <6>3. QED BY <6>2
        <5>3. QED BY <5>1, <5>2
      <4>3. QED BY <1>10, <2>1, <3>1, <4>1, <4>2 DEF old
    <3>4. QED BY <3>2, <3>3
  <2>5. ASSUME NEW r \in S, NEW t \in S, IsAt(r, t.node, t.path) PROVE r = t
    <3>1. CASE r \in R /\ t \in R
      BY <1>4, <2>5, <3>1 DEF Pending
    <3>2. CASE t \in Drops(e, n, y, length)
      BY <1>11, <2>5, <3>2
    <3>3. CASE r \in Drops(e, n, y, length)
      BY <1>11, <2>5, <3>3 DEF IsAt
    <3>4. QED BY <3>1, <3>2, <3>3
  <2>6. QED BY <2>3, <2>4, <2>5 DEF Pending
<1>17. Origins(S, p, k)
  <2>1. \A r \in R : \E j \in 1..k :
        /\ p[j].node = r.node
        /\ \/ r.write /\ p[j].op = "ref" /\ p[j].path = r.path /\ p[j].target = r.next
              /\ r.prev # r.next
           \/ ~r.write /\ r.next = Null /\ p[j].op = "list" /\ IsStrictPrefix(p[j].path, r.path)
              /\ [id |-> r.node, path |-> r.path] \in RefLocations
              /\ IndexIn(r.path, p[j].path) > p[j].length
    BY <1>1, <1>4 DEF Origins
  <2>2. k \in 1..k
    BY <1>1
  <2>3. QED BY <1>0, <1>11, <2>1, <2>2 DEF Origins
<1>18. ListsDone(W, p, k)
  <2>1. SUFFICES ASSUME NEW j \in 1..k, p[j].op = "list"
        PROVE  /\ W[p[j].node].at[p[j].path] = Here
               /\ \A g \in Path : IsStrictPrefix(p[j].path, g) /\ W[p[j].node].at[g] # Missing
                     => IndexIn(g, p[j].path) <= p[j].length
    BY DEF ListsDone
  <2>2. CASE j = k
    BY <1>0, <1>3, <1>5, <1>10, <2>2
  <2>3. CASE j \in 1..l
    <3>1. /\ V[p[j].node].at[p[j].path] = Here
          /\ \A g \in Path : IsStrictPrefix(p[j].path, g) /\ V[p[j].node].at[g] # Missing
                => IndexIn(g, p[j].path) <= p[j].length
          /\ p[j].node \in Node /\ p[j].path \in Path
          /\ [id |-> p[j].node, path |-> p[j].path] \in ListLocations
      BY <1>1, <1>4, <2>1, <2>3 DEF ListsDone
    <3>2. CASE p[j].node # n
      BY <1>10, <3>1, <3>2
    <3>3. CASE p[j].node = n
      <4>1. ~IsStrictPrefix(p[j].path, y) /\ ~IsStrictPrefix(y, p[j].path)
        BY <1>3, <3>1, <3>3, LocationKinds
      <4>2. cut[p[j].path] = Here
        BY <1>5, <3>1, <3>3, <4>1 DEF Elements, old
      <4>3. \A g \in Path : IsStrictPrefix(p[j].path, g) /\ cut[g] # Missing => old[g] # Missing
        BY <1>5, <4>1
      <4>4. QED BY <1>10, <3>1, <3>3, <4>2, <4>3 DEF old
    <3>4. QED BY <3>2, <3>3
  <2>4. QED BY <1>1, <2>2, <2>3
<1>19. ListsToDo(W, p, k)
  <2>1. SUFFICES ASSUME NEW x \in ListLocations, \A j \in 1..k : ~IsListAt(p[j], x)
        PROVE  ListWhole(W[x.id].at, x.path)
    BY DEF ListsToDo
  <2>2. ListWhole(V[x.id].at, x.path) /\ x.id \in Node /\ x.path \in Path /\ x = [id |-> x.id, path |-> x.path]
    BY <1>1, <1>2, <1>4, <2>1 DEF ListsToDo
  <2>3. CASE x.id # n
    BY <1>10, <2>2, <2>3 DEF ListWhole
  <2>4. CASE x.id = n
    <3>1. x.path # y
      BY <1>0, <1>1, <2>1, <2>4 DEF IsListAt
    <3>2. ~IsStrictPrefix(x.path, y) /\ ~IsStrictPrefix(y, x.path)
      BY <1>3, <2>2, <2>4, LocationKinds
    <3>3. SUFFICES ASSUME NEW q \in Path, IsStrictPrefix(x.path, q), cut[q] # Missing
          PROVE  /\ cut[x.path] = Here
                 /\ \A i \in 1..IndexIn(q, x.path) :
                       Append(x.path, i) \in Path /\ cut[Append(x.path, i)] # Missing
      BY <1>10, <2>2, <2>4 DEF ListWhole
    <3>4. q # y /\ old[q] # Missing
      BY <1>5, <3>2, <3>3
    <3>5. /\ old[x.path] = Here
          /\ \A i \in 1..IndexIn(q, x.path) : Append(x.path, i) \in Path /\ old[Append(x.path, i)] # Missing
      BY <2>2, <2>4, <3>3, <3>4 DEF ListWhole, old
    <3>6. cut[x.path] = Here
      BY <1>5, <2>2, <3>1, <3>2, <3>5 DEF Elements
    <3>7. ASSUME NEW i \in 1..IndexIn(q, x.path) PROVE cut[Append(x.path, i)] # Missing
      <4> DEFINE g == Append(x.path, i)
      <4>1. g \in Path /\ old[g] # Missing /\ i \in Nat
        BY <3>5
      <4>2. IsStrictPrefix(x.path, g)
        BY <2>2, <4>1, ElementPath
      <4>3. g # y
        BY <3>2, <4>2
      <4>4. ~IsStrictPrefix(y, g)
        <5>1. SUFFICES ASSUME IsStrictPrefix(y, g) PROVE FALSE
          OBVIOUS
        <5>2. [id |-> n, path |-> g] \in RefLocations \cup ListLocations
          BY <1>3, <4>1 DEF Kinds
        <5> DEFINE a == IndexIn(g, y)
        <5>3. a \in Nat /\ g = Append(y, a)
          BY <1>3, <4>1, <5>1, <5>2, LocationKinds, ZenonT(30)
        <5>4. Append(x.path, i) = Append(y, a)
          BY <5>3
        <5> HIDE DEF a
        <5>5. QED BY <1>3, <2>2, <3>1, <4>1, <5>3, <5>4, ElementOf
      <4>5. QED BY <1>5, <4>1, <4>3, <4>4 DEF Elements
    <3>8. QED BY <3>5, <3>6, <3>7
  <2>5. QED BY <2>3, <2>4
<1>20. RefsDone(W, S, p, k)
  <2>1. ASSUME NEW j \in 1..k, p[j].op = "ref"
        PROVE  W[p[j].node].at[p[j].path] # Missing \/ \E r \in S : IsAt(r, p[j].node, p[j].path)
    <3>1. j \in 1..l /\ p[j].node \in Node /\ p[j].path \in Path
      BY <1>0, <1>1, <2>1
    <3>2. V[p[j].node].at[p[j].path] # Missing \/ \E r \in R : IsAt(r, p[j].node, p[j].path)
      BY <1>4, <2>1, <3>1 DEF RefsDone
    <3>3. ASSUME p[j].node = n PROVE cut[p[j].path] = old[p[j].path] \/ cut[p[j].path] # Missing
      <4>1. IsStrictPrefix(y, p[j].path) => Listed(p, k, n, y)
        BY <1>14, <2>1, <3>1, <3>3
      <4>2. QED BY <1>5, <3>1, <4>1, ValueAssumption DEF Elements
    <3>4. QED BY <1>10, <3>1, <3>2, <3>3 DEF old
  <2>2. QED BY <2>1 DEF RefsDone
<1>21. Reached(View(d.nodes), Present(d.nodes), S, p, k)
  BY <1>0, <1>1, <1>8 DEF Reached
<1>22. Referenced(W, Present(d.nodes), S)
  BY <1>8 DEF Referenced
<1>23. QED BY <1>8, <1>9, <1>15, <1>16, <1>17, <1>18, <1>19, <1>20, <1>21, <1>22 DEF WalkInv, W

\* The walk of a list keeps the invariant of the walk.
LEMMA ListWalked ==
    ASSUME NEW w, NEW p \in Payload, NEW k \in DOMAIN p, NEW l, l = k - 1, NEW merged,
           WalkedTo(w, p, l, merged), ~w.editor.failed, p[k].op = "list"
    PROVE  WalkedTo(WalkList(w, p[k]), p, k, merged)
<1> DEFINE n == p[k].node
           y == p[k].path
           length == p[k].length
           e == w.editor
           R == Collected(w.edits)
           V == View(e.nodes)
           now == IF e.nodes[n] = Absent THEN 0
                  ELSE Cardinality({q \in Path : IsStrictPrefix(y, q) /\ e.nodes[n].at[q] # Missing})
           beyond == IF now <= length THEN {}
                     ELSE {r \in e.nodes[n].outbound : IsStrictPrefix(y, r.path)
                                                       /\ r.path[Len(y) + 1] > length}
           drops == {ReferenceEdit(n, r.path, r.id, Null, FALSE) : r \in beyond}
           d == Edit(e, n, Resized(NodeData(e, n), Original(n), y, length))
           x == WalkList(w, p[k])
<1>1. /\ w = [editor |-> e, edits |-> w.edits] /\ w.edits \in Seq(EditRecord)
      /\ Sound(e) /\ e.merged = merged /\ WalkInv(e, R, p, l)
  BY DEF WalkedTo
<1>2. AtList(e, R, p, k, n, y, length)
  BY <1>1 DEF AtList
<1>3. /\ n \in Node /\ V \in [Node -> NodeSnapshot] /\ length \in Nat /\ e \in Editor
      /\ e.nodes \in [Node -> NodeSnapshot \cup {Absent}]
  BY <1>1, <1>2, AtListTyped DEF Sound, Editor
<1>4. x = IF now = length /\ ValueAt(e, n, y) = Here THEN w
          ELSE [editor |-> d, edits |-> w.edits \o SetToSeq(drops)]
  BY DEF WalkList
<1>5. NodeData(e, n) = V[n].at /\ ValueAt(e, n, y) = V[n].at[y]
  BY <1>3, DataOf DEF ValueAt
<1>6. /\ now = Cardinality(Elements(V[n].at, y))
      /\ beyond = Beyond(e, n, y, length)
  <2>1. CASE e.nodes[n] = Absent
    <3>1. V[n] = NewSnapshot
      BY <1>3, <2>1 DEF View
    <3>2. Elements(V[n].at, y) = {} /\ V[n].outbound = {}
      BY <3>1 DEF Elements, NewSnapshot, NoData
    <3>3. Cardinality({}) = 0
      BY FS_EmptySet
    <3>4. now = 0 /\ beyond = {}
      BY <1>3, <2>1
    <3> HIDE DEF now, beyond, V, n, e, y, length
    <3>5. QED BY <3>2, <3>3, <3>4 DEF Beyond, V
  <2>2. CASE e.nodes[n] # Absent
    <3>1. V[n] = e.nodes[n]
      BY <1>3, <2>2 DEF View
    <3>2. Elements(V[n].at, y) = {q \in Path : IsStrictPrefix(y, q) /\ e.nodes[n].at[q] # Missing}
      BY <3>1 DEF Elements
    <3>3. now = Cardinality(Elements(V[n].at, y))
      BY <2>2, <3>2
    <3> HIDE DEF now, V, n, e, y, length
    <3>4. QED BY <3>1, <3>3 DEF Beyond, V, IndexIn
  <2>3. QED BY <2>1, <2>2
<1> HIDE DEF now, beyond
<1>7. CASE now = length /\ ValueAt(e, n, y) = Here
  <2>1. WalkInv(e, R, p, k)
    <3>1. Cardinality(Elements(View(e.nodes)[n].at, y)) = length /\ View(e.nodes)[n].at[y] = Here
      BY <1>5, <1>6, <1>7
    <3> HIDE DEF e, R, n, y, length
    <3>2. QED BY <1>2, <3>1, ListKept
  <2>2. QED BY <1>1, <1>4, <1>7, <2>1 DEF WalkedTo
<1>8. CASE ~(now = length /\ ValueAt(e, n, y) = Here)
  <2> DEFINE edits == w.edits \o SetToSeq(drops)
  <2>1. drops = Drops(e, n, y, length)
    BY <1>6 DEF Drops
  <2>2. drops \subseteq EditRecord /\ IsFiniteSet(drops)
    <3>1. \A s \in Drops(e, n, y, length) :
             /\ s \in EditRecord /\ s.node = n /\ s.next = Null /\ ~s.write
             /\ IsStrictPrefix(y, s.path) /\ IndexIn(s.path, y) > length
             /\ [id |-> n, path |-> s.path] \in RefLocations
      <4> HIDE DEF e, R, n, y, length
      <4>1. QED BY <1>2, DropsKnown
    <3>2. IsFiniteSet(drops)
      <4>1. beyond \in SUBSET Reference
        <5>1. Beyond(e, n, y, length) \subseteq V[n].outbound
          BY DEF Beyond
        <5>2. V[n].outbound \in SUBSET Reference
          BY <1>3 DEF NodeSnapshot
        <5>3. QED BY <1>6, <5>1, <5>2
      <4>2. IsFiniteSet(beyond)
        BY <4>1, FiniteReferences
      <4> DEFINE f == [r \in beyond |-> ReferenceEdit(n, r.path, r.id, Null, FALSE)]
      <4>3. f \in Surjection(beyond, drops)
        <5>1. f \in [beyond -> drops] /\ \A t \in drops : \E r \in beyond : f[r] = t
          OBVIOUS
        <5> HIDE DEF f, drops
        <5>2. QED BY <5>1 DEF Surjection
      <4> HIDE DEF f, drops
      <4>4. QED BY <4>2, <4>3, FS_Surjection
    <3>3. QED BY <2>1, <3>1, <3>2
  <2>3. edits \in Seq(EditRecord) /\ Collected(edits) = R \cup drops
    <3> HIDE DEF drops, e
    <3> DEFINE t == SetToSeq(drops)
    <3>1. t \in Seq(drops) /\ Collected(t) = drops
      BY <2>2, SequenceOf DEF Collected
    <3>2. t \in Seq(EditRecord)
      BY <2>2, <3>1
    <3> HIDE DEF t
    <3>3. w.edits \o t \in Seq(EditRecord) /\ Collected(w.edits \o t) = R \cup Collected(t)
      BY <1>1, <3>2, CollectedBoth
    <3>4. QED BY <3>1, <3>3 DEF t
  <2>4. ~d.failed => Sound(d) /\ WalkInv(d, R \cup drops, p, k) /\ d.merged = e.merged
    <3> DEFINE S == R \cup drops
    <3>1. d = Edit(e, n, Resized(View(e.nodes)[n].at, Original(n), y, length))
      BY <1>5
    <3>2. S = R \cup Drops(e, n, y, length)
      BY <2>1
    <3> HIDE DEF d, S, e, R, n, y, length
    <3>3. ~d.failed => Sound(d) /\ WalkInv(d, S, p, k) /\ d.merged = e.merged
      BY <1>2, <3>1, <3>2, ListCutInWalk
    <3>4. QED BY <3>3 DEF S
  <2>5. x = [editor |-> d, edits |-> edits]
    BY <1>4, <1>8
  <2> HIDE DEF d, edits, e, R, drops, x
  <2>6. x.editor = d /\ x.edits = edits /\ x = [editor |-> x.editor, edits |-> x.edits]
    BY <2>5
  <2>7. WalkedTo(x, p, k, merged)
    BY <1>1, <2>3, <2>4, <2>6 DEF WalkedTo
  <2>8. QED BY <2>7 DEF x
<1>9. QED BY <1>7, <1>8

\* d is e with the two ends of the reference to a parameterized value m that
\* was not there, from the path q of the node o.
FieldAdded(e, d, m, o, q) ==
    /\ d \in Editor /\ ~d.failed
    /\ Present(d.nodes) = Present(e.nodes) \cup {m, o}
    /\ d.made = e.made \cup {m, o} /\ d.edited = e.edited /\ d.merged = e.merged
    /\ \A n \in Node :
          /\ View(d.nodes)[n].leaf = View(e.nodes)[n].leaf
          /\ View(d.nodes)[n].at = View(e.nodes)[n].at
          /\ View(d.nodes)[n].fresh = View(e.nodes)[n].fresh
    /\ \A n \in Node, r \in Reference :
          /\ r \in View(d.nodes)[n].outbound
               <=> r \in View(e.nodes)[n].outbound \/ (n = o /\ r = [id |-> m, path |-> q])
          /\ r \in View(d.nodes)[n].inbound
               <=> r \in View(e.nodes)[n].inbound \/ (n = m /\ r = [id |-> o, path |-> q])

\* A node that is only referred to is put in the place of none.
Placed(e, m, own) ==
    [e EXCEPT !.made = @ \cup {m}, !.nodes[m] = [NewSnapshot EXCEPT !.inbound = {own}]]

\* Making a parameterized node moves only that node.
LEMMA PlacedMoves ==
    ASSUME NEW e \in Editor, ~e.failed, NEW m \in Node, m \notin Present(e.nodes), NEW own \in Reference
    PROVE  LET c == Placed(e, m, own)
               s == [NewSnapshot EXCEPT !.inbound = {own}]
           IN  /\ c \in Editor /\ c.edited = e.edited /\ c.merged = e.merged /\ c.made = e.made \cup {m}
               /\ Present(c.nodes) = Present(e.nodes) \cup {m}
               /\ s \in NodeSnapshot /\ View(e.nodes)[m] = NewSnapshot
               /\ View(c.nodes) = [View(e.nodes) EXCEPT ![m] = s]
<1> DEFINE s == [NewSnapshot EXCEPT !.inbound = {own}]
           c == Placed(e, m, own)
<1>1. s \in NodeSnapshot /\ s # Absent
  <2>1. s \in NodeSnapshot
    BY NewTyped DEF NodeSnapshot, NewSnapshot
  <2> HIDE DEF s
  <2>2. QED BY <2>1, AbsentAssumption
<1>2. /\ e.nodes \in [Node -> NodeSnapshot \cup {Absent}] /\ e.made \in SUBSET Node
      /\ View(e.nodes)[m] = NewSnapshot
  BY ViewTyped DEF Editor
<1>3. c = [e EXCEPT !.made = @ \cup {m}, !.nodes[m] = s]
  BY DEF Placed
<1> HIDE DEF s, c
<1>4. /\ c.nodes = [e.nodes EXCEPT ![m] = s] /\ c.made = e.made \cup {m}
      /\ c.edited = e.edited /\ c.merged = e.merged /\ c.failed = e.failed
  BY <1>3 DEF Editor
<1>5. c.nodes \in [Node -> NodeSnapshot \cup {Absent}] /\ c.made \in SUBSET Node
  BY <1>1, <1>2, <1>4
<1>6. c \in Editor
  BY <1>3, <1>4, <1>5 DEF Editor
<1>7. View(c.nodes) = [View(e.nodes) EXCEPT ![m] = s]
  BY <1>1, <1>2, <1>4 DEF View
<1>8. Present(c.nodes) = Present(e.nodes) \cup {m}
  BY <1>1, <1>2, <1>4 DEF Present
<1>9. QED BY <1>1, <1>2, <1>4, <1>6, <1>7, <1>8 DEF s, c

\* A parameterized node is made and referred to by its owner: no other node moves.
LEMMA FieldAdds ==
    ASSUME NEW e \in Editor, ~e.failed, NEW m \in Node, m \notin Present(e.nodes),
           NEW o \in Node, o # m, NEW q \in Path,
           ~AddReference(Placed(e, m, [id |-> o, path |-> q]), "outbound", o, [id |-> m, path |-> q]).failed
    PROVE  FieldAdded(e, AddReference(Placed(e, m, [id |-> o, path |-> q]), "outbound", o,
                                      [id |-> m, path |-> q]), m, o, q)
<1> DEFINE ref == [id |-> m, path |-> q]
           own == [id |-> o, path |-> q]
           c == Placed(e, m, own)
           d == AddReference(c, "outbound", o, ref)
           s == [NewSnapshot EXCEPT !.inbound = {own}]
           V == View(e.nodes)
           U == View(c.nodes)
           W == View(d.nodes)
           t == [U[o] EXCEPT !.outbound = U[o].outbound \cup {ref}]
<1>1. ref \in Reference /\ own \in Reference
  BY DEF Reference
<1>2. /\ c \in Editor /\ c.edited = e.edited /\ c.merged = e.merged /\ c.made = e.made \cup {m}
      /\ Present(c.nodes) = Present(e.nodes) \cup {m}
      /\ s \in NodeSnapshot /\ V[m] = NewSnapshot /\ U = [V EXCEPT ![m] = s]
  BY <1>1, PlacedMoves
<1>3. V \in [Node -> NodeSnapshot]
  BY ViewTyped DEF Editor
<1>4. /\ s.leaf = NewSnapshot.leaf /\ s.at = NewSnapshot.at /\ s.fresh = NewSnapshot.fresh
      /\ s.outbound = NewSnapshot.outbound /\ s.inbound = {own} /\ NewSnapshot.inbound = {}
  BY DEF NewSnapshot
<1>5. ~d.failed
  OBVIOUS
<1> HIDE DEF c, s, ref
<1>6. Moved(c, d, WithOut(U, o, U[o].outbound \cup {ref}), {o}, {})
  BY <1>1, <1>2, <1>5, AddReferenceMoves
<1> HIDE DEF d, U, V, W, own
<1>7. /\ d \in Editor /\ ~d.failed /\ Present(d.nodes) = Present(c.nodes) \cup {o}
      /\ d.made = c.made \cup {o} /\ d.edited = c.edited \cup {} /\ d.merged = c.merged
      /\ W = WithOut(U, o, U[o].outbound \cup {ref})
  BY <1>6 DEF Moved, W
<1>8. U \in [Node -> NodeSnapshot] /\ U[o] = V[o] /\ U[m] = s /\ \A n \in Node \ {m} : U[n] = V[n]
  BY <1>2, <1>3
<1>9. /\ t.leaf = V[o].leaf /\ t.at = V[o].at /\ t.fresh = V[o].fresh /\ t.inbound = V[o].inbound
      /\ t.outbound = V[o].outbound \cup {ref}
  BY <1>8 DEF NodeSnapshot
<1>10. W = [U EXCEPT ![o] = t]
  BY <1>7 DEF WithOut
<1> HIDE DEF t
<1>11. W[o] = t /\ W[m] = s /\ \A n \in Node \ {m, o} : W[n] = V[n]
  BY <1>8, <1>10
<1>12. \A n \in Node : W[n].leaf = V[n].leaf /\ W[n].at = V[n].at /\ W[n].fresh = V[n].fresh
  BY <1>2, <1>4, <1>9, <1>11
<1>16. /\ W[o].outbound = V[o].outbound \cup {ref} /\ W[o].inbound = V[o].inbound
       /\ W[m].outbound = V[m].outbound /\ W[m].inbound = {own} /\ V[m].inbound = {}
       /\ \A n \in Node \ {m, o} : W[n].outbound = V[n].outbound /\ W[n].inbound = V[n].inbound
  BY <1>2, <1>4, <1>9, <1>11
<1>13. \A n \in Node, r \in Reference :
          /\ r \in W[n].outbound <=> r \in V[n].outbound \/ (n = o /\ r = ref)
          /\ r \in W[n].inbound <=> r \in V[n].inbound \/ (n = m /\ r = own)
  <2>1. SUFFICES ASSUME NEW n \in Node, NEW r \in Reference
        PROVE  /\ r \in W[n].outbound <=> r \in V[n].outbound \/ (n = o /\ r = ref)
               /\ r \in W[n].inbound <=> r \in V[n].inbound \/ (n = m /\ r = own)
    OBVIOUS
  <2>2. CASE n = o
    BY <1>16, <2>2
  <2>3. CASE n = m
    BY <1>16, <2>3
  <2>4. CASE n \in Node \ {m, o}
    BY <1>16, <2>4
  <2>5. QED BY <2>2, <2>3, <2>4
<1>14. Present(d.nodes) = Present(e.nodes) \cup {m, o} /\ d.made = e.made \cup {m, o} /\ d.edited = e.edited
       /\ d.merged = e.merged
  BY <1>2, <1>7
<1>15. FieldAdded(e, d, m, o, q)
  BY <1>7, <1>12, <1>13, <1>14 DEF FieldAdded, V, W, ref, own
<1>17. QED BY <1>15 DEF d, c, ref, own

\* The node of the field was not collected.
LEMMA OwnerAnew ==
    ASSUME NEW e \in Editor, ~e.failed, NEW m \in Node, m \notin Present(e.nodes),
           NEW o \in Node, o # m, NEW q \in Path, o \notin Present(e.nodes), o \in e.made
    PROVE  AddReference(Placed(e, m, [id |-> o, path |-> q]), "outbound", o, [id |-> m, path |-> q]).failed
<1> DEFINE own == [id |-> o, path |-> q]
           c == Placed(e, m, own)
           s == [NewSnapshot EXCEPT !.inbound = {own}]
<1>1. own \in Reference
  BY DEF Reference
<1>2. /\ c \in Editor /\ c.made = e.made \cup {m} /\ Present(c.nodes) = Present(e.nodes) \cup {m}
      /\ s \in NodeSnapshot /\ View(c.nodes) = [View(e.nodes) EXCEPT ![m] = s]
  BY <1>1, PlacedMoves
<1> HIDE DEF own
<1> HIDE DEF c
<1>3. o \in c.made /\ c.nodes[o] = Absent
  BY <1>2 DEF Present
<1>4. EnsureNewSnapshot(c, o) = [c EXCEPT !.failed = TRUE]
  BY <1>3 DEF EnsureNewSnapshot
<1>5. EnsureNewSnapshot(c, o).failed
  BY <1>2, <1>4 DEF Editor
<1>6. QED BY <1>5 DEF AddReference, c, own

\* It is as sound as e.
LEMMA FieldSound ==
    ASSUME NEW e, Sound(e), NEW d, NEW m \in Param, NEW o \in Node, NEW q \in Path,
           Owner(m) = [id |-> o, path |-> q],
           o \notin Present(e.nodes) => o \notin e.edited, FieldAdded(e, d, m, o, q)
    PROVE  Sound(d) /\ SameReferred(e, d)
<1> DEFINE V == View(e.nodes)
           W == View(d.nodes)
<1>1. EndsMatch(V) /\ ReferencesLed(V) /\ KindsKept(V) /\ FreshAreFresh(V) /\ EditsTell(e)
  BY DEF Sound
<1>2. /\ d \in Editor /\ ~d.failed /\ d.made = e.made \cup {m, o} /\ d.edited = e.edited
      /\ Present(d.nodes) = Present(e.nodes) \cup {m, o}
  BY DEF FieldAdded
<1>3. \A n \in Node : W[n].leaf = V[n].leaf /\ W[n].at = V[n].at /\ W[n].fresh = V[n].fresh
  BY DEF FieldAdded
<1>4. \A n \in Node, r \in Reference :
          /\ r \in W[n].outbound <=> r \in V[n].outbound \/ (n = o /\ r = [id |-> m, path |-> q])
          /\ r \in W[n].inbound <=> r \in V[n].inbound \/ (n = m /\ r = [id |-> o, path |-> q])
  BY DEF FieldAdded
<1>5. m \in Node /\ m \notin Entity
  BY NodeAssumption DEF Node
<1>6. \A n \in Node, g \in Path : [id |-> n, path |-> g] \in Reference
  BY DEF Reference
<1> HIDE DEF V, W
<1>7. EndsMatch(W)
  <2>1. SUFFICES ASSUME NEW a \in Node, NEW b \in Node, NEW g \in Path
        PROVE  [id |-> b, path |-> g] \in W[a].outbound <=> [id |-> a, path |-> g] \in W[b].inbound
    BY DEF EndsMatch
  <2> DEFINE ba == [id |-> b, path |-> g]
             ab == [id |-> a, path |-> g]
  <2>2. ba \in V[a].outbound <=> ab \in V[b].inbound
    BY <1>1 DEF EndsMatch
  <2>3. (ba = [id |-> m, path |-> q] <=> b = m /\ g = q) /\ (ab = [id |-> o, path |-> q] <=> a = o /\ g = q)
    OBVIOUS
  <2>4. ba \in Reference /\ ab \in Reference
    BY <1>6
  <2> HIDE DEF ba, ab
  <2>5. ba \in W[a].outbound <=> ab \in W[b].inbound
    <3>1. ba \in W[a].outbound <=> ba \in V[a].outbound \/ (a = o /\ ba = [id |-> m, path |-> q])
      BY <1>4, <2>4
    <3>2. ab \in W[b].inbound <=> ab \in V[b].inbound \/ (b = m /\ ab = [id |-> o, path |-> q])
      BY <1>4, <2>4
    <3>3. QED BY <2>2, <2>3, <3>1, <3>2
  <2>6. QED BY <2>5 DEF ba, ab
<1>8. ReferencesLed(W)
  <2>1. SUFFICES ASSUME NEW a \in Node, NEW b \in Node, NEW g \in Path, [id |-> b, path |-> g] \in W[a].outbound
        PROVE  \/ b \in Param /\ Owner(b) = [id |-> a, path |-> g]
               \/ b \in Entity /\ [id |-> a, path |-> g] \in RefLocations
               \/ b \in Entity /\ [id |-> a, path |-> g] = Self(b)
    BY DEF ReferencesLed
  <2>2. CASE [id |-> b, path |-> g] \in V[a].outbound
    BY <1>1, <2>2 DEF ReferencesLed
  <2>3. CASE a = o /\ [id |-> b, path |-> g] = [id |-> m, path |-> q]
    <3>1. b = m /\ g = q
      BY <2>3
    <3>2. QED BY <2>3, <3>1
  <2>4. QED BY <1>4, <1>6, <2>1, <2>2, <2>3
<1>9. KindsKept(W)
  BY <1>1, <1>3 DEF KindsKept
<1>10. FreshAreFresh(W)
  <2>1. \A v \in Pointer : v.to \in Node
    BY DEF Pointer, Node
  <2>2. SUFFICES ASSUME NEW n \in Node, NEW g \in Path, W[n].at[g] \in Pointer, W[n].at[g].fresh
        PROVE  W[W[n].at[g].to].fresh
    BY DEF FreshAreFresh
  <2>3. V[n].at[g] = W[n].at[g]
    BY <1>3
  <2>4. V[V[n].at[g].to].fresh
    BY <1>1, <2>2, <2>3 DEF FreshAreFresh
  <2>5. QED BY <1>3, <2>1, <2>2, <2>3, <2>4
<1>11. EditsTell(d)
  <2>1. e.edited \subseteq e.made /\ d.edited \subseteq d.made
    BY <1>1, <1>2 DEF EditsTell
  <2>2. \A n \in Node : W[n].fresh => n \in d.edited
    BY <1>1, <1>2, <1>3 DEF EditsTell, V
  <2>3. ASSUME NEW n \in Present(d.nodes) \ Param, n \in d.edited PROVE d.nodes[n].fresh
    <3>1. n \in Present(e.nodes)
      BY <1>2, <2>3
    <3>2. e.nodes[n].fresh
      BY <1>1, <1>2, <2>3, <3>1 DEF EditsTell
    <3>3. n \in Node /\ V[n] = e.nodes[n]
      BY <3>1 DEF Present, V, View
    <3>4. W[n] = d.nodes[n]
      BY <2>3 DEF Present, W, View
    <3>5. QED BY <1>3, <3>2, <3>3, <3>4
  <2>4. \A n \in Node \ e.edited : V[n].leaf = View(graph)[n].leaf /\ V[n].at = View(graph)[n].at
    BY <1>1 DEF EditsTell, V
  <2>5. \A n \in Node \ d.edited : W[n].leaf = View(graph)[n].leaf /\ W[n].at = View(graph)[n].at
    BY <1>2, <1>3, <2>4
  <2>6. QED BY <2>1, <2>2, <2>3, <2>5 DEF EditsTell, W
<1>12. \A n \in Node, g \in Path : Referred(W, n, g) = Referred(V, n, g)
  <2>1. ASSUME NEW n \in Node, NEW g \in Path, NEW b \in Entity
        PROVE  [id |-> b, path |-> g] \in W[n].outbound <=> [id |-> b, path |-> g] \in V[n].outbound
    <3>1. b \in Node
      BY DEF Node
    <3>2. [id |-> b, path |-> g] # [id |-> m, path |-> q]
      BY <1>5
    <3> DEFINE r == [id |-> b, path |-> g]
    <3>3. r \in Reference
      BY <1>6, <3>1
    <3> HIDE DEF r
    <3>4. r \in W[n].outbound <=> r \in V[n].outbound \/ (n = o /\ r = [id |-> m, path |-> q])
      BY <1>4, <3>3
    <3>5. QED BY <3>2, <3>4 DEF r
  <2>2. QED BY <2>1 DEF Referred
<1>13. QED BY <1>2, <1>7, <1>8, <1>9, <1>10, <1>11, <1>12 DEF Sound, SameReferred, V, W

\* What the lists and references of a graph are to the walk depends on its
\* values and references only.
SameData(e, d) ==
    /\ SameReferred(e, d)
    /\ \A n \in Node : View(d.nodes)[n].at = View(e.nodes)[n].at

\* What is pending and what is done does not depend on the nodes that hold no data.
LEMMA SameListed ==
    ASSUME NEW e, NEW d, SameData(e, d), NEW R, NEW p \in Payload, NEW k \in DOMAIN p, NEW l, l = k - 1,
           WalkInv(e, R, p, l), p[k].op \in {"param", "fragment"}
    PROVE  /\ Pending(View(d.nodes), R) /\ Origins(R, p, k)
           /\ ListsDone(View(d.nodes), p, k) /\ ListsToDo(View(d.nodes), p, k)
           /\ RefsDone(View(d.nodes), R, p, k)
<1> DEFINE V == View(e.nodes)
           W == View(d.nodes)
<1>1. /\ k \in Nat \ {0} /\ l \in Nat /\ \A j \in 1..l : j \in 1..k
      /\ \A j \in 1..k : /\ j \in 1..l \/ j = k
                         /\ p[j].op \in {"ref", "list"} => p[j].node \in Node /\ p[j].path \in Path
  BY Earlier
<1>2. /\ R \subseteq EditRecord /\ Pending(V, R) /\ Origins(R, p, l)
      /\ ListsDone(V, p, l) /\ ListsToDo(V, p, l) /\ RefsDone(V, R, p, l)
  BY DEF WalkInv
<1>3. /\ \A n \in Node : W[n].at = V[n].at
      /\ \A n \in Node, g \in Path : Referred(W, n, g) = Referred(V, n, g)
  BY DEF SameData, SameReferred
<1> HIDE DEF V, W
<1>4. Pending(W, R)
  BY <1>2, <1>3 DEF Pending, EditRecord
<1>5. Origins(R, p, k)
  BY <1>1, <1>2 DEF Origins
<1>6. ListsDone(W, p, k) /\ RefsDone(W, R, p, k)
  BY <1>1, <1>2, <1>3 DEF ListsDone, RefsDone
<1>7. ListsToDo(W, p, k)
  <2>1. SUFFICES ASSUME NEW y \in ListLocations, \A j \in 1..k : ~IsListAt(p[j], y)
        PROVE  ListWhole(W[y.id].at, y.path)
    BY DEF ListsToDo
  <2>2. y.id \in Node
    BY LocationTyped DEF Reference
  <2>3. QED BY <1>1, <1>2, <1>3, <2>1, <2>2 DEF ListsToDo
<1>8. QED BY <1>4, <1>5, <1>6, <1>7 DEF W

\* What is made for a parameterized field that is not there yet.
FieldMade(e, d, R, m, o, q) ==
    /\ o # m /\ m \notin Present(e.nodes)
    /\ Comes(View(e.nodes), Present(e.nodes), R, o)
    /\ FieldAdded(e, d, m, o, q)
    /\ o \notin Present(e.nodes) => o \notin e.made

\* Such a field is made together with the reference to it.
LEMMA FieldIsMade ==
    ASSUME NEW e, Sound(e), NEW R, NEW p \in Payload, NEW k \in DOMAIN p, p[k].op = "param",
           NEW l, l = k - 1, WalkInv(e, R, p, l),
           NEW m \in Param, m = p[k].node, NEW o, NEW q, Owner(m) = [id |-> o, path |-> q],
           [id |-> m, path |-> q] \notin View(e.nodes)[o].outbound,
           NEW d, d = AddReference(Placed(e, m, [id |-> o, path |-> q]), "outbound", o, [id |-> m, path |-> q]),
           ~d.failed
    PROVE  FieldMade(e, d, R, m, o, q)
<1> DEFINE V == View(e.nodes)
           P == Present(e.nodes)
<1>1. m \in Node /\ o \in Node /\ q \in Path /\ m \notin Entity /\ m \notin Root
  <2>1. Owner(m) \in Reference
    BY PayloadAssumption
  <2>2. Owner(m).id \in Node /\ Owner(m).path \in Path
    BY <2>1 DEF Reference
  <2>3. QED BY <2>2, NodeAssumption DEF Node
<1>2. /\ k \in Nat \ {0} /\ l \in Nat /\ \A j \in 1..l : j \in 1..k
      /\ \A j \in 1..k : j \in 1..l \/ j = k
  BY Earlier
<1>3. e \in Editor /\ ~e.failed /\ EndsMatch(V) /\ ReferencesLed(V) /\ EditsTell(e)
  BY DEF Sound
<1>4. V \in [Node -> NodeSnapshot] /\ e.nodes \in [Node -> NodeSnapshot \cup {Absent}]
  BY <1>3, ViewTyped DEF Editor
<1>5. Reached(V, P, R, p, l) /\ Referenced(V, P, R) /\ R \subseteq EditRecord
  BY DEF WalkInv
<1> HIDE DEF V
<1>6. V[m].inbound = {}
  <2>1. SUFFICES ASSUME NEW r \in V[m].inbound PROVE FALSE
    OBVIOUS
  <2>2. r \in Reference
    BY <1>1, <1>4 DEF NodeSnapshot
  <2>3. r.id \in Node /\ r.path \in Path /\ r = [id |-> r.id, path |-> r.path]
    BY <2>2 DEF Reference
  <2>4. [id |-> m, path |-> r.path] \in V[r.id].outbound
    BY <1>1, <1>3, <2>1, <2>3 DEF EndsMatch
  <2>6. Owner(m) = r
    BY <1>1, <1>3, <2>3, <2>4 DEF ReferencesLed
  <2>7. r.id = o /\ r.path = q
    BY <2>6
  <2>8. QED BY <2>4, <2>7 DEF V
<1>7. m \notin P
  BY <1>1, <1>5, <1>6 DEF Referenced, Apart, Unnamed
<1>8. Comes(V, P, R, o)
  <2>1. Written(p[k]) = o
    BY DEF Written
  <2>2. l >= k - 1
    BY <1>2
  <2>3. QED BY <1>2, <1>4, <1>5, <2>1, <2>2, WrittenThere DEF V
<1>9. o # m
  BY <1>1, <1>7, <1>8 DEF Comes, Unnamed
<1>10. FieldAdded(e, d, m, o, q)
  BY <1>1, <1>3, <1>7, <1>9, FieldAdds
<1>11. o \notin P => o \notin e.made
  BY <1>1, <1>3, <1>7, <1>9, OwnerAnew
<1>12. QED BY <1>7, <1>8, <1>9, <1>10, <1>11 DEF FieldMade, V

\* A parameterized field that is not there yet.
LEMMA ParamMade ==
    ASSUME NEW e, Sound(e), NEW R, NEW p \in Payload, NEW k \in DOMAIN p, p[k].op = "param",
           NEW l, l = k - 1, WalkInv(e, R, p, l),
           NEW m \in Param, m = p[k].node, NEW o, NEW q, Owner(m) = [id |-> o, path |-> q],
           [id |-> m, path |-> q] \notin View(e.nodes)[o].outbound,
           NEW d, d = AddReference(Placed(e, m, [id |-> o, path |-> q]), "outbound", o, [id |-> m, path |-> q]),
           ~d.failed
    PROVE  Sound(d) /\ WalkInv(d, R, p, k) /\ d.merged = e.merged
<1> DEFINE V == View(e.nodes)
           P == Present(e.nodes)
           W == View(d.nodes)
<1>1. m \in Node /\ o \in Node /\ q \in Path /\ m \notin Entity /\ m \notin Root
  <2>1. Owner(m) \in Reference
    BY PayloadAssumption
  <2>2. Owner(m).id \in Node /\ Owner(m).path \in Path
    BY <2>1 DEF Reference
  <2>3. QED BY <2>2, NodeAssumption DEF Node
<1>2. /\ k \in Nat \ {0} /\ l \in Nat /\ \A j \in 1..l : j \in 1..k
      /\ \A j \in 1..k : j \in 1..l \/ j = k
  BY Earlier
<1>3. e \in Editor /\ ~e.failed /\ EndsMatch(V) /\ ReferencesLed(V) /\ EditsTell(e)
  BY DEF Sound
<1>4. V \in [Node -> NodeSnapshot] /\ e.nodes \in [Node -> NodeSnapshot \cup {Absent}]
  BY <1>3, ViewTyped DEF Editor
<1>5. Reached(V, P, R, p, l) /\ Referenced(V, P, R) /\ R \subseteq EditRecord
  BY DEF WalkInv
<1>6. FieldMade(e, d, R, m, o, q)
  BY FieldIsMade
<1> HIDE DEF V
<1>7. m \notin P
  BY <1>6 DEF FieldMade
<1>8. Comes(V, P, R, o)
  BY <1>6 DEF FieldMade, V
<1>10. FieldAdded(e, d, m, o, q) /\ o # m
  BY <1>6 DEF FieldMade
<1>11. o \notin P => o \notin e.edited
  <2>1. o \notin P => o \notin e.made
    BY <1>6 DEF FieldMade
  <2>2. QED BY <1>3, <2>1 DEF EditsTell
<1>12. Sound(d) /\ SameReferred(e, d)
  BY <1>1, <1>7, <1>10, <1>11, FieldSound
<1>13. /\ d.merged = e.merged /\ Present(d.nodes) = P \cup {m, o}
       /\ \A n \in Node : W[n].at = View(e.nodes)[n].at /\ W[n].leaf = V[n].leaf
       /\ \A n \in Node, r \in Reference :
             r \in W[n].inbound <=> r \in V[n].inbound \/ (n = m /\ r = [id |-> o, path |-> q])
  BY <1>10 DEF FieldAdded, V
<1>14. /\ Pending(W, R) /\ Origins(R, p, k)
       /\ ListsDone(W, p, k) /\ ListsToDo(W, p, k) /\ RefsDone(W, R, p, k)
  <2>1. SameData(e, d)
    BY <1>12, <1>13 DEF SameData
  <2>2. QED BY <2>1, SameListed
<1>15. Reached(W, Present(d.nodes), R, p, k)
  <2>1. \A n \in Node : V[n].inbound # {} => W[n].inbound # {}
    BY <1>4, <1>13 DEF NodeSnapshot
  <2>2. \A j \in 1..k : /\ p[j].op = "ref" /\ p[j].target \in Entity => p[j].target \in Node
                        /\ p[j].op = "fragment" => p[j].node \in Node
    BY Earlier, InstructionTyped DEF Node
  <2>3. \A j \in 1..k : p[j].op = "ref" \/ p[j].op = "fragment" => j \in 1..l
    BY <1>2
  <2>4. \A j \in 1..k : p[j].op \in {"leaf", "param"} => p[j].node \in P \cup {m, o}
    BY <1>2, <1>5 DEF Reached
  <2> HIDE DEF W
  <2>5. QED BY <1>5, <1>13, <2>1, <2>2, <2>3, <2>4 DEF Reached
<1>16. Referenced(W, Present(d.nodes), R)
  <2>1. SUFFICES ASSUME NEW n \in P \cup {m, o}, W[n].inbound = {}, ~Apart(W, n)
        PROVE  n \in Entity /\ \E r \in R : r.next = n
    BY <1>13 DEF Referenced
  <2>2. n \in Node
    BY <1>1, <2>1 DEF Present
  <2>3. n # m
    <3>1. [id |-> o, path |-> q] \in Reference
      BY <1>1 DEF Reference
    <3>2. QED BY <1>13, <2>1, <2>2, <3>1
  <2>4. V[n].inbound = {}
    <3>1. V[n].inbound \subseteq Reference
      BY <1>4, <2>2 DEF NodeSnapshot
    <3>2. SUFFICES ASSUME NEW r \in V[n].inbound PROVE FALSE
      OBVIOUS
    <3>3. r \in W[n].inbound
      BY <1>13, <2>2, <3>1, <3>2
    <3>4. QED BY <2>1, <3>3
  <2>8. ~Apart(V, n)
    BY <1>13, <2>1, <2>2 DEF Apart
  <2>5. CASE n \in P
    BY <1>5, <2>4, <2>5, <2>8 DEF Referenced, V
  <2>6. CASE n \notin P
    <3>1. n = o /\ n \notin Root
      BY <2>1, <2>3, <2>6 DEF Apart
    <3>2. V[n].leaf = Missing
      BY <1>4, <2>2, <2>6, ViewTyped DEF V, NewSnapshot
    <3>3. n \notin Unnamed
      BY <2>8, <3>2 DEF Apart
    <3>4. QED BY <1>8, <2>6, <3>1, <3>3 DEF Comes
  <2>7. QED BY <2>5, <2>6
<1>17. QED BY <1>5, <1>12, <1>13, <1>14, <1>15, <1>16 DEF WalkInv

\* The walk of a parameterized field keeps the invariant of the walk.
LEMMA ParamWalked ==
    ASSUME NEW w, NEW p \in Payload, NEW k \in DOMAIN p, NEW l, l = k - 1, NEW merged,
           WalkedTo(w, p, l, merged), ~w.editor.failed, p[k].op = "param"
    PROVE  WalkedTo(WalkParam(w, p[k]), p, k, merged)
<1> DEFINE m == p[k].node
           o == Owner(m).id
           q == Owner(m).path
           e == w.editor
           R == Collected(w.edits)
           V == View(e.nodes)
           P == Present(e.nodes)
           ref == [id |-> m, path |-> q]
           d == AddReference(Placed(e, m, Owner(m)), "outbound", o, ref)
           x == WalkParam(w, p[k])
<1>1. /\ w = [editor |-> e, edits |-> w.edits] /\ w.edits \in Seq(EditRecord)
      /\ Sound(e) /\ e.merged = merged /\ WalkInv(e, R, p, l)
  BY DEF WalkedTo
<1>2. m \in Param /\ m \in Node /\ Owner(m) \in Reference
  BY InstructionTyped, PayloadAssumption DEF Node
<1>3. o \in Node /\ q \in Path /\ Owner(m) = [id |-> o, path |-> q]
  BY <1>2 DEF Reference
<1>4. /\ e.nodes \in [Node -> NodeSnapshot \cup {Absent}]
      /\ e.nodes[o] # Absent => V[o] = e.nodes[o]
      /\ e.nodes[o] = Absent => V[o].outbound = {}
  BY <1>1, <1>3 DEF Sound, Editor, View, NewSnapshot
<1>5. x = IF e.nodes[o] # Absent /\ ref \in e.nodes[o].outbound THEN w ELSE [w EXCEPT !.editor = d]
  BY DEF WalkParam, Placed
<1>6. CASE ref \in V[o].outbound
  <2>1. x = w
    BY <1>4, <1>5, <1>6
  <2>2. m \in P
    <3>1. [id |-> o, path |-> q] \in V[m].inbound
      BY <1>1, <1>2, <1>3, <1>6 DEF Sound, EndsMatch
    <3> HIDE DEF e, m
    <3>2. QED BY <1>2, <1>4, <3>1, ReferredIsThere
  <2>3. /\ k \in Nat \ {0} /\ (\A j \in 1..l : j \in 1..k) /\ \A j \in 1..k : j \in 1..l \/ j = k
    BY Earlier
  <2>4. WalkInv(e, R, p, k)
    <3>1. /\ R \subseteq EditRecord /\ Pending(V, R) /\ Origins(R, p, l)
          /\ ListsDone(V, p, l) /\ ListsToDo(V, p, l) /\ RefsDone(V, R, p, l)
          /\ Reached(V, P, R, p, l) /\ Referenced(V, P, R)
      BY <1>1 DEF WalkInv
    <3> HIDE DEF V, P, R
    <3>2. Origins(R, p, k)
      BY <2>3, <3>1 DEF Origins
    <3>3. ListsDone(V, p, k) /\ ListsToDo(V, p, k) /\ RefsDone(V, R, p, k)
      BY <2>3, <3>1 DEF ListsDone, ListsToDo, RefsDone
    <3>4. Reached(V, P, R, p, k)
      BY <2>2, <2>3, <3>1 DEF Reached
    <3>5. QED BY <3>1, <3>2, <3>3, <3>4 DEF WalkInv, V, P
  <2>5. QED BY <1>1, <2>1, <2>4 DEF WalkedTo
<1>7. CASE ref \notin V[o].outbound
  <2>1. x = [editor |-> d, edits |-> w.edits]
    BY <1>1, <1>4, <1>5, <1>7
  <2>2. ~d.failed => Sound(d) /\ WalkInv(d, R, p, k) /\ d.merged = e.merged
    <3>1. /\ m = p[k].node /\ Owner(m) = [id |-> o, path |-> q] /\ WalkInv(e, R, p, l)
          /\ [id |-> m, path |-> q] \notin View(e.nodes)[o].outbound
      BY <1>1, <1>3, <1>7
    <3>2. d = AddReference(Placed(e, m, [id |-> o, path |-> q]), "outbound", o, [id |-> m, path |-> q])
      BY <1>3
    <3> HIDE DEF d, e, R, m, o, q
    <3>3. SUFFICES ASSUME ~d.failed PROVE Sound(d) /\ WalkInv(d, R, p, k) /\ d.merged = e.merged
      OBVIOUS
    <3>4. QED BY <1>1, <1>2, <3>1, <3>2, <3>3, ParamMade
  <2> HIDE DEF d, e, R, x
  <2>3. x.editor = d /\ x.edits = w.edits /\ x = [editor |-> x.editor, edits |-> x.edits]
    BY <2>1
  <2>4. WalkedTo(x, p, k, merged)
    BY <1>1, <2>2, <2>3 DEF WalkedTo, R
  <2>5. QED BY <2>4 DEF x
<1>8. QED BY <1>6, <1>7

\* The walk of a leaf keeps the invariant of the walk.
LEMMA LeafWalkedTo ==
    ASSUME NEW w, NEW p \in Payload, NEW k \in DOMAIN p, NEW l, l = k - 1, NEW merged,
           WalkedTo(w, p, l, merged), ~w.editor.failed, p[k].op = "leaf"
    PROVE  WalkedTo(WalkLeaf(w, p[k]), p, k, merged)
<1> DEFINE e == w.editor
           edits == w.edits
           R == Collected(edits)
           x == WalkLeaf([editor |-> e, edits |-> edits], p[k])
<1>1. /\ w = [editor |-> e, edits |-> edits] /\ edits \in Seq(EditRecord)
      /\ Sound(e) /\ e.merged = merged /\ WalkInv(e, R, p, k - 1)
  BY DEF WalkedTo
<1>2. /\ x.edits = edits /\ x = [editor |-> x.editor, edits |-> edits]
      /\ ~x.editor.failed => Sound(x.editor) /\ WalkInv(x.editor, R, p, k)
                             /\ x.editor.merged = e.merged
  BY <1>1, LeafWalked
<1>3. WalkLeaf(w, p[k]) = x
  BY <1>1
<1> HIDE DEF x, e
<1>4. WalkedTo(x, p, k, merged)
  BY <1>1, <1>2 DEF WalkedTo
<1>5. QED BY <1>3, <1>4

\* A payload rooted at a parameterized value is for one that is there.
Starts(e, p) == p # <<>> /\ RootOf(p) \in Param => RootOf(p) \in Present(e.nodes)

\* The walk of a payload starts in an editor whose graph is as graphs are.
LEMMA WalkStarts ==
    ASSUME NEW p \in Payload, NEW e \in Editor, ~e.failed, GraphInv(e.nodes), EditsTell(e),
           Starts(e, p), NEW base, base = [editor |-> e, edits |-> <<>>]
    PROVE  WalkedTo(base, p, 0, e.merged)
<1>1. Sound(e)
  BY DEF Sound, GraphInv
<1>2. WalkInv(e, {}, p, 0)
  <2> DEFINE V == View(e.nodes)
             P == Present(e.nodes)
  <2>1. Pending(V, {})
    BY DEF GraphInv, DataMatches, Pending
  <2>2. Origins({}, p, 0) /\ ListsDone(V, p, 0) /\ RefsDone(V, {}, p, 0) /\ Reached(V, P, {}, p, 0)
    BY DEF Origins, ListsDone, RefsDone, Reached, Starts
  <2>3. ListsToDo(V, p, 0)
    BY DEF GraphInv, ListsWhole, ListsToDo
  <2>4. Referenced(V, P, {})
    <3>1. \A m \in P : e.nodes[m] = V[m]
      BY ViewTyped DEF Editor
    <3>2. QED BY <3>1 DEF GraphInv, OrphansGone, Referenced, Apart
  <2>5. QED BY <2>1, <2>2, <2>3, <2>4 DEF WalkInv
<1>3. Collected(<<>>) = {}
  BY DEF Collected
<1>4. /\ base.editor = e /\ base.edits = <<>> /\ base = [editor |-> base.editor, edits |-> base.edits]
      /\ base.edits \in Seq(EditRecord) /\ Collected(base.edits) = {}
  BY <1>3
<1>5. QED BY <1>1, <1>2, <1>4 DEF WalkedTo

-----------------------------------------------------------------------------
(* The reference edits of a payload.                                       *)

\* d is e with other references; some nodes are new versions.
Relinked(e, d, ids) ==
    /\ e \in Editor /\ d \in Editor /\ ~e.failed /\ ~d.failed
    /\ Present(d.nodes) = Present(e.nodes) \cup ids
    /\ d.made = e.made \cup ids /\ d.edited = e.edited /\ d.merged = e.merged
    /\ (ids \ Present(e.nodes)) \cap e.made = {}
    /\ \A n \in Node :
          /\ View(d.nodes)[n].leaf = View(e.nodes)[n].leaf
          /\ View(d.nodes)[n].at = View(e.nodes)[n].at
          /\ View(d.nodes)[n].fresh = View(e.nodes)[n].fresh

\* Where d has a reference that e does not, and the other way round: n has
\* lost `out' and got `new'.
InboundIs(e, d, n, lost, new) ==
    \A m \in Node, r \in Reference :
        r \in View(d.nodes)[m].inbound
          <=> (r \in View(e.nodes)[m].inbound /\ ~(m = n /\ r \in lost)) \/ (m = n /\ r \in new)

OutboundIs(e, d, n, lost, new) ==
    \A m \in Node, r \in Reference :
        r \in View(d.nodes)[m].outbound
          <=> (r \in View(e.nodes)[m].outbound /\ ~(m = n /\ r \in lost)) \/ (m = n /\ r \in new)

\* Two changes of references are one.
LEMMA RelinkedTwice ==
    ASSUME NEW e, NEW d, NEW f, NEW i, NEW j, Relinked(e, d, i), Relinked(d, f, j)
    PROVE  Relinked(e, f, i \cup j)
BY DEF Relinked

\* One node is another, and not edited.
MovedOne(e, d, V, n) == Moved(e, d, V, {n}, {})

InboundSet(e, d, n, refs) ==
    \A m \in Node : View(d.nodes)[m].inbound = IF m = n THEN refs ELSE View(e.nodes)[m].inbound

OutboundSet(e, d, n, refs) ==
    \A m \in Node : View(d.nodes)[m].outbound = IF m = n THEN refs ELSE View(e.nodes)[m].outbound

\* A node with other references.
LEMMA MovedInbound ==
    ASSUME NEW e \in Editor, ~e.failed, NEW d, NEW n \in Node, NEW refs,
           MovedOne(e, d, WithIn(View(e.nodes), n, refs), n)
    PROVE  /\ Relinked(e, d, {n}) /\ OutboundIs(e, d, n, {}, {})
           /\ InboundSet(e, d, n, refs)
<1> DEFINE V == View(e.nodes)
           W == View(d.nodes)
           s == [V[n] EXCEPT !.inbound = refs]
<1>1. V \in [Node -> NodeSnapshot]
  BY ViewTyped DEF Editor
<1>2. /\ s.leaf = V[n].leaf /\ s.at = V[n].at /\ s.fresh = V[n].fresh /\ s.inbound = refs
      /\ s.outbound = V[n].outbound
  BY <1>1 DEF NodeSnapshot
<1>3. W = [V EXCEPT ![n] = s]
  BY DEF MovedOne, Moved, WithIn
<1> HIDE DEF V, W, s
<1>4. W[n] = s /\ \A m \in Node \ {n} : W[m] = V[m]
  BY <1>1, <1>3
<1>5. \A m \in Node : /\ W[m].leaf = V[m].leaf /\ W[m].at = V[m].at /\ W[m].fresh = V[m].fresh
                      /\ W[m].outbound = V[m].outbound
                      /\ W[m].inbound = IF m = n THEN refs ELSE V[m].inbound
  BY <1>2, <1>4
<1>6. Relinked(e, d, {n})
  BY <1>5 DEF MovedOne, Moved, Relinked, V, W
<1>7. QED BY <1>5, <1>6 DEF OutboundIs, InboundSet, V, W

\* A change of the outbound references of one node.
LEMMA MovedOutbound ==
    ASSUME NEW e \in Editor, ~e.failed, NEW d, NEW n \in Node, NEW refs,
           MovedOne(e, d, WithOut(View(e.nodes), n, refs), n)
    PROVE  /\ Relinked(e, d, {n}) /\ InboundIs(e, d, n, {}, {})
           /\ OutboundSet(e, d, n, refs)
<1> DEFINE V == View(e.nodes)
           W == View(d.nodes)
           s == [V[n] EXCEPT !.outbound = refs]
<1>1. V \in [Node -> NodeSnapshot]
  BY ViewTyped DEF Editor
<1>2. /\ s.leaf = V[n].leaf /\ s.at = V[n].at /\ s.fresh = V[n].fresh /\ s.outbound = refs
      /\ s.inbound = V[n].inbound
  BY <1>1 DEF NodeSnapshot
<1>3. W = [V EXCEPT ![n] = s]
  BY DEF MovedOne, Moved, WithOut
<1> HIDE DEF V, W, s
<1>4. W[n] = s /\ \A m \in Node \ {n} : W[m] = V[m]
  BY <1>1, <1>3
<1>5. \A m \in Node : /\ W[m].leaf = V[m].leaf /\ W[m].at = V[m].at /\ W[m].fresh = V[m].fresh
                      /\ W[m].inbound = V[m].inbound
                      /\ W[m].outbound = IF m = n THEN refs ELSE V[m].outbound
  BY <1>2, <1>4
<1>6. Relinked(e, d, {n})
  BY <1>5 DEF MovedOne, Moved, Relinked, V, W
<1>7. QED BY <1>5, <1>6 DEF InboundIs, OutboundSet, V, W

\* Each of the four operations on references changes one set of one node.
LEMMA LinkOperations ==
    ASSUME NEW e \in Editor, NEW n \in Node, NEW r \in Reference
    PROVE  /\ LET d == RemoveReference(e, "inbound", n, r) IN ~d.failed =>
                Relinked(e, d, {n}) /\ OutboundIs(e, d, n, {}, {}) /\ InboundIs(e, d, n, {r}, {})
           /\ LET d == RemoveReference(e, "outbound", n, r) IN ~d.failed =>
                Relinked(e, d, {n}) /\ InboundIs(e, d, n, {}, {}) /\ OutboundIs(e, d, n, {r}, {})
           /\ LET d == AddReference(e, "inbound", n, r) IN ~d.failed =>
                Relinked(e, d, {n}) /\ OutboundIs(e, d, n, {}, {}) /\ InboundIs(e, d, n, {}, {r})
           /\ LET d == AddReference(e, "outbound", n, r) IN ~d.failed =>
                Relinked(e, d, {n}) /\ InboundIs(e, d, n, {}, {}) /\ OutboundIs(e, d, n, {}, {r})
<1> DEFINE V == View(e.nodes)
           x == V[n].inbound \ {r}
           y == V[n].outbound \ {r}
           a == V[n].inbound \cup {r}
           b == V[n].outbound \cup {r}
<1>3. ASSUME NEW d, d = RemoveReference(e, "inbound", n, r), ~d.failed
      PROVE  Relinked(e, d, {n}) /\ OutboundIs(e, d, n, {}, {}) /\ InboundIs(e, d, n, {r}, {})
  <2>1. ~e.failed /\ MovedOne(e, d, WithIn(V, n, x), n)
    BY <1>3, RemoveReferenceMoves DEF MovedOne
  <2> HIDE DEF x
  <2>2. /\ Relinked(e, d, {n}) /\ OutboundIs(e, d, n, {}, {})
        /\ InboundSet(e, d, n, x)
    BY <2>1, MovedInbound
  <2>3. QED BY <2>2 DEF InboundIs, InboundSet, x
<1>4. ASSUME NEW d, d = RemoveReference(e, "outbound", n, r), ~d.failed
      PROVE  Relinked(e, d, {n}) /\ InboundIs(e, d, n, {}, {}) /\ OutboundIs(e, d, n, {r}, {})
  <2>1. ~e.failed /\ MovedOne(e, d, WithOut(V, n, y), n)
    BY <1>4, RemoveReferenceMoves DEF MovedOne
  <2> HIDE DEF y
  <2>2. /\ Relinked(e, d, {n}) /\ InboundIs(e, d, n, {}, {})
        /\ OutboundSet(e, d, n, y)
    BY <2>1, MovedOutbound
  <2>3. QED BY <2>2 DEF OutboundIs, OutboundSet, y
<1>5. ASSUME NEW d, d = AddReference(e, "inbound", n, r), ~d.failed
      PROVE  Relinked(e, d, {n}) /\ OutboundIs(e, d, n, {}, {}) /\ InboundIs(e, d, n, {}, {r})
  <2>1. ~e.failed /\ MovedOne(e, d, WithIn(V, n, a), n)
    BY <1>5, AddReferenceMoves DEF MovedOne
  <2> HIDE DEF a
  <2>2. /\ Relinked(e, d, {n}) /\ OutboundIs(e, d, n, {}, {})
        /\ InboundSet(e, d, n, a)
    BY <2>1, MovedInbound
  <2>3. QED BY <2>2 DEF InboundIs, InboundSet, a
<1>6. ASSUME NEW d, d = AddReference(e, "outbound", n, r), ~d.failed
      PROVE  Relinked(e, d, {n}) /\ InboundIs(e, d, n, {}, {}) /\ OutboundIs(e, d, n, {}, {r})
  <2>1. ~e.failed /\ MovedOne(e, d, WithOut(V, n, b), n)
    BY <1>6, AddReferenceMoves DEF MovedOne
  <2> HIDE DEF b
  <2>2. /\ Relinked(e, d, {n}) /\ InboundIs(e, d, n, {}, {})
        /\ OutboundSet(e, d, n, b)
    BY <2>1, MovedOutbound
  <2>3. QED BY <2>2 DEF OutboundIs, OutboundSet, b
<1>7. QED BY <1>3, <1>4, <1>5, <1>6

\* A failure is not undone.
LEMMA StaysEditor ==
    ASSUME NEW e \in Editor, NEW n \in Node
    PROVE  /\ EnsureNewSnapshot(e, n) \in Editor
           /\ \A r \in Reference, i \in {"inbound", "outbound"} :
                 RemoveReference(e, i, n, r) \in Editor /\ AddReference(e, i, n, r) \in Editor
           /\ \A at \in [Path -> Value] : Edit(e, n, at) \in Editor
<1>1. ASSUME NEW d \in Editor PROVE EnsureNewSnapshot(d, n) \in Editor
  <2>1. CASE EnsureNewSnapshot(d, n).failed /\ (d.failed \/ (n \in d.made /\ d.nodes[n] = Absent))
    BY <1>1, <2>1 DEF EnsureNewSnapshot, Editor
  <2>2. CASE ~EnsureNewSnapshot(d, n).failed
    BY <1>1, <2>2, Ensured DEF Moved
  <2>3. CASE EnsureNewSnapshot(d, n).failed /\ ~(d.failed \/ (n \in d.made /\ d.nodes[n] = Absent))
    BY <1>1, <2>3 DEF EnsureNewSnapshot, Editor
  <2>4. QED BY <2>1, <2>2, <2>3
<1>2. ASSUME NEW r \in Reference, NEW i \in {"inbound", "outbound"}
      PROVE  RemoveReference(e, i, n, r) \in Editor /\ AddReference(e, i, n, r) \in Editor
  <2>1. RemoveReference(e, i, n, r) \in Editor
    <3>1. CASE RemoveReference(e, i, n, r).failed
      <4>1. CASE EnsureNewSnapshot(e, n).failed
        BY <1>1, <4>1 DEF RemoveReference
      <4>2. CASE ~EnsureNewSnapshot(e, n).failed
        BY <1>1, <3>1, <4>2 DEF RemoveReference, Editor
      <4>3. QED BY <4>1, <4>2
    <3>2. CASE ~RemoveReference(e, i, n, r).failed
      BY <3>2, LinkOperations DEF Relinked
    <3>3. QED BY <3>1, <3>2
  <2>2. AddReference(e, i, n, r) \in Editor
    <3>1. CASE AddReference(e, i, n, r).failed
      <4>1. CASE EnsureNewSnapshot(e, n).failed
        BY <1>1, <4>1 DEF AddReference
      <4>2. CASE ~EnsureNewSnapshot(e, n).failed
        BY <1>1, <3>1, <4>2 DEF AddReference, Editor
      <4>3. QED BY <4>1, <4>2
    <3>2. CASE ~AddReference(e, i, n, r).failed
      BY <3>2, LinkOperations DEF Relinked
    <3>3. QED BY <3>1, <3>2
  <2>3. QED BY <2>1, <2>2
<1>3. ASSUME NEW at \in [Path -> Value] PROVE Edit(e, n, at) \in Editor
  <2> DEFINE d == [e EXCEPT !.edited = @ \cup {n}]
  <2>1. d \in Editor
    BY DEF Editor
  <2> HIDE DEF d
  <2>2. CASE SetData(d, n, at).failed
    <3>1. CASE EnsureNewSnapshot(d, n).failed
      BY <1>1, <2>1, <3>1 DEF SetData, Edit, d
    <3>2. CASE ~EnsureNewSnapshot(d, n).failed
      BY <1>1, <2>1, <2>2, <3>2 DEF SetData, Editor
    <3>3. QED BY <3>1, <3>2
  <2>3. CASE ~SetData(d, n, at).failed
    BY <2>1, <2>3, SetDataMoves DEF Moved, Edit, d
  <2>4. QED BY <2>2, <2>3
<1>4. QED BY <1>1, <1>2, <1>3

\* Other references between the nodes leave the rest as sound as it was.
LEMMA RelinkedSound ==
    ASSUME NEW e, Sound(e), NEW d, NEW ids, Relinked(e, d, ids),
           EndsMatch(View(d.nodes)), ReferencesLed(View(d.nodes))
    PROVE  Sound(d)
<1> DEFINE V == View(e.nodes)
           W == View(d.nodes)
<1>1. /\ KindsKept(V) /\ FreshAreFresh(V) /\ EditsTell(e)
      /\ d \in Editor /\ ~d.failed
      /\ Present(d.nodes) = Present(e.nodes) \cup ids
      /\ d.made = e.made \cup ids /\ d.edited = e.edited
      /\ (ids \ Present(e.nodes)) \cap e.made = {}
      /\ \A n \in Node : W[n].leaf = V[n].leaf /\ W[n].at = V[n].at /\ W[n].fresh = V[n].fresh
  BY DEF Sound, Relinked
<1> HIDE DEF V, W
<1>2. KindsKept(W)
  BY <1>1 DEF KindsKept
<1>3. FreshAreFresh(W)
  <2>1. SUFFICES ASSUME NEW n \in Node, NEW g \in Path, W[n].at[g] \in Pointer, W[n].at[g].fresh
        PROVE  W[W[n].at[g].to].fresh
    BY DEF FreshAreFresh
  <2>2. V[n].at[g] = W[n].at[g] /\ W[n].at[g].to \in Node
    BY <1>1, <2>1 DEF Pointer, Node
  <2>3. V[V[n].at[g].to].fresh
    BY <1>1, <2>1, <2>2 DEF FreshAreFresh
  <2>4. QED BY <1>1, <2>2, <2>3
<1>4. EditsTell(d)
  <2>1. d.edited \subseteq d.made
    BY <1>1 DEF EditsTell
  <2>2. \A n \in Node : W[n].fresh => n \in d.edited
    BY <1>1 DEF EditsTell, V
  <2>3. ASSUME NEW n \in Present(d.nodes) \ Param, n \in d.edited PROVE d.nodes[n].fresh
    <3>1. n \in Present(e.nodes)
      BY <1>1, <2>3 DEF EditsTell
    <3>2. e.nodes[n].fresh
      BY <1>1, <2>3, <3>1 DEF EditsTell
    <3>3. n \in Node /\ V[n] = e.nodes[n]
      BY <3>1 DEF Present, V, View
    <3>4. W[n] = d.nodes[n]
      BY <2>3 DEF Present, W, View
    <3>5. QED BY <1>1, <3>2, <3>3, <3>4
  <2>4. \A n \in Node \ d.edited : W[n].leaf = View(graph)[n].leaf /\ W[n].at = View(graph)[n].at
    BY <1>1 DEF EditsTell, V
  <2>5. QED BY <2>1, <2>2, <2>3, <2>4 DEF EditsTell, W
<1>5. QED BY <1>1, <1>2, <1>3, <1>4 DEF Sound, W

\* The reference from a path of one node to another is gone, or is there.
Dropped(e, d, n, q, m) ==
    /\ Relinked(e, d, {n, m})
    /\ OutboundIs(e, d, n, {[id |-> m, path |-> q]}, {})
    /\ InboundIs(e, d, m, {[id |-> n, path |-> q]}, {})

Added(e, d, n, q, m) ==
    /\ Relinked(e, d, {n, m})
    /\ OutboundIs(e, d, n, {}, {[id |-> m, path |-> q]})
    /\ InboundIs(e, d, m, {}, {[id |-> n, path |-> q]})

\* Unlinking drops both ends of a reference and no other.
LEMMA UnlinkDrops ==
    ASSUME NEW e \in Editor, NEW n \in Node, NEW q \in Path, NEW m \in Node,
           NEW a, a = RemoveReference(e, "outbound", n, [id |-> m, path |-> q]),
           NEW b, b = RemoveReference(a, "inbound", m, [id |-> n, path |-> q]), ~b.failed
    PROVE  Dropped(e, b, n, q, m)
<1> DEFINE x == [id |-> m, path |-> q]
           y == [id |-> n, path |-> q]
<1>1. x \in Reference /\ y \in Reference
  BY DEF Reference
<1>2. a = RemoveReference(e, "outbound", n, x) /\ b = RemoveReference(a, "inbound", m, y)
  OBVIOUS
<1> HIDE DEF x, y
<1>3. a \in Editor
  BY <1>1, <1>2, StaysEditor
<1>4. Relinked(a, b, {m}) /\ OutboundIs(a, b, m, {}, {}) /\ InboundIs(a, b, m, {y}, {})
  BY <1>1, <1>2, <1>3, LinkOperations
<1>5. ~a.failed
  BY <1>4 DEF Relinked
<1>6. Relinked(e, a, {n}) /\ InboundIs(e, a, n, {}, {}) /\ OutboundIs(e, a, n, {x}, {})
  BY <1>1, <1>2, <1>5, LinkOperations
<1>7. Relinked(e, b, {n, m})
  BY <1>4, <1>6 DEF Relinked
<1>8. OutboundIs(e, b, n, {x}, {})
  BY <1>4, <1>6 DEF OutboundIs
<1>9. InboundIs(e, b, m, {y}, {})
  BY <1>4, <1>6 DEF InboundIs
<1>10. QED BY <1>7, <1>8, <1>9 DEF Dropped, x, y

\* Linking adds both ends of a reference and no other.
LEMMA LinkAdds ==
    ASSUME NEW e \in Editor, NEW n \in Node, NEW q \in Path, NEW m \in Node,
           NEW a, a = AddReference(e, "outbound", n, [id |-> m, path |-> q]),
           NEW b, b = AddReference(a, "inbound", m, [id |-> n, path |-> q]), ~b.failed
    PROVE  Added(e, b, n, q, m)
<1> DEFINE x == [id |-> m, path |-> q]
           y == [id |-> n, path |-> q]
<1>1. x \in Reference /\ y \in Reference
  BY DEF Reference
<1>2. a = AddReference(e, "outbound", n, x) /\ b = AddReference(a, "inbound", m, y)
  OBVIOUS
<1> HIDE DEF x, y
<1>3. a \in Editor
  BY <1>1, <1>2, StaysEditor
<1>4. Relinked(a, b, {m}) /\ OutboundIs(a, b, m, {}, {}) /\ InboundIs(a, b, m, {}, {y})
  BY <1>1, <1>2, <1>3, LinkOperations
<1>5. ~a.failed
  BY <1>4 DEF Relinked
<1>6. Relinked(e, a, {n}) /\ InboundIs(e, a, n, {}, {}) /\ OutboundIs(e, a, n, {}, {x})
  BY <1>1, <1>2, <1>5, LinkOperations
<1>7. Relinked(e, b, {n, m})
  BY <1>4, <1>6 DEF Relinked
<1>8. OutboundIs(e, b, n, {}, {x})
  BY <1>4, <1>6 DEF OutboundIs
<1>9. InboundIs(e, b, m, {}, {y})
  BY <1>4, <1>6 DEF InboundIs
<1>10. QED BY <1>7, <1>8, <1>9 DEF Added, x, y

\* Without both ends of a reference the others are as sound as before.
LEMMA DroppedSound ==
    ASSUME NEW e, Sound(e), NEW d, NEW n \in Node, NEW q \in Path, NEW m \in Entity, Dropped(e, d, n, q, m)
    PROVE  /\ Sound(d)
           /\ \A o \in Node, g \in Path :
                 Referred(View(d.nodes), o, g)
                   = Referred(View(e.nodes), o, g) \ (IF o = n /\ g = q THEN {m} ELSE {})
           /\ \A o \in Node \ {m} : View(d.nodes)[o].inbound = View(e.nodes)[o].inbound
           /\ View(d.nodes)[m].inbound \subseteq View(e.nodes)[m].inbound
<1> DEFINE V == View(e.nodes)
           W == View(d.nodes)
<1>1. \A o \in Node, r \in Reference :
         /\ r \in W[o].outbound <=> r \in V[o].outbound /\ ~(o = n /\ r = [id |-> m, path |-> q])
         /\ r \in W[o].inbound <=> r \in V[o].inbound /\ ~(o = m /\ r = [id |-> n, path |-> q])
  BY DEF Dropped, OutboundIs, InboundIs
<1>2. Relinked(e, d, {n, m}) /\ EndsMatch(V) /\ ReferencesLed(V) /\ m \in Node
  BY DEF Dropped, Sound, Node
<1>3. \A o \in Node, g \in Path : [id |-> o, path |-> g] \in Reference
  BY DEF Reference
<1>4. V \in [Node -> NodeSnapshot] /\ W \in [Node -> NodeSnapshot]
  BY <1>2, ViewTyped DEF Relinked, Editor
<1> HIDE DEF V, W
<1>5. ASSUME NEW a \in Node, NEW b \in Node, NEW g \in Path
      PROVE  /\ [id |-> b, path |-> g] \in W[a].outbound
                  <=> [id |-> b, path |-> g] \in V[a].outbound /\ ~(a = n /\ b = m /\ g = q)
             /\ [id |-> a, path |-> g] \in W[b].inbound
                  <=> [id |-> a, path |-> g] \in V[b].inbound /\ ~(a = n /\ b = m /\ g = q)
  <2> DEFINE ba == [id |-> b, path |-> g]
             ab == [id |-> a, path |-> g]
  <2>1. /\ ba = [id |-> m, path |-> q] <=> b = m /\ g = q
        /\ ab = [id |-> n, path |-> q] <=> a = n /\ g = q
    OBVIOUS
  <2>2. ba \in Reference /\ ab \in Reference
    BY <1>3
  <2> HIDE DEF ba, ab
  <2>3. ba \in W[a].outbound <=> ba \in V[a].outbound /\ ~(a = n /\ ba = [id |-> m, path |-> q])
    BY <1>1, <2>2
  <2>4. ab \in W[b].inbound <=> ab \in V[b].inbound /\ ~(b = m /\ ab = [id |-> n, path |-> q])
    BY <1>1, <2>2
  <2>5. QED BY <2>1, <2>3, <2>4 DEF ba, ab
<1>6. EndsMatch(W)
  BY <1>2, <1>5 DEF EndsMatch
<1>7. ReferencesLed(W)
  BY <1>2, <1>5 DEF ReferencesLed
<1>8. Sound(d)
  BY <1>2, <1>6, <1>7, RelinkedSound DEF W
<1>9. ASSUME NEW o \in Node, NEW g \in Path
      PROVE  Referred(W, o, g) = Referred(V, o, g) \ (IF o = n /\ g = q THEN {m} ELSE {})
  BY <1>5 DEF Referred, Node
<1>10. /\ \A o \in Node \ {m} : W[o].inbound = V[o].inbound
       /\ W[m].inbound \subseteq V[m].inbound
  <2>1. \A o \in Node : W[o].inbound \subseteq Reference /\ V[o].inbound \subseteq Reference
    BY <1>4 DEF NodeSnapshot
  <2>2. QED BY <1>1, <1>2, <2>1
<1>11. QED BY <1>8, <1>9, <1>10 DEF V, W

NowReferred(e, d, n, q, m) ==
    /\ \A o \in Node, g \in Path :
          Referred(View(d.nodes), o, g)
            = Referred(View(e.nodes), o, g) \cup (IF o = n /\ g = q THEN {m} ELSE {})
    /\ \A o \in Node \ {m} : View(d.nodes)[o].inbound = View(e.nodes)[o].inbound
    /\ View(d.nodes)[m].inbound # {}

RefAt(n, q) == [id |-> n, path |-> q] \in RefLocations

\* With both ends of a reference the references are as sound as before.
LEMMA AddedSound ==
    ASSUME NEW e, Sound(e), NEW d, NEW n \in Node, NEW q \in Path, NEW m \in Entity, Added(e, d, n, q, m),
           RefAt(n, q) \/ [id |-> n, path |-> q] = Self(m)
    PROVE  /\ Sound(d)
           /\ [id |-> n, path |-> q] # Self(m) => NowReferred(e, d, n, q, m)
           /\ [id |-> n, path |-> q] = Self(m) => SameData(e, d)
           /\ \A o \in Node \ {m} : View(d.nodes)[o].inbound = View(e.nodes)[o].inbound
           /\ View(d.nodes)[m].inbound # {}
<1> DEFINE V == View(e.nodes)
           W == View(d.nodes)
<1>1. \A o \in Node, r \in Reference :
         /\ r \in W[o].outbound <=> r \in V[o].outbound \/ (o = n /\ r = [id |-> m, path |-> q])
         /\ r \in W[o].inbound <=> r \in V[o].inbound \/ (o = m /\ r = [id |-> n, path |-> q])
  BY DEF Added, OutboundIs, InboundIs
<1>2. Relinked(e, d, {n, m}) /\ EndsMatch(V) /\ ReferencesLed(V) /\ m \in Node
  BY DEF Added, Sound, Node
<1>3. \A o \in Node, g \in Path : [id |-> o, path |-> g] \in Reference
  BY DEF Reference
<1>4. V \in [Node -> NodeSnapshot] /\ W \in [Node -> NodeSnapshot]
  BY <1>2, ViewTyped DEF Relinked, Editor
<1> HIDE DEF V, W
<1>5. ASSUME NEW a \in Node, NEW b \in Node, NEW g \in Path
      PROVE  /\ [id |-> b, path |-> g] \in W[a].outbound
                  <=> [id |-> b, path |-> g] \in V[a].outbound \/ (a = n /\ b = m /\ g = q)
             /\ [id |-> a, path |-> g] \in W[b].inbound
                  <=> [id |-> a, path |-> g] \in V[b].inbound \/ (a = n /\ b = m /\ g = q)
  <2> DEFINE ba == [id |-> b, path |-> g]
             ab == [id |-> a, path |-> g]
  <2>1. /\ ba = [id |-> m, path |-> q] <=> b = m /\ g = q
        /\ ab = [id |-> n, path |-> q] <=> a = n /\ g = q
    OBVIOUS
  <2>2. ba \in Reference /\ ab \in Reference
    BY <1>3
  <2> HIDE DEF ba, ab
  <2>3. ba \in W[a].outbound <=> ba \in V[a].outbound \/ (a = n /\ ba = [id |-> m, path |-> q])
    BY <1>1, <2>2
  <2>4. ab \in W[b].inbound <=> ab \in V[b].inbound \/ (b = m /\ ab = [id |-> n, path |-> q])
    BY <1>1, <2>2
  <2>5. QED BY <2>1, <2>3, <2>4 DEF ba, ab
<1>6. EndsMatch(W)
  BY <1>2, <1>5 DEF EndsMatch
<1>7. ReferencesLed(W)
  <2>1. SUFFICES ASSUME NEW a \in Node, NEW b \in Node, NEW g \in Path, [id |-> b, path |-> g] \in W[a].outbound
        PROVE  \/ b \in Param /\ Owner(b) = [id |-> a, path |-> g]
               \/ b \in Entity /\ [id |-> a, path |-> g] \in RefLocations
               \/ b \in Entity /\ [id |-> a, path |-> g] = Self(b)
    BY DEF ReferencesLed
  <2>2. QED BY <1>2, <1>5, <2>1 DEF ReferencesLed, RefAt
<1>8. Sound(d)
  BY <1>2, <1>6, <1>7, RelinkedSound DEF W
<1>9. ASSUME NEW o \in Node, NEW g \in Path
      PROVE  Referred(W, o, g) = Referred(V, o, g)
                \cup (IF o = n /\ g = q /\ [id |-> n, path |-> q] # Self(m) THEN {m} ELSE {})
  BY <1>5 DEF Referred, Node
<1>10. (\A o \in Node \ {m} : W[o].inbound = V[o].inbound) /\ W[m].inbound # {}
  <2>1. \A o \in Node : W[o].inbound \subseteq Reference /\ V[o].inbound \subseteq Reference
    BY <1>4 DEF NodeSnapshot
  <2>2. [id |-> n, path |-> q] \in W[m].inbound
    BY <1>2, <1>5
  <2>3. QED BY <1>1, <2>1, <2>2
<1>11. \A o \in Node : W[o].at = V[o].at
  BY <1>2 DEF Relinked, V, W
<1>12. QED BY <1>8, <1>9, <1>10, <1>11 DEF V, W, NowReferred, SameData, SameReferred

\* The root of a fragment comes first, and keeps the invariant of the walk.
LEMMA FragmentWalked ==
    ASSUME NEW w, NEW p \in Payload, NEW k \in DOMAIN p, NEW l, l = k - 1, NEW merged,
           WalkedTo(w, p, l, merged), ~w.editor.failed, p[k].op = "fragment"
    PROVE  WalkedTo(WalkFragment(w, p[k]), p, k, merged)
<1> DEFINE n == p[k].node
           e == w.editor
           R == Collected(w.edits)
           V == View(e.nodes)
           P == Present(e.nodes)
           a == AddReference(e, "outbound", n, Self(n))
           d == AddReference(a, "inbound", n, Self(n))
           id == e.nodes[n] # Absent /\ e.nodes[n].leaf # Missing
           x == WalkFragment(w, p[k])
<1>1. /\ w = [editor |-> e, edits |-> w.edits] /\ w.edits \in Seq(EditRecord)
      /\ Sound(e) /\ e.merged = merged /\ WalkInv(e, R, p, l)
  BY DEF WalkedTo
<1>2. k = 1 /\ l = 0
  <2>1. NodesAfterFields(p)
    BY PayloadsAreWalks
  <2>2. k = 1
    BY <2>1 DEF NodesAfterFields
  <2>3. QED BY <2>2
<1>3. n \in Entity /\ n \in Node /\ n \notin Root
  BY InstructionTyped, NodeAssumption DEF Node
<1>4. /\ R \subseteq EditRecord /\ Origins(R, p, 0) /\ Reached(V, P, R, p, 0) /\ Referenced(V, P, R)
  BY <1>1, <1>2 DEF WalkInv
<1>5. R = {}
  BY <1>4 DEF Origins
<1>6. /\ e \in Editor /\ e.nodes \in [Node -> NodeSnapshot \cup {Absent}] /\ V \in [Node -> NodeSnapshot]
  BY <1>1, ViewTyped DEF Sound, Editor
<1>7. e.nodes[n] # Absent => V[n] = e.nodes[n] /\ n \in P
  BY <1>3 DEF View, Present
<1>8. CASE id = p[k].named
  <2>1. x = w
    BY <1>8 DEF WalkFragment
  <2>2. p[k].named => V[n].inbound # {}
    <3>1. SUFFICES ASSUME id, V[n].inbound = {} PROVE FALSE
      BY <1>8
    <3>2. n \in P /\ V[n].leaf # Missing
      BY <1>7, <3>1
    <3>3. QED BY <1>3, <1>4, <1>5, <3>1, <3>2 DEF Referenced, Apart
  <2>3. SameData(e, e)
    BY DEF SameData, SameReferred
  <2>4. /\ Pending(V, R) /\ Origins(R, p, k)
        /\ ListsDone(V, p, k) /\ ListsToDo(V, p, k) /\ RefsDone(V, R, p, k)
    BY <1>1, <2>3, SameListed
  <2>5. Reached(V, P, R, p, k)
    BY <1>2, <1>4, <2>2 DEF Reached
  <2>6. WalkInv(e, R, p, k)
    BY <1>4, <2>4, <2>5 DEF WalkInv
  <2>7. QED BY <1>1, <2>1, <2>6 DEF WalkedTo
<1>9. CASE id # p[k].named /\ x = [editor |-> d, edits |-> w.edits]
  <2>1. ASSUME ~d.failed PROVE Sound(d) /\ WalkInv(d, R, p, k) /\ d.merged = merged
    <3> DEFINE W == View(d.nodes)
    <3>1. <<>> \in Path /\ Self(n) = [id |-> n, path |-> <<>>]
      BY PathAssumption DEF Self
    <3>2. Added(e, d, n, <<>>, n)
      BY <1>3, <1>6, <2>1, <3>1, LinkAdds
    <3>3. /\ Sound(d) /\ SameData(e, d) /\ W[n].inbound # {}
          /\ \A o \in Node \ {n} : W[o].inbound = V[o].inbound
      <4> HIDE DEF d, e, n
      <4>1. QED BY <1>1, <1>3, <3>1, <3>2, AddedSound
    <3>4. /\ d.merged = e.merged /\ Present(d.nodes) = P \cup {n} /\ \A o \in Node : W[o].leaf = V[o].leaf
      BY <3>2 DEF Added, Relinked
    <3> HIDE DEF d, W
    <3>5. /\ Pending(W, R) /\ Origins(R, p, k)
          /\ ListsDone(W, p, k) /\ ListsToDo(W, p, k) /\ RefsDone(W, R, p, k)
      BY <1>1, <3>3, SameListed DEF W
    <3>6. Reached(W, Present(d.nodes), R, p, k)
      BY <1>2, <1>4, <3>3, <3>4 DEF Reached
    <3>7. Referenced(W, Present(d.nodes), R)
      <4>1. \A o \in P : o \in Node
        BY DEF Present
      <4>2. QED BY <1>4, <3>3, <3>4, <4>1 DEF Referenced, Apart
    <3>8. QED BY <1>1, <1>4, <3>3, <3>4, <3>5, <3>6, <3>7 DEF WalkInv, W
  <2> HIDE DEF d, x, R
  <2>2. QED BY <1>1, <1>9, <2>1 DEF WalkedTo, x, R
<1>10. CASE x.editor.failed /\ x = [editor |-> x.editor, edits |-> w.edits]
  BY <1>1, <1>10 DEF WalkedTo
<1>11. QED
  <2>1. CASE id # p[k].named /\ p[k].named /\ (e.nodes[n] = Absent \/ ~HasData(e.nodes[n]))
    <3>1. x = [w EXCEPT !.editor = d]
      BY <2>1 DEF WalkFragment
    <3> HIDE DEF x, d, e
    <3>2. x = [editor |-> d, edits |-> w.edits]
      BY <1>1, <3>1
    <3>3. QED BY <1>9, <2>1, <3>2 DEF x, e
  <2>2. CASE id # p[k].named /\ ~(p[k].named /\ (e.nodes[n] = Absent \/ ~HasData(e.nodes[n])))
    <3>1. x = [w EXCEPT !.editor.failed = TRUE]
      BY <2>2 DEF WalkFragment
    <3> HIDE DEF x, e
    <3>2. w.editor = e /\ e = [e EXCEPT !.failed = e.failed]
      BY <1>6 DEF e, Editor
    <3> DEFINE f == [e EXCEPT !.failed = TRUE]
    <3>3. f.failed
      BY <1>6 DEF Editor
    <3>4. x = [w EXCEPT !.editor = f]
      BY <1>1, <3>1, <3>2
    <3> HIDE DEF f
    <3>5. x = [editor |-> f, edits |-> w.edits]
      BY <1>1, <3>4
    <3>6. QED BY <1>10, <3>3, <3>5 DEF x
  <2>3. QED BY <1>8, <2>1, <2>2

\* The walk of any instruction keeps the invariant of the walk.
LEMMA InstructionWalked ==
    ASSUME NEW w, NEW p \in Payload, NEW k \in DOMAIN p, NEW l, l = k - 1, NEW merged,
           WalkedTo(w, p, l, merged), NEW x, x = Walk(w, p[k])
    PROVE  WalkedTo(x, p, k, merged)
<1>2. CASE w.editor.failed
  <2>1. x = w
    BY <1>2 DEF Walk
  <2>2. WalkedTo(w, p, k, merged)
    BY <1>2 DEF WalkedTo
  <2>3. QED BY <2>1, <2>2
<1>3. CASE ~w.editor.failed
  <2>1. p[k].op \in {"leaf", "ref", "list", "param", "fragment"} /\ l = k - 1
    BY InstructionTyped
  <2>2. CASE p[k].op = "leaf"
    <3>1. x = WalkLeaf(w, p[k])
      BY <1>3, <2>2 DEF Walk
    <3>2. QED BY <1>3, <2>1, <2>2, <3>1, LeafWalkedTo
  <2>3. CASE p[k].op = "ref"
    <3>1. x = WalkRef(w, p[k])
      BY <1>3, <2>3 DEF Walk
    <3>2. QED BY <1>3, <2>1, <2>3, <3>1, RefWalked
  <2>4. CASE p[k].op = "list"
    <3>1. x = WalkList(w, p[k])
      BY <1>3, <2>4 DEF Walk
    <3>2. QED BY <1>3, <2>1, <2>4, <3>1, ListWalked
  <2>5. CASE p[k].op = "param"
    <3>1. x = WalkParam(w, p[k])
      BY <1>3, <2>5 DEF Walk
    <3>2. QED BY <1>3, <2>1, <2>5, <3>1, ParamWalked
  <2>6. CASE p[k].op = "fragment"
    <3>1. x = WalkFragment(w, p[k])
      BY <1>3, <2>6 DEF Walk
    <3>2. QED BY <1>3, <2>1, <2>6, <3>1, FragmentWalked
  <2>7. QED BY <2>1, <2>2, <2>3, <2>4, <2>5, <2>6
<1>4. QED BY <1>2, <1>3

\* A reference edit that is to be done, and one that has been: edits can come
\* twice.
ToDo(V, r) ==
    /\ Referred(V, r.node, r.path) = OneOf(r.prev)
    /\ r.write => Targets(V[r.node].at[r.path]) = OneOf(r.prev)

Settled(V, r) ==
    /\ Referred(V, r.node, r.path) = OneOf(r.next)
    /\ Targets(V[r.node].at[r.path]) = OneOf(r.next)

Undone(V, R) ==
    /\ \A n \in Node, q \in Path :
          (\A r \in R : ~IsAt(r, n, q)) => Referred(V, n, q) = Targets(V[n].at[q])
    /\ \A r \in R : ToDo(V, r) \/ Settled(V, r)
    /\ \A r, s \in R : IsAt(r, s.node, s.path) => r = s

\* Both nodes of an edit have been come to.
EndsThere(P, R) == \A r \in R : r.node \in P \cup Root \cup Unnamed /\ r.next \in P \cup {Null}

\* The nodes that nothing refers to are the orphans, but for those that will
\* be referred to.
OrphansFound(V, P, R, orphans) ==
    /\ \A n \in orphans : n \in P /\ n \in Entity /\ V[n].inbound = {}
    /\ \A n \in P : V[n].inbound = {} => n \in orphans \/ Apart(V, n) \/ \E r \in R : r.next = n

\* With the reference edits R to do.
EditState(e, orphans, R, p) ==
    LET V == View(e.nodes)
        P == Present(e.nodes)
    IN  /\ Sound(e)
        /\ R \subseteq EditRecord /\ Undone(V, R) /\ Origins(R, p, Len(p))
        /\ ListsDone(V, p, Len(p)) /\ ListsToDo(V, p, Len(p)) /\ RefsDone(V, R, p, Len(p))
        /\ EndsThere(P, R) /\ OrphansFound(V, P, R, orphans)

\* The value that an edit writes.
EditValue(e, r) == IF r.next = Null THEN Null ELSE PointerTo(e, r.next)

\* d is e with the data that r writes.
EditWrote(e, d, r) ==
    /\ Sound(d) /\ d.merged = e.merged /\ SameReferred(e, d)
    /\ Present(d.nodes) = Present(e.nodes) \cup (IF r.write THEN {r.node} ELSE {})
    /\ \A n \in Node : /\ View(d.nodes)[n].inbound = View(e.nodes)[n].inbound
                       /\ View(d.nodes)[n].leaf = View(e.nodes)[n].leaf
    /\ \A n \in Node, q \in Path :
          View(d.nodes)[n].at[q]
            = IF r.write /\ IsAt(r, n, q) THEN EditValue(e, r) ELSE View(e.nodes)[n].at[q]

\* What an edit writes: null, or a pointer to the node it is about.
LEMMA EditValueOf ==
    ASSUME NEW e, Sound(e), NEW r \in EditRecord, r.next \in Present(e.nodes) \cup {Null}
    PROVE  /\ EditValue(e, r) \in Pointer \cup {Null} /\ EditValue(e, r) \in Value
           /\ EditValue(e, r) # Missing /\ EditValue(e, r) # Here
           /\ Targets(EditValue(e, r)) = OneOf(r.next)
           /\ EditValue(e, r) \in Pointer /\ EditValue(e, r).fresh => View(e.nodes)[EditValue(e, r).to].fresh
<1>1. r.next \in Entity \cup {Null} /\ Null \notin Node
  BY NodeAssumption DEF EditRecord
<1>2. CASE r.next = Null
  <2>1. EditValue(e, r) = Null /\ Null \notin Pointer
    BY <1>2, ValueAssumption DEF EditValue
  <2>2. QED BY <1>2, <2>1, ValueAssumption DEF Targets, OneOf, Value
<1>3. CASE r.next # Null
  <2>1. /\ r.next \in Entity /\ r.next \in Node /\ e.nodes[r.next] # Absent
        /\ e.nodes[r.next] \in NodeSnapshot
    BY <1>1, <1>3 DEF Present, Sound, Editor
  <2> DEFINE v == [to |-> r.next, fresh |-> e.nodes[r.next].fresh]
  <2>2. EditValue(e, r) = v
    BY <1>3, <2>1 DEF EditValue, PointerTo
  <2>3. v \in Pointer /\ v.to = r.next /\ v.fresh = View(e.nodes)[r.next].fresh
    BY <2>1 DEF Pointer, NodeSnapshot, View
  <2> HIDE DEF v
  <2>4. QED BY <1>3, <2>2, <2>3, ValueAssumption DEF Targets, OneOf, Value
<1>4. QED BY <1>2, <1>3

\* Where an edit comes from.
FromPayload(r, p) ==
    /\ r.write => \E k \in DOMAIN p : p[k].op = "ref" /\ p[k].node = r.node /\ p[k].path = r.path
    /\ ~r.write => /\ r.next = Null
                   /\ \E k \in DOMAIN p : /\ p[k].op = "list" /\ p[k].node = r.node
                                          /\ IsStrictPrefix(p[k].path, r.path)
                                          /\ IndexIn(r.path, p[k].path) > p[k].length

\* Where an edit of the payload is from, and what it is about.
LEMMA EditOrigin ==
    ASSUME NEW p \in Payload, NEW R \in SUBSET EditRecord, Origins(R, p, Len(p)), NEW r \in R
    PROVE  /\ r.node \in Node /\ r.path \in Path /\ r.prev \in Entity \cup {Null}
           /\ r.next \in Entity \cup {Null}
           /\ [id |-> r.node, path |-> r.path] \in RefLocations
           /\ r.prev \in Entity => r.prev # r.next
           /\ FromPayload(r, p)
<1>1. DOMAIN p = 1..Len(p)
  BY PayloadAssumption
<1>2. r.node \in Node /\ r.path \in Path /\ r.prev \in Entity \cup {Null} /\ r.next \in Entity \cup {Null}
  BY DEF EditRecord
<1>3. PICK k \in 1..Len(p) :
        /\ p[k].node = r.node
        /\ \/ r.write /\ p[k].op = "ref" /\ p[k].path = r.path /\ p[k].target = r.next
              /\ r.prev # r.next
           \/ ~r.write /\ r.next = Null /\ p[k].op = "list" /\ IsStrictPrefix(p[k].path, r.path)
              /\ [id |-> r.node, path |-> r.path] \in RefLocations
              /\ IndexIn(r.path, p[k].path) > p[k].length
  BY DEF Origins
<1>4. Null \notin Entity
  BY NodeAssumption DEF Node
<1>5. CASE r.write
  <2>1. k \in DOMAIN p /\ p[k].op = "ref" /\ p[k].node = r.node /\ p[k].path = r.path /\ r.prev # r.next
    BY <1>1, <1>3, <1>5
  <2>2. [id |-> r.node, path |-> r.path] \in RefLocations
    BY <2>1, LocationTyped
  <2>3. FromPayload(r, p)
    BY <1>5, <2>1 DEF FromPayload
  <2>4. QED BY <1>2, <2>1, <2>2, <2>3
<1>6. CASE ~r.write
  <2>1. FromPayload(r, p)
    BY <1>1, <1>3, <1>6 DEF FromPayload
  <2>2. QED BY <1>2, <1>3, <1>4, <1>6, <2>1
<1>7. QED BY <1>5, <1>6

\* The write of an edit changes the data of one location.
LEMMA EditWrites ==
    ASSUME NEW p \in Payload, NEW e, NEW orphans, NEW R, EditState(e, orphans, R, p), NEW r \in R,
           NEW d, d = IF ~r.write THEN e ELSE SetValue(e, r.node, r.path, EditValue(e, r))
    PROVE  d \in Editor /\ (~d.failed => EditWrote(e, d, r))
<1> DEFINE n == r.node
           q == r.path
           v == EditValue(e, r)
           V == View(e.nodes)
           at == [V[n].at EXCEPT ![q] = v]
           s == [V[n] EXCEPT !.at = at, !.fresh = TRUE]
           W == View(d.nodes)
<1>1. /\ Sound(e) /\ R \in SUBSET EditRecord /\ Origins(R, p, Len(p)) /\ ListsDone(V, p, Len(p))
      /\ EndsThere(Present(e.nodes), R)
  BY DEF EditState
<1>2. CASE ~r.write
  BY <1>1, <1>2 DEF EditWrote, SameReferred, Sound
<1>3. CASE r.write
  <2>1. /\ n \in Node /\ q \in Path /\ [id |-> n, path |-> q] \in RefLocations
        /\ \E k \in DOMAIN p : p[k].op = "ref" /\ p[k].node = n /\ p[k].path = q
    BY <1>1, <1>3, EditOrigin DEF FromPayload
  <2>2. /\ v \in Pointer \cup {Null} /\ v \in Value
        /\ v \in Pointer /\ v.fresh => V[v.to].fresh
    <3>1. r \in EditRecord /\ r.next \in Present(e.nodes) \cup {Null}
      BY <1>1 DEF EndsThere
    <3>2. QED BY <1>1, <3>1, EditValueOf
  <2>3. /\ e \in Editor /\ e.nodes \in [Node -> NodeSnapshot \cup {Absent}]
        /\ V \in [Node -> NodeSnapshot] /\ V[n].at \in [Path -> Value]
        /\ NodeData(e, n) = V[n].at
    BY <1>1, <2>1, ViewTyped, DataOf DEF Sound, Editor
  <2>4. Kinds(V[n].at, n) /\ FreshAreFresh(V)
    BY <1>1, <2>1, <2>3, KindsOf DEF Sound
  <2> HIDE DEF v
  <2>5. d = Edit(e, n, at)
    <3>1. Rooted(V[n].at, q)
      <4>1. PICK k \in DOMAIN p : p[k].op = "ref" /\ p[k].node = n /\ p[k].path = q
        BY <2>1
      <4>2. DOMAIN p = 1..Len(p) /\ Len(p) \in Nat
        BY PayloadAssumption
      <4>3. \A j \in 1..(k - 1) : j \in 1..Len(p)
        BY <4>2
      <4> HIDE DEF V
      <4>4. Rooted(V[p[k].node].at, p[k].path)
        BY <1>1, <4>1, <4>3, WayWalked
      <4>5. QED BY <4>1, <4>4
    <3>2. DeepSet(V[n].at, Original(n), q, v) = at
      <4> HIDE DEF V, n, q
      <4>1. QED BY <2>1, <2>3, <2>4, <3>1, DeepSetReference
    <3>3. QED BY <1>3, <2>3, <3>2 DEF SetValue, v
  <2>6. /\ at \in [Path -> Value] /\ Kinds(at, n)
        /\ \A g \in Path : at[g] = IF g = q THEN v ELSE V[n].at[g]
    <3>1. \A g \in Path : at[g] = IF g = q THEN v ELSE V[n].at[g]
      BY <2>1, <2>3
    <3>2. at \in [Path -> Value]
      BY <2>1, <2>2, <2>3
    <3> HIDE DEF at, V
    <3>3. Kinds(at, n)
      BY <2>1, <2>2, <2>4, <3>1 DEF Kinds
    <3>4. QED BY <3>1, <3>2, <3>3
  <2> HIDE DEF at
  <2>7. d \in Editor
    BY <2>1, <2>3, <2>5, <2>6, StaysEditor
  <2>8. SUFFICES ASSUME ~d.failed PROVE EditWrote(e, d, r)
    BY <2>7
  <2>9. Rewrote(e, d, n, s)
    <3>0. /\ n \in Node /\ ~Edit(e, n, at).failed /\ V \in [Node -> NodeSnapshot] /\ at \in [Path -> Value]
          /\ e \in Editor /\ d = Edit(e, n, at)
      BY <2>1, <2>3, <2>5, <2>6, <2>8
    <3>1. Moved(e, d, WithData(V, n, at), {n}, {n})
      <4> HIDE DEF n
      <4>1. QED BY <3>0, EditMoves
    <3>2. /\ s \in NodeSnapshot /\ WithData(V, n, at) = [V EXCEPT ![n] = s]
          /\ s.at = at /\ s.fresh /\ s.inbound = V[n].inbound /\ s.outbound = V[n].outbound
      <4> HIDE DEF V, n
      <4>1. QED BY <3>0 DEF WithData, NodeSnapshot, Value
    <3> HIDE DEF s
    <3>3. \A g \in Path : s.at[g] \in Pointer /\ s.at[g].fresh => V[s.at[g].to].fresh
      <4> HIDE DEF V, n, q
      <4>1. \A g \in Path : V[n].at[g] \in Pointer /\ V[n].at[g].fresh => V[V[n].at[g].to].fresh
        BY <2>1, <2>4 DEF FreshAreFresh
      <4>2. QED BY <2>2, <2>6, <3>2, <4>1
    <3> HIDE DEF V, n
    <3>4. QED BY <2>1, <2>6, <3>1, <3>2, <3>3 DEF Rewrote, V
  <2>10. Sound(d) /\ SameReferred(e, d)
    BY <1>1, <2>9, DataRewritten
  <2>11. /\ W = [V EXCEPT ![n] = s] /\ Present(d.nodes) = Present(e.nodes) \cup {n} /\ d.merged = e.merged
         /\ s.inbound = V[n].inbound
    BY <2>9 DEF Rewrote, Moved
  <2>12. s.at = at /\ s.leaf = V[n].leaf
    BY <2>3 DEF NodeSnapshot
  <2> HIDE DEF W, V, s
  <2>13. \A m \in Node : W[m].inbound = V[m].inbound /\ W[m].leaf = V[m].leaf
    BY <2>1, <2>3, <2>11, <2>12
  <2>14. \A m \in Node, g \in Path : W[m].at[g] = IF m = n /\ g = q THEN v ELSE V[m].at[g]
    BY <2>1, <2>3, <2>6, <2>11, <2>12
  <2>15. \A m \in Node, g \in Path : W[m].at[g] = IF r.write /\ IsAt(r, m, g) THEN v ELSE V[m].at[g]
    BY <1>3, <2>14 DEF IsAt
  <2>16. QED BY <1>3, <2>10, <2>11, <2>13, <2>15 DEF EditWrote, V, W, v
<1>4. QED BY <1>2, <1>3

\* What is left of orphans when n gets references and what is added when m
\* loses one.
LEMMA UnlinkEffect ==
    ASSUME NEW r \in EditRecord, NEW f \in Editor, NEW orphans,
           NEW y, y = Unlink([editor |-> f, orphans |-> orphans], r)
    PROVE  /\ y = [editor |-> y.editor, orphans |-> y.orphans] /\ y.editor \in Editor
           /\ f.failed => y.editor.failed
           /\ ~y.editor.failed =>
                /\ r.prev = Null => y.editor = f
                /\ r.prev # Null => Dropped(f, y.editor, r.node, r.path, r.prev)
                /\ y.orphans = orphans \cup {n \in OneOf(r.prev) : View(y.editor.nodes)[n].inbound = {}}
<1> DEFINE out == [id |-> r.prev, path |-> r.path]
           in == [id |-> r.node, path |-> r.path]
           a == RemoveReference(f, "outbound", r.node, out)
           b == RemoveReference(a, "inbound", r.prev, in)
<1>1. r.node \in Node /\ r.path \in Path /\ r.prev \in Entity \cup {Null}
  BY DEF EditRecord
<1>2. CASE f.failed \/ r.prev = Null
  <2>1. y = [editor |-> f, orphans |-> orphans]
    BY <1>2 DEF Unlink
  <2>2. y.editor = f /\ y.orphans = orphans
    BY <2>1
  <2>3. r.prev = Null => OneOf(r.prev) = {}
    BY DEF OneOf
  <2>4. QED BY <1>2, <2>1, <2>2, <2>3
<1>3. CASE ~f.failed /\ r.prev # Null
  <2>1. /\ r.prev \in Node /\ out \in Reference /\ in \in Reference
    BY <1>1, <1>3 DEF Node, Reference
  <2>2. y = [editor |-> b, orphans |-> IF ~b.failed /\ b.nodes[r.prev].inbound = {}
                                       THEN orphans \cup {r.prev} ELSE orphans]
    BY <1>3 DEF Unlink
  <2>3. b = y.editor /\ y.orphans = IF ~b.failed /\ b.nodes[r.prev].inbound = {}
                                    THEN orphans \cup {r.prev} ELSE orphans
    BY <2>2
  <2>4. b \in Editor
    <3> HIDE DEF out, in
    <3>1. a \in Editor
      BY <1>1, <2>1, StaysEditor
    <3> HIDE DEF a
    <3>2. QED BY <2>1, <3>1, StaysEditor
  <2>5. ASSUME ~b.failed PROVE Dropped(f, b, r.node, r.path, r.prev)
    BY <1>1, <2>1, <2>5, UnlinkDrops
  <2>6. ASSUME ~b.failed
        PROVE  y.orphans = orphans \cup {n \in OneOf(r.prev) : View(b.nodes)[n].inbound = {}}
    <3> HIDE DEF b
    <3>1. r.prev \in Present(b.nodes)
      BY <2>5, <2>6 DEF Dropped, Relinked
    <3>2. View(b.nodes)[r.prev] = b.nodes[r.prev]
      BY <3>1 DEF Present, View
    <3>3. OneOf(r.prev) = {r.prev}
      BY <1>3 DEF OneOf
    <3>4. QED BY <2>3, <2>6, <3>2, <3>3
  <2> HIDE DEF b
  <2>7. y = [editor |-> y.editor, orphans |-> y.orphans]
    BY <2>2, <2>3
  <2>8. QED BY <1>3, <2>3, <2>4, <2>5, <2>6, <2>7
<1>4. QED BY <1>2, <1>3

Linked(f, d, r) ==
    /\ r.next = Null => d = f
    /\ r.next # Null => Added(f, d, r.node, r.path, r.next)

\* The second half of an edit: the new reference is linked, and its target is no orphan.
LEMMA LinkEffect ==
    ASSUME NEW r \in EditRecord, NEW f \in Editor, NEW orphans,
           NEW m, m = [editor |-> f, orphans |-> orphans], NEW y, y = Link(m, r)
    PROVE  /\ y = [editor |-> y.editor, orphans |-> y.orphans] /\ y.editor \in Editor
           /\ f.failed => y.editor.failed
           /\ ~y.editor.failed => Linked(f, y.editor, r) /\ y.orphans = orphans \ OneOf(r.next)
<1> DEFINE out == [id |-> r.next, path |-> r.path]
           in == [id |-> r.node, path |-> r.path]
           a == AddReference(f, "outbound", r.node, out)
           b == AddReference(a, "inbound", r.next, in)
<1>1. r.node \in Node /\ r.path \in Path /\ r.next \in Entity \cup {Null}
  BY DEF EditRecord
<1>2. CASE f.failed \/ r.next = Null
  <2>1. y = [editor |-> f, orphans |-> orphans]
    BY <1>2 DEF Link
  <2>2. y.editor = f /\ y.orphans = orphans
    BY <2>1
  <2>3. r.next = Null => OneOf(r.next) = {}
    BY DEF OneOf
  <2>4. QED BY <1>2, <2>1, <2>2, <2>3 DEF Linked
<1>3. CASE ~f.failed /\ r.next # Null
  <2>1. /\ r.next \in Node /\ OneOf(r.next) = {r.next}
        /\ out \in Reference /\ in \in Reference
    BY <1>1, <1>3 DEF Node, OneOf, Reference
  <2>2. y = [editor |-> b, orphans |-> orphans \ {r.next}]
    BY <1>3 DEF Link
  <2>3. b = y.editor /\ y.orphans = orphans \ {r.next}
    BY <2>2
  <2>4. b \in Editor
    <3> HIDE DEF out, in
    <3>1. a \in Editor
      BY <1>1, <2>1, StaysEditor
    <3> HIDE DEF a
    <3>2. QED BY <2>1, <3>1, StaysEditor
  <2>5. ASSUME ~b.failed PROVE Added(f, b, r.node, r.path, r.next)
    BY <1>1, <2>1, <2>5, LinkAdds
  <2> HIDE DEF b
  <2>6. QED BY <1>3, <2>1, <2>2, <2>3, <2>4, <2>5 DEF Linked
<1>4. QED BY <1>2, <1>3

\* d is e with the reference edit r done.
RoundTo(e, d, r) ==
    LET V == View(e.nodes)
        W == View(d.nodes)
    IN  /\ Sound(d) /\ d.merged = e.merged
        /\ Present(d.nodes) = Present(e.nodes) \cup {r.node} \cup OneOf(r.prev) \cup OneOf(r.next)
        /\ \A n \in Node, q \in Path :
              /\ W[n].at[q] = IF r.write /\ IsAt(r, n, q) THEN EditValue(e, r) ELSE V[n].at[q]
              /\ Referred(W, n, q)
                   = IF IsAt(r, n, q) THEN (Referred(V, n, q) \ OneOf(r.prev)) \cup OneOf(r.next)
                     ELSE Referred(V, n, q)
        /\ \A n \in Node :
              /\ W[n].leaf = V[n].leaf
              /\ n \notin OneOf(r.prev) \cup OneOf(r.next) => W[n].inbound = V[n].inbound
              /\ n \in OneOf(r.prev) => W[n].inbound \subseteq V[n].inbound
              /\ n \in OneOf(r.next) => W[n].inbound # {}

\* The orphans after it.
LeftAfter(orphans, d, r) ==
    (orphans \cup {n \in OneOf(r.prev) : View(d.nodes)[n].inbound = {}}) \ OneOf(r.next)

\* The node of the edit gets a new version, and is otherwise what it was.
LEMMA NodeEnsured ==
    ASSUME NEW e \in Editor, e.failed \/ Sound(e), NEW n \in Node, NEW d, d = EnsureNewSnapshot(e, n)
    PROVE  /\ d \in Editor
           /\ ~d.failed => /\ ~e.failed /\ Sound(d) /\ d.merged = e.merged /\ View(d.nodes) = View(e.nodes)
                           /\ Present(d.nodes) = Present(e.nodes) \cup {n}
<1>1. d \in Editor
  BY StaysEditor
<1>2. ASSUME ~d.failed
      PROVE  /\ ~e.failed /\ Sound(d) /\ d.merged = e.merged /\ View(d.nodes) = View(e.nodes)
             /\ Present(d.nodes) = Present(e.nodes) \cup {n}
  <2>1. ~e.failed /\ Moved(e, d, View(e.nodes), {n}, {})
    BY <1>2, Ensured
  <2>2. /\ View(d.nodes) = View(e.nodes) /\ Present(d.nodes) = Present(e.nodes) \cup {n}
        /\ d.merged = e.merged /\ d.edited = e.edited
    BY <2>1 DEF Moved
  <2>3. Sound(e) /\ EndsMatch(View(e.nodes)) /\ ReferencesLed(View(e.nodes))
    BY <2>1 DEF Sound
  <2>4. Relinked(e, d, {n})
    BY <2>1 DEF Moved, Relinked
  <2>5. Sound(d)
    BY <2>2, <2>3, <2>4, RelinkedSound
  <2>6. QED BY <2>1, <2>2, <2>5
<1>3. QED BY <1>1, <1>2

\* One edit: the write, the old reference unlinked, the new one linked.
LEMMA EditRound ==
    ASSUME NEW p \in Payload, NEW e, NEW orphans, NEW R, EditState(e, orphans, R, p), NEW r \in R,
           NEW y, y = MergeReferenceEdit([editor |-> e, orphans |-> orphans], r)
    PROVE  /\ y = [editor |-> y.editor, orphans |-> y.orphans] /\ y.editor \in Editor
           /\ ~y.editor.failed => /\ RoundTo(e, y.editor, r)
                                  /\ y.orphans = LeftAfter(orphans, y.editor, r)
<1> DEFINE e1 == IF ~r.write THEN e ELSE SetValue(e, r.node, r.path, EditValue(e, r))
           e2 == EnsureNewSnapshot(e1, r.node)
           x == Unlink([editor |-> e2, orphans |-> orphans], r)
           e3 == x.editor
           e4 == y.editor
<1>1. /\ r \in EditRecord /\ r.node \in Node /\ r.path \in Path /\ r.prev \in Entity \cup {Null}
      /\ r.next \in Entity \cup {Null} /\ [id |-> r.node, path |-> r.path] \in RefLocations
      /\ r.prev \in Entity => r.prev # r.next
  BY EditOrigin DEF EditState
<1>2. Sound(e) /\ ~e.failed
  BY DEF EditState, Sound
<1>3. e1 \in Editor /\ (~e1.failed => EditWrote(e, e1, r))
  BY EditWrites
<1>4. y = Link(x, r)
  BY <1>2 DEF MergeReferenceEdit, EditValue
<1> HIDE DEF e1
<1>5. /\ e2 \in Editor
      /\ ~e2.failed => /\ ~e1.failed /\ Sound(e2) /\ e2.merged = e1.merged /\ View(e2.nodes) = View(e1.nodes)
                       /\ Present(e2.nodes) = Present(e1.nodes) \cup {r.node}
  <2>1. e1.failed \/ Sound(e1)
    BY <1>3 DEF EditWrote
  <2>2. QED BY <1>1, <1>3, <2>1, NodeEnsured
<1> HIDE DEF e2
<1>6. /\ x = [editor |-> e3, orphans |-> x.orphans] /\ e3 \in Editor
      /\ e2.failed => e3.failed
      /\ ~e3.failed =>
           /\ r.prev = Null => e3 = e2
           /\ r.prev # Null => Dropped(e2, e3, r.node, r.path, r.prev)
           /\ x.orphans = orphans \cup {n \in OneOf(r.prev) : View(e3.nodes)[n].inbound = {}}
  BY <1>1, <1>5, UnlinkEffect
<1> HIDE DEF x, e3
<1>0. /\ y = [editor |-> e4, orphans |-> y.orphans] /\ e4 \in Editor
      /\ e3.failed => e4.failed
      /\ ~e4.failed =>
           /\ r.next = Null => e4 = e3
           /\ r.next # Null => Added(e3, e4, r.node, r.path, r.next)
           /\ y.orphans = x.orphans \ OneOf(r.next)
  <2>2. PICK z : z = x.orphans
    OBVIOUS
  <2>3. r \in EditRecord /\ e3 \in Editor /\ x = [editor |-> e3, orphans |-> z] /\ y = Link(x, r)
    BY <1>1, <1>4, <1>6, <2>2
  <2> HIDE DEF e4
  <2>4. /\ y = [editor |-> y.editor, orphans |-> y.orphans] /\ y.editor \in Editor
        /\ e3.failed => y.editor.failed
        /\ ~y.editor.failed => Linked(e3, y.editor, r) /\ y.orphans = z \ OneOf(r.next)
    <3>1. y = [editor |-> y.editor, orphans |-> y.orphans]
      BY <2>3, LinkEffect
    <3>2. y.editor \in Editor
      BY <2>3, LinkEffect
    <3>3. e3.failed => y.editor.failed
      BY <2>3, LinkEffect
    <3>4. ~y.editor.failed => Linked(e3, y.editor, r)
      BY <2>3, LinkEffect
    <3>5. ~y.editor.failed => y.orphans = z \ OneOf(r.next)
      BY <2>3, LinkEffect
    <3>6. QED BY <3>1, <3>2, <3>3, <3>4, <3>5
  <2>5. QED BY <2>2, <2>4 DEF e4, Linked
<1> SUFFICES ASSUME ~e4.failed PROVE RoundTo(e, e4, r) /\ y.orphans = LeftAfter(orphans, e4, r)
  BY <1>0
<1>7. /\ ~e3.failed
      /\ r.next = Null => e4 = e3
      /\ r.next # Null => Added(e3, e4, r.node, r.path, r.next)
      /\ y.orphans = x.orphans \ OneOf(r.next)
  BY <1>0
<1> DEFINE V0 == View(e.nodes)
           V1 == View(e2.nodes)
           V3 == View(e3.nodes)
           V4 == View(e4.nodes)
           n == r.node
           q == r.path
<1>8. /\ ~e2.failed /\ ~e1.failed /\ Sound(e2) /\ e2.merged = e.merged
      /\ Present(e2.nodes) = Present(e.nodes) \cup {n}
      /\ \A a \in Node : V1[a].inbound = V0[a].inbound /\ V1[a].leaf = V0[a].leaf
      /\ \A a \in Node, g \in Path :
            V1[a].at[g] = IF r.write /\ IsAt(r, a, g) THEN EditValue(e, r) ELSE V0[a].at[g]
      /\ \A a \in Node, g \in Path : Referred(V1, a, g) = Referred(V0, a, g)
  BY <1>3, <1>5, <1>6, <1>7 DEF EditWrote, SameReferred
<1>9. /\ Sound(e3) /\ e3.merged = e2.merged
      /\ Present(e3.nodes) = Present(e2.nodes) \cup {n} \cup OneOf(r.prev)
      /\ \A a \in Node : V3[a].leaf = V1[a].leaf
      /\ \A a \in Node, g \in Path :
            /\ V3[a].at[g] = V1[a].at[g]
            /\ Referred(V3, a, g) = Referred(V1, a, g) \ (IF IsAt(r, a, g) THEN OneOf(r.prev) ELSE {})
      /\ \A a \in Node \ OneOf(r.prev) : V3[a].inbound = V1[a].inbound
      /\ \A a \in OneOf(r.prev) : V3[a].inbound \subseteq V1[a].inbound
  <2>1. CASE r.prev = Null
    <3>1. OneOf(r.prev) = {} /\ e3 = e2
      BY <1>6, <1>7, <2>1 DEF OneOf
    <3>2. QED BY <1>8, <3>1
  <2>2. CASE r.prev # Null
    <3>1. r.prev \in Entity /\ OneOf(r.prev) = {r.prev} /\ Dropped(e2, e3, n, q, r.prev)
      BY <1>1, <1>6, <1>7, <2>2 DEF OneOf
    <3> HIDE DEF n, q, V1, V3
    <3>2. /\ Sound(e3)
          /\ \A a \in Node, g \in Path :
                Referred(V3, a, g) = Referred(V1, a, g) \ (IF a = n /\ g = q THEN {r.prev} ELSE {})
          /\ \A a \in Node \ {r.prev} : V3[a].inbound = V1[a].inbound
          /\ V3[r.prev].inbound \subseteq V1[r.prev].inbound
      BY <1>1, <1>8, <3>1, DroppedSound DEF n, q, V1, V3
    <3>3. /\ e3.merged = e2.merged /\ Present(e3.nodes) = Present(e2.nodes) \cup {n, r.prev}
          /\ \A a \in Node : V3[a].at = V1[a].at /\ V3[a].leaf = V1[a].leaf
      BY <3>1 DEF Dropped, Relinked, V1, V3
    <3>4. \A a, g : IsAt(r, a, g) <=> a = n /\ g = q
      BY DEF IsAt, n, q
    <3>5. QED BY <3>1, <3>2, <3>3, <3>4
  <2>3. QED BY <2>1, <2>2
<1>10. /\ Sound(e4) /\ e4.merged = e3.merged
       /\ Present(e4.nodes) = Present(e3.nodes) \cup {n} \cup OneOf(r.next)
       /\ \A a \in Node : V4[a].leaf = V3[a].leaf
       /\ \A a \in Node, g \in Path :
             /\ V4[a].at[g] = V3[a].at[g]
             /\ Referred(V4, a, g) = Referred(V3, a, g) \cup (IF IsAt(r, a, g) THEN OneOf(r.next) ELSE {})
       /\ \A a \in Node \ OneOf(r.next) : V4[a].inbound = V3[a].inbound
       /\ \A a \in OneOf(r.next) : V4[a].inbound # {}
  <2>1. CASE r.next = Null
    <3>1. OneOf(r.next) = {} /\ e4 = e3
      BY <1>7, <2>1 DEF OneOf
    <3>2. n \in Present(e3.nodes)
      BY <1>9
    <3>3. QED BY <1>9, <3>1, <3>2
  <2>2. CASE r.next # Null
    <3>1. r.next \in Entity /\ OneOf(r.next) = {r.next} /\ Added(e3, e4, n, q, r.next)
      BY <1>1, <1>7, <2>2 DEF OneOf
    <3> HIDE DEF n, q, V3, V4, e4
    <3>2. /\ Sound(e4)
          /\ \A a \in Node, g \in Path :
                Referred(V4, a, g) = Referred(V3, a, g) \cup (IF a = n /\ g = q THEN {r.next} ELSE {})
          /\ \A a \in Node \ {r.next} : V4[a].inbound = V3[a].inbound
          /\ V4[r.next].inbound # {}
      <4>1. n \in Node /\ q \in Path /\ RefAt(n, q)
        BY <1>1 DEF n, q, RefAt
      <4>2. Sound(e3) /\ r.next \in Entity /\ Added(e3, e4, n, q, r.next)
        BY <1>9, <3>1
      <4>5. [id |-> n, path |-> q] # Self(r.next)
        <5>1. q = <<>> => n \in Param
          BY <1>1, LocationKinds DEF n, q
        <5>2. n \in Param => n \notin Entity
          BY NodeAssumption
        <5>3. QED BY <4>2, <5>1, <5>2 DEF Self
      <4>3. Sound(e4) /\ NowReferred(e3, e4, n, q, r.next)
        BY <4>1, <4>2, <4>5, AddedSound
      <4>4. QED BY <4>3 DEF V4, V3, NowReferred
    <3>3. /\ e4.merged = e3.merged /\ Present(e4.nodes) = Present(e3.nodes) \cup {n, r.next}
          /\ \A a \in Node : V4[a].at = V3[a].at /\ V4[a].leaf = V3[a].leaf
      BY <3>1 DEF Added, Relinked, V4, V3
    <3>4. \A a, g : IsAt(r, a, g) <=> a = n /\ g = q
      BY DEF IsAt, n, q
    <3>5. QED BY <3>1, <3>2, <3>3, <3>4
  <2>3. QED BY <2>1, <2>2
<1>11. OneOf(r.prev) \cap OneOf(r.next) = {} /\ OneOf(r.prev) \subseteq Node /\ OneOf(r.next) \subseteq Node
  BY <1>1 DEF OneOf, Node
<1> HIDE DEF V0, V1, V3, V4, e4, n, q
<1>12. /\ \A a \in Node, g \in Path :
              /\ V4[a].at[g] = IF r.write /\ IsAt(r, a, g) THEN EditValue(e, r) ELSE V0[a].at[g]
              /\ Referred(V4, a, g)
                   = IF IsAt(r, a, g) THEN (Referred(V0, a, g) \ OneOf(r.prev)) \cup OneOf(r.next)
                     ELSE Referred(V0, a, g)
  <2>1. SUFFICES ASSUME NEW a \in Node, NEW g \in Path
        PROVE  /\ V4[a].at[g] = IF r.write /\ IsAt(r, a, g) THEN EditValue(e, r) ELSE V0[a].at[g]
               /\ Referred(V4, a, g)
                    = IF IsAt(r, a, g) THEN (Referred(V0, a, g) \ OneOf(r.prev)) \cup OneOf(r.next)
                      ELSE Referred(V0, a, g)
    OBVIOUS
  <2>2. V4[a].at[g] = IF r.write /\ IsAt(r, a, g) THEN EditValue(e, r) ELSE V0[a].at[g]
    BY <1>8, <1>9, <1>10
  <2>3. /\ Referred(V4, a, g) = Referred(V3, a, g) \cup (IF IsAt(r, a, g) THEN OneOf(r.next) ELSE {})
        /\ Referred(V3, a, g) = Referred(V1, a, g) \ (IF IsAt(r, a, g) THEN OneOf(r.prev) ELSE {})
        /\ Referred(V1, a, g) = Referred(V0, a, g)
    BY <1>8, <1>9, <1>10
  <2>4. QED BY <2>2, <2>3
<1>13. \A a \in Node :
          /\ V4[a].leaf = V0[a].leaf
          /\ a \notin OneOf(r.prev) \cup OneOf(r.next) => V4[a].inbound = V0[a].inbound
          /\ a \in OneOf(r.prev) => V4[a].inbound \subseteq V0[a].inbound
          /\ a \in OneOf(r.next) => V4[a].inbound # {}
  BY <1>8, <1>9, <1>10, <1>11
<1>14. Present(e4.nodes) = Present(e.nodes) \cup {n} \cup OneOf(r.prev) \cup OneOf(r.next)
  BY <1>8, <1>9, <1>10
<1>15. RoundTo(e, e4, r)
  BY <1>8, <1>9, <1>10, <1>12, <1>13, <1>14 DEF RoundTo, V0, V4, n
<1>16. y.orphans = (orphans \cup {a \in OneOf(r.prev) : V4[a].inbound = {}}) \ OneOf(r.next)
  <2>1. \A a \in OneOf(r.prev) : V3[a].inbound = V4[a].inbound
    BY <1>10, <1>11
  <2>2. x.orphans = orphans \cup {a \in OneOf(r.prev) : V3[a].inbound = {}}
    BY <1>6, <1>7 DEF V3
  <2>3. QED BY <1>7, <2>1, <2>2
<1>17. QED BY <1>15, <1>16 DEF LeftAfter, V4

\* After a failure no edit succeeds.
LEMMA FailedEdit ==
    ASSUME NEW e \in Editor, e.failed, NEW orphans, NEW r \in EditRecord,
           NEW y, y = MergeReferenceEdit([editor |-> e, orphans |-> orphans], r)
    PROVE  y = [editor |-> y.editor, orphans |-> y.orphans] /\ y.editor \in Editor /\ y.editor.failed
<1> DEFINE e2 == EnsureNewSnapshot(e, r.node)
<1>1. r.node \in Node
  BY DEF EditRecord
<1>2. e2 \in Editor
  BY <1>1, StaysEditor
<1>3. e2.failed
  BY DEF EnsureNewSnapshot, Editor
<1>4. y = Link(Unlink([editor |-> e2, orphans |-> orphans], r), r)
  BY DEF MergeReferenceEdit
<1> HIDE DEF e2
<1>5. y = [editor |-> e2, orphans |-> orphans]
  BY <1>3, <1>4 DEF Link, Unlink
<1>6. QED BY <1>2, <1>3, <1>5

\* A list is whole if what is there is what it was.
LEMMA WholeAgain ==
    ASSUME NEW at, NEW new, NEW y \in Path, ListWhole(at, y), new[y] = at[y],
           \A q \in Path : IsStrictPrefix(y, q) => new[q] = at[q]
    PROVE  ListWhole(new, y)
<1>1. SUFFICES ASSUME NEW q \in Path, IsStrictPrefix(y, q), new[q] # Missing
      PROVE  /\ new[y] = Here
             /\ \A k \in 1..IndexIn(q, y) : Append(y, k) \in Path /\ new[Append(y, k)] # Missing
  BY DEF ListWhole
<1>2. /\ at[y] = Here
      /\ \A k \in 1..IndexIn(q, y) : Append(y, k) \in Path /\ at[Append(y, k)] # Missing
  BY <1>1 DEF ListWhole
<1>3. ASSUME NEW k \in 1..IndexIn(q, y) PROVE Append(y, k) \in Path /\ new[Append(y, k)] # Missing
  <2>1. k \in Nat
    OBVIOUS
  <2>2. IsStrictPrefix(y, Append(y, k))
    BY <2>1, ElementPath
  <2>3. QED BY <1>2, <1>3, <2>2
<1>4. QED BY <1>2, <1>3

\* A round settles its edit.
LEMMA RoundSettles ==
    ASSUME NEW p \in Payload, NEW e, NEW orphans, NEW R, EditState(e, orphans, R, p), NEW r \in R,
           NEW d, RoundTo(e, d, r)
    PROVE  Settled(View(d.nodes), r)
<1> DEFINE V == View(e.nodes)
           W == View(d.nodes)
<1>1. /\ Sound(e) /\ R \in SUBSET EditRecord /\ Origins(R, p, Len(p)) /\ ListsDone(V, p, Len(p))
      /\ EndsThere(Present(e.nodes), R) /\ Undone(V, R)
  BY DEF EditState
<1>2. /\ r \in EditRecord /\ r.node \in Node /\ r.path \in Path /\ r.prev \in Entity \cup {Null}
      /\ r.next \in Entity \cup {Null} /\ (r.prev \in Entity => r.prev # r.next)
      /\ FromPayload(r, p)
  BY <1>1, EditOrigin
<1>3. /\ W[r.node].at[r.path] = IF r.write THEN EditValue(e, r) ELSE V[r.node].at[r.path]
      /\ Referred(W, r.node, r.path) = (Referred(V, r.node, r.path) \ OneOf(r.prev)) \cup OneOf(r.next)
  BY <1>2 DEF RoundTo, IsAt
<1>4. OneOf(r.prev) \cap OneOf(r.next) = {}
  BY <1>2 DEF OneOf
<1>5. Referred(V, r.node, r.path) = OneOf(r.prev) \/ Referred(V, r.node, r.path) = OneOf(r.next)
  BY <1>1 DEF Undone, ToDo, Settled
<1>6. Referred(W, r.node, r.path) = OneOf(r.next)
  BY <1>3, <1>4, <1>5
<1>7. Targets(W[r.node].at[r.path]) = OneOf(r.next)
  <2>1. CASE r.write
    <3>1. Targets(EditValue(e, r)) = OneOf(r.next)
      BY <1>1, <1>2, EditValueOf DEF EndsThere
    <3>2. QED BY <1>3, <2>1, <3>1
  <2>2. CASE ~r.write
    <3>1. PICK k \in DOMAIN p : /\ p[k].op = "list" /\ p[k].node = r.node
                                /\ IsStrictPrefix(p[k].path, r.path)
                                /\ IndexIn(r.path, p[k].path) > p[k].length
      BY <1>2, <2>2 DEF FromPayload
    <3>2. k \in 1..Len(p)
      BY PayloadAssumption
    <3>3. p[k].length \in Nat /\ p[k].path \in Path /\ [id |-> p[k].node, path |-> p[k].path] \in ListLocations
      BY <3>1, InstructionTyped, LocationTyped
    <3>4. V[r.node].at[r.path] # Missing => IndexIn(r.path, p[k].path) <= p[k].length
      BY <1>1, <1>2, <3>1, <3>2 DEF ListsDone
    <3>5. V[r.node].at[r.path] = Missing
      <4>1. SUFFICES ASSUME V[r.node].at[r.path] # Missing PROVE FALSE
        OBVIOUS
      <4>2. IndexIn(r.path, p[k].path) \in Nat
        <5>1. /\ r.node \in Node /\ p[k].path \in Path
              /\ [id |-> r.node, path |-> r.path] \in RefLocations
              /\ [id |-> r.node, path |-> p[k].path] \in ListLocations
          <6>1. [id |-> r.node, path |-> r.path] \in RefLocations
            BY <1>1, EditOrigin
          <6>2. QED BY <1>2, <3>1, <3>3, <6>1
        <5>2. QED BY <1>2, <3>1, <5>1, LocationKinds
      <4>3. QED BY <3>1, <3>3, <3>4, <4>1, <4>2
    <3>6. Targets(V[r.node].at[r.path]) = {}
      BY <3>5, ValueAssumption DEF Targets
    <3>7. r.next = Null
      BY <1>2, <2>2 DEF FromPayload
    <3>8. QED BY <1>3, <2>2, <3>6, <3>7 DEF OneOf
  <2>3. QED BY <2>1, <2>2
<1>8. QED BY <1>6, <1>7 DEF Settled

\* What the lists of a payload are after a round.
LEMMA RoundLists ==
    ASSUME NEW p \in Payload, NEW e, NEW orphans, NEW R, EditState(e, orphans, R, p), NEW r \in R,
           NEW d, RoundTo(e, d, r)
    PROVE  ListsDone(View(d.nodes), p, Len(p)) /\ ListsToDo(View(d.nodes), p, Len(p))
<1> DEFINE V == View(e.nodes)
           W == View(d.nodes)
           n == r.node
           q == r.path
<1>1. /\ R \in SUBSET EditRecord /\ Origins(R, p, Len(p)) /\ ListsDone(V, p, Len(p))
      /\ ListsToDo(V, p, Len(p))
  BY DEF EditState
<1>2. n \in Node /\ q \in Path /\ [id |-> n, path |-> q] \in RefLocations /\ FromPayload(r, p)
  BY <1>1, EditOrigin
<1>3. DOMAIN p = 1..Len(p) /\ Len(p) \in Nat
  BY PayloadAssumption
<1>4. \A m \in Node, g \in Path : ~(r.write /\ m = n /\ g = q) => W[m].at[g] = V[m].at[g]
  BY DEF RoundTo, IsAt
<1>5. ASSUME NEW y \in ListLocations PROVE y.id \in Node /\ y.path \in Path /\ y = [id |-> y.id, path |-> y.path]
  BY LocationTyped DEF Reference
<1>6. ASSUME NEW g \in Path, [id |-> n, path |-> g] \in ListLocations, IsStrictPrefix(g, q), r.write
      PROVE  /\ \E j \in 1..Len(p) : p[j].op = "list" /\ p[j].node = n /\ p[j].path = g
             /\ \A j \in DOMAIN p : p[j].op = "list" /\ p[j].node = n /\ p[j].path = g
                   => IndexIn(q, g) <= p[j].length
  <2>1. PICK k \in DOMAIN p : p[k].op = "ref" /\ p[k].node = n /\ p[k].path = q
    BY <1>2, <1>6 DEF FromPayload
  <2>2. /\ \E j \in 1..(k - 1) : p[j].op = "list" /\ p[j].node = p[k].node /\ p[j].path = g
        /\ \A j \in DOMAIN p : p[j].op = "list" /\ p[j].node = p[k].node /\ p[j].path = g
              => IndexIn(p[k].path, g) <= p[j].length
    <3> HIDE DEF n, q
    <3>1. QED BY <1>6, <2>1, WalkedUnder
  <2>3. \A j \in 1..(k - 1) : j \in 1..Len(p)
    BY <1>3, <2>1
  <2>4. QED BY <2>1, <2>2, <2>3
<1> HIDE DEF V, W, n, q
<1>7. \A y \in ListLocations : W[y.id].at[y.path] = V[y.id].at[y.path]
  <2>1. SUFFICES ASSUME NEW y \in ListLocations, y.id = n, y.path = q PROVE FALSE
    BY <1>4, <1>5
  <2>2. [id |-> n, path |-> q] \in ListLocations
    BY <1>5, <2>1
  <2>3. QED BY <1>2, <2>2, LocationKinds
<1>8. ListsDone(W, p, Len(p))
  <2>1. SUFFICES ASSUME NEW j \in 1..Len(p), p[j].op = "list"
        PROVE  /\ W[p[j].node].at[p[j].path] = Here
               /\ \A g \in Path : IsStrictPrefix(p[j].path, g) /\ W[p[j].node].at[g] # Missing
                     => IndexIn(g, p[j].path) <= p[j].length
    BY DEF ListsDone
  <2>2. /\ j \in DOMAIN p /\ p[j].node \in Node /\ p[j].path \in Path
        /\ [id |-> p[j].node, path |-> p[j].path] \in ListLocations
    BY <1>3, <2>1, InstructionTyped, LocationTyped
  <2>3. /\ V[p[j].node].at[p[j].path] = Here
        /\ \A g \in Path : IsStrictPrefix(p[j].path, g) /\ V[p[j].node].at[g] # Missing
              => IndexIn(g, p[j].path) <= p[j].length
    BY <1>1, <2>1 DEF ListsDone
  <2>4. W[p[j].node].at[p[j].path] = Here
    <3> DEFINE y == [id |-> p[j].node, path |-> p[j].path]
    <3>1. y \in ListLocations /\ y.id = p[j].node /\ y.path = p[j].path
      BY <2>2
    <3> HIDE DEF y
    <3>2. W[y.id].at[y.path] = V[y.id].at[y.path]
      BY <1>7, <3>1
    <3>3. QED BY <2>3, <3>1, <3>2
  <2>5. ASSUME NEW g \in Path, IsStrictPrefix(p[j].path, g), W[p[j].node].at[g] # Missing
        PROVE  IndexIn(g, p[j].path) <= p[j].length
    <3>1. CASE r.write /\ p[j].node = n /\ g = q
      BY <1>6, <2>1, <2>2, <2>5, <3>1
    <3>2. CASE ~(r.write /\ p[j].node = n /\ g = q)
      <4>1. W[p[j].node].at[g] = V[p[j].node].at[g]
        BY <1>4, <2>2, <3>2
      <4>2. QED BY <2>3, <2>5, <4>1
    <3>3. QED BY <3>1, <3>2
  <2>6. QED BY <2>4, <2>5
<1>9. ListsToDo(W, p, Len(p))
  <2>1. SUFFICES ASSUME NEW y \in ListLocations, \A j \in 1..Len(p) : ~IsListAt(p[j], y)
        PROVE  ListWhole(W[y.id].at, y.path)
    BY DEF ListsToDo
  <2>2. ListWhole(V[y.id].at, y.path) /\ y.id \in Node /\ y.path \in Path
    BY <1>1, <1>5, <2>1 DEF ListsToDo
  <2>3. ~(y.id = n /\ IsStrictPrefix(y.path, q) /\ r.write)
    <3>1. SUFFICES ASSUME y.id = n, IsStrictPrefix(y.path, q), r.write PROVE FALSE
      OBVIOUS
    <3>2. [id |-> n, path |-> y.path] \in ListLocations
      BY <1>5, <3>1
    <3>3. \E j \in 1..Len(p) : p[j].op = "list" /\ p[j].node = n /\ p[j].path = y.path
      BY <1>6, <2>2, <3>1, <3>2
    <3>4. QED BY <2>1, <3>1, <3>3 DEF IsListAt
  <2>4. \A g \in Path : IsStrictPrefix(y.path, g) => W[y.id].at[g] = V[y.id].at[g]
    BY <1>4, <2>2, <2>3
  <2>5. W[y.id].at[y.path] = V[y.id].at[y.path]
    BY <1>7
  <2>6. QED BY <2>2, <2>4, <2>5, WholeAgain
<1>10. QED BY <1>8, <1>9 DEF W

\* S are the edits of R but for r, or with it.
AllBut(R, r, S) == \A s \in R : s = r \/ s \in S

\* After an edit the orphans found so far are those without a referrer, except where an edit is still to come.
LEMMA RoundOrphans ==
    ASSUME NEW e, NEW orphans, NEW R \in SUBSET EditRecord, NEW r \in R,
           EndsThere(Present(e.nodes), R), OrphansFound(View(e.nodes), Present(e.nodes), R, orphans),
           NEW d, RoundTo(e, d, r), NEW S \in SUBSET R, AllBut(R, r, S),
           NEW left,
           left = LeftAfter(orphans, d, r), e.nodes \in [Node -> NodeSnapshot \cup {Absent}]
    PROVE  EndsThere(Present(d.nodes), S) /\ OrphansFound(View(d.nodes), Present(d.nodes), S, left)
<1> DEFINE V == View(e.nodes)
           W == View(d.nodes)
           P == Present(e.nodes)
           Q == Present(d.nodes)
<1>1. /\ r.node \in P \cup Root \cup Unnamed /\ r.prev \in Entity \cup {Null} /\ r.next \in Entity \cup {Null}
      /\ r.node \in Node
  BY DEF EditRecord, EndsThere
<1>2. Q = P \cup {r.node} \cup OneOf(r.prev) \cup OneOf(r.next)
  BY DEF RoundTo
<1>3. \A n \in Node :
          /\ W[n].leaf = V[n].leaf
          /\ n \notin OneOf(r.prev) \cup OneOf(r.next) => W[n].inbound = V[n].inbound
          /\ n \in OneOf(r.prev) => W[n].inbound \subseteq V[n].inbound
          /\ n \in OneOf(r.next) => W[n].inbound # {}
  BY DEF RoundTo
<1>4. /\ P \subseteq Node /\ Entity \subseteq Node /\ Null \notin Node
      /\ OneOf(r.prev) \subseteq Entity /\ OneOf(r.next) \subseteq Entity
  BY <1>1, NodeAssumption DEF Present, Node, OneOf
<1>5. EndsThere(Q, S)
  BY <1>2 DEF EndsThere
<1>6. /\ \A n \in orphans : n \in P /\ n \in Entity /\ V[n].inbound = {}
      /\ \A n \in P : V[n].inbound = {} => n \in orphans \/ Apart(V, n) \/ \E s \in R : s.next = n
  BY DEF OrphansFound
<1>10. \A n \in Node \ P : V[n].leaf = Missing
  BY ViewTyped DEF NewSnapshot
<1> HIDE DEF V, W, P, Q
<1>7. ASSUME NEW n \in left PROVE n \in Q /\ n \in Entity /\ W[n].inbound = {}
  <2>1. CASE n \in OneOf(r.prev) /\ W[n].inbound = {}
    BY <1>2, <1>4, <2>1
  <2>2. CASE n \in orphans /\ n \notin OneOf(r.next)
    <3>1. n \in Node /\ W[n].inbound \subseteq V[n].inbound
      BY <1>3, <1>4, <1>6, <2>2
    <3>2. QED BY <1>2, <1>6, <2>2, <3>1
  <2>3. QED BY <1>7, <2>1, <2>2 DEF W, LeftAfter
<1>8. ASSUME NEW n \in Q, W[n].inbound = {} PROVE n \in left \/ Apart(W, n) \/ \E s \in S : s.next = n
  <2>1. n \in Node /\ n \notin OneOf(r.next)
    BY <1>1, <1>2, <1>3, <1>4, <1>8
  <2>2. CASE n \in OneOf(r.prev)
    BY <1>8, <2>1, <2>2 DEF W, LeftAfter
  <2>3. CASE n \notin OneOf(r.prev)
    <3> SUFFICES ASSUME ~Apart(W, n) PROVE n \in left \/ \E s \in S : s.next = n
      OBVIOUS
    <3>5. ~Apart(V, n)
      BY <1>3, <2>1 DEF Apart
    <3>1. n \in P /\ V[n].inbound = {}
      <4>1. n \notin P => n = r.node /\ n \in Root \cup Unnamed
        BY <1>1, <1>2, <2>1, <2>3
      <4>2. QED BY <1>3, <1>8, <1>10, <2>1, <2>3, <3>5, <4>1 DEF Apart
    <3>2. CASE n \in orphans
      BY <2>1, <3>2 DEF LeftAfter
    <3>3. CASE \E s \in R : s.next = n
      <4>1. PICK s \in R : s.next = n
        BY <3>3
      <4>2. s # r
        BY <1>4, <2>1, <4>1 DEF OneOf
      <4>3. QED BY <4>1, <4>2 DEF AllBut
    <3>4. QED BY <1>6, <3>1, <3>2, <3>3, <3>5
  <2>4. QED BY <2>2, <2>3
<1>9. QED BY <1>5, <1>7, <1>8 DEF OrphansFound, W, Q

\* After an edit the invariant holds for the edits that are left.
LEMMA RoundDone ==
    ASSUME NEW p \in Payload, NEW e, NEW orphans, NEW R, EditState(e, orphans, R, p), NEW r \in R,
           NEW d, RoundTo(e, d, r), NEW S \in SUBSET R, AllBut(R, r, S),
           NEW left,
           left = LeftAfter(orphans, d, r)
    PROVE  EditState(d, left, S, p)
<1> DEFINE V == View(e.nodes)
           W == View(d.nodes)
           K == Len(p)
<1>1. /\ R \in SUBSET EditRecord /\ Undone(V, R) /\ Origins(R, p, K) /\ RefsDone(V, R, p, K)
      /\ EndsThere(Present(e.nodes), R) /\ OrphansFound(V, Present(e.nodes), R, orphans)
  BY DEF EditState
<1>2. Sound(d) /\ S \subseteq EditRecord /\ Origins(S, p, K)
  BY <1>1 DEF RoundTo, Origins
<1>3. Settled(W, r)
  BY RoundSettles
<1>4. ListsDone(W, p, K) /\ ListsToDo(W, p, K)
  BY RoundLists
<1>5. EndsThere(Present(d.nodes), S) /\ OrphansFound(W, Present(d.nodes), S, left)
  <2>1. e.nodes \in [Node -> NodeSnapshot \cup {Absent}]
    BY DEF EditState, Sound, Editor
  <2>2. QED BY <1>1, <2>1, RoundOrphans
<1>6. DOMAIN p = 1..K /\ K \in Nat
  BY PayloadAssumption
<1>7. \A n \in Node, q \in Path :
        ~IsAt(r, n, q) => W[n].at[q] = V[n].at[q] /\ Referred(W, n, q) = Referred(V, n, q)
  BY DEF RoundTo
<1>8. \A s \in R : s.node \in Node /\ s.path \in Path
  BY <1>1 DEF EditRecord
<1> HIDE DEF V, W, K
<1>9. Undone(W, S)
  <2>1. ASSUME NEW n \in Node, NEW q \in Path, \A s \in S : ~IsAt(s, n, q)
        PROVE  Referred(W, n, q) = Targets(W[n].at[q])
    <3>1. CASE IsAt(r, n, q)
      BY <1>3, <3>1 DEF Settled, IsAt
    <3>2. CASE ~IsAt(r, n, q)
      BY <1>1, <1>7, <2>1, <3>2 DEF Undone, AllBut
    <3>3. QED BY <3>1, <3>2
  <2>2. ASSUME NEW s \in S PROVE ToDo(W, s) \/ Settled(W, s)
    <3>1. CASE s = r
      BY <1>3, <3>1
    <3>2. CASE s # r
      <4>1. ~IsAt(r, s.node, s.path) /\ (ToDo(V, s) \/ Settled(V, s))
        BY <1>1, <3>2 DEF Undone
      <4>2. /\ W[s.node].at[s.path] = V[s.node].at[s.path]
            /\ Referred(W, s.node, s.path) = Referred(V, s.node, s.path)
        BY <1>7, <1>8, <4>1
      <4>3. QED BY <4>1, <4>2 DEF ToDo, Settled
    <3>3. QED BY <3>1, <3>2
  <2>3. \A s, t \in S : IsAt(s, t.node, t.path) => s = t
    BY <1>1 DEF Undone
  <2>4. QED BY <2>1, <2>2, <2>3 DEF Undone
<1>10. RefsDone(W, S, p, K)
  <2>1. SUFFICES ASSUME NEW j \in 1..K, p[j].op = "ref"
        PROVE  W[p[j].node].at[p[j].path] # Missing \/ \E s \in S : IsAt(s, p[j].node, p[j].path)
    BY DEF RefsDone
  <2>2. j \in DOMAIN p /\ p[j].node \in Node /\ p[j].path \in Path
    BY <1>6, <2>1, InstructionTyped
  <2>3. V[p[j].node].at[p[j].path] # Missing \/ \E s \in R : IsAt(s, p[j].node, p[j].path)
    BY <1>1, <2>1 DEF RefsDone
  <2>4. CASE IsAt(r, p[j].node, p[j].path)
    <3>1. r.write
      BY <1>1, <1>6, <2>1, <2>2, <2>4, EditOfReference
    <3>2. W[p[j].node].at[p[j].path] = EditValue(e, r)
      BY <2>2, <2>4, <3>1 DEF RoundTo, W
    <3>3. EditValue(e, r) # Missing
      <4>1. r \in EditRecord /\ r.next \in Present(e.nodes) \cup {Null} /\ Sound(e)
        BY <1>1 DEF EndsThere, EditState
      <4>2. QED BY <4>1, EditValueOf
    <3>4. QED BY <3>2, <3>3
  <2>5. CASE ~IsAt(r, p[j].node, p[j].path)
    BY <1>7, <2>2, <2>3, <2>5 DEF AllBut
  <2>6. QED BY <2>4, <2>5
<1>11. QED BY <1>2, <1>4, <1>5, <1>9, <1>10 DEF EditState, W, K

\* An edit that fails leaves an editor that has failed.
LEMMA FailedWrite ==
    ASSUME NEW e \in Editor, NEW n \in Node, NEW at, Edit(e, n, at).failed
    PROVE  Edit(e, n, at) \in Editor
<1> DEFINE f == [e EXCEPT !.edited = @ \cup {n}]
           new == EnsureNewSnapshot(f, n)
<1>1. f \in Editor
  BY DEF Editor
<1>2. Edit(e, n, at) = IF new.failed THEN new
                       ELSE [new EXCEPT !.nodes[n].at = at, !.nodes[n].fresh = TRUE]
  BY DEF Edit, SetData
<1> HIDE DEF f
<1>3. new \in Editor
  BY <1>1, StaysEditor
<1> HIDE DEF new
<1>4. new.failed
  <2>1. CASE new.failed
    BY <2>1
  <2>2. CASE ~new.failed
    <3>1. Edit(e, n, at) = [new EXCEPT !.nodes[n].at = at, !.nodes[n].fresh = TRUE]
      BY <1>2, <2>2
    <3>2. Edit(e, n, at).failed = new.failed
      BY <1>3, <3>1 DEF Editor
    <3>3. QED BY <2>2, <3>2
  <2>3. QED BY <2>1, <2>2
<1>5. QED BY <1>2, <1>3, <1>4

\* A walk that fails leaves an editor.
LEMMA FailedWalk ==
    ASSUME NEW w, NEW p \in Payload, NEW k \in DOMAIN p, w = [editor |-> w.editor, edits |-> w.edits],
           w.editor \in Editor, ~w.editor.failed, NEW x, x = Walk(w, p[k]), x.editor.failed
    PROVE  x.editor \in Editor
<1> DEFINE e == w.editor
           i == p[k]
           n == i.node
<1>1. /\ i.op \in {"leaf", "ref", "list", "param", "fragment"}
      /\ i.op \in {"leaf", "ref", "list"} => n \in Node
      /\ i.op = "fragment" => n \in Entity
      /\ i.op = "param" => n \in Param
  BY InstructionTyped
<1>2. CASE i.op = "leaf"
  <2> DEFINE f == Edit(e, n, NodeData(e, n))
  <2>1. x = WalkLeaf(w, i)
    BY <1>2 DEF Walk
  <2>2. x.editor = e \/ x.editor = IF f.failed THEN f ELSE [f EXCEPT !.nodes[n].leaf = i.value]
    BY <2>1 DEF WalkLeaf
  <2>3. f \in Editor
    <3>1. NodeData(e, n) \in [Path -> Value] /\ n \in Node
      BY <1>1, <1>2, DataOf
    <3>2. QED BY <3>1, StaysEditor
  <2> HIDE DEF f
  <2>4. ~f.failed => [f EXCEPT !.nodes[n].leaf = i.value].failed = f.failed
    BY <2>3 DEF Editor
  <2>5. QED BY <2>2, <2>3, <2>4
<1>3. CASE i.op = "ref"
  <2>1. x = WalkRef(w, i)
    BY <1>3 DEF Walk
  <2>2. x.editor = e \/ x.editor = SetValue(e, n, i.path, Null)
    BY <2>1 DEF WalkRef
  <2>3. QED BY <1>1, <1>3, <2>2, FailedWrite DEF SetValue
<1>4. CASE i.op = "list"
  <2> DEFINE y == i.path
             old == e.nodes[n]
             now == IF old = Absent THEN 0
                    ELSE Cardinality({q \in Path : IsStrictPrefix(y, q) /\ old.at[q] # Missing})
             beyond == IF now <= i.length THEN {}
                       ELSE {r \in old.outbound : IsStrictPrefix(y, r.path) /\ r.path[Len(y) + 1] > i.length}
             drops == {ReferenceEdit(n, r.path, r.id, Null, FALSE) : r \in beyond}
             d == Edit(e, n, Resized(NodeData(e, n), Original(n), y, i.length))
             z == WalkList(w, i)
  <2>0. z = IF now = i.length /\ ValueAt(e, n, y) = Here THEN w
            ELSE [editor |-> d, edits |-> w.edits \o SetToSeq(drops)]
    BY DEF WalkList
  <2>1. x = z
    BY <1>4 DEF Walk
  <2> HIDE DEF z, d, now, drops
  <2>2. x.editor = e \/ x.editor = d
    BY <2>0, <2>1
  <2>3. QED BY <1>1, <1>4, <2>2, FailedWrite DEF d
<1>5. CASE i.op = "param"
  <2> DEFINE o == Owner(n)
             s == [NewSnapshot EXCEPT !.inbound = {o}]
             d == [e EXCEPT !.made = @ \cup {n}, !.nodes[n] = s]
             ref == [id |-> n, path |-> o.path]
  <2>1. x = WalkParam(w, i)
    BY <1>5 DEF Walk
  <2>2. x.editor = e \/ x.editor = AddReference(d, "outbound", o.id, ref)
    BY <2>1 DEF WalkParam
  <2>3. n \in Node /\ o \in Reference /\ o.id \in Node /\ ref \in Reference
    BY <1>1, <1>5, PayloadAssumption DEF Reference, Node
  <2>4. s \in NodeSnapshot
    BY <2>3, NewTyped DEF NodeSnapshot
  <2>5. d \in Editor
    <3> HIDE DEF s, o
    <3>1. QED BY <2>3, <2>4 DEF Editor
  <2> HIDE DEF d, ref, o
  <2>6. AddReference(d, "outbound", o.id, ref) \in Editor
    BY <2>3, <2>5, StaysEditor
  <2>7. QED BY <2>2, <2>6
<1>7. CASE i.op = "fragment"
  <2> DEFINE a == AddReference(e, "outbound", n, Self(n))
             b == AddReference(a, "inbound", n, Self(n))
             z == WalkFragment(w, i)
  <2>1. x = z
    BY <1>7 DEF Walk
  <2>2. z = w \/ z = [w EXCEPT !.editor = b] \/ z = [w EXCEPT !.editor.failed = TRUE]
    BY DEF WalkFragment
  <2>3. n \in Node /\ Self(n) \in Reference
    BY <1>1, <1>7, PathAssumption DEF Reference, Node, Self
  <2>4. a \in Editor
    BY <2>3, StaysEditor
  <2> HIDE DEF a, z
  <2>5. b \in Editor
    BY <2>3, <2>4, StaysEditor
  <2> HIDE DEF b
  <2>6. [e EXCEPT !.failed = TRUE] \in Editor
    BY DEF Editor
  <2>7. z.editor = e \/ z.editor = b \/ z.editor = [e EXCEPT !.failed = TRUE]
    BY <2>2
  <2>8. QED BY <2>1, <2>5, <2>6, <2>7
<1>6. QED BY <1>1, <1>2, <1>3, <1>4, <1>5, <1>7

\* The walk of a payload.
LEMMA PayloadWalked ==
    ASSUME NEW p \in Payload, NEW e \in Editor, ~e.failed, GraphInv(e.nodes), EditsTell(e),
           Starts(e, p), NEW w, w = Walked([editor |-> e, edits |-> <<>>], p)
    PROVE  WalkedTo(w, p, Len(p), e.merged) /\ w.editor \in Editor
<1> DEFINE base == [editor |-> e, edits |-> <<>>]
           n == Len(p)
           merged == e.merged
<1>1. n \in Nat /\ DOMAIN p = 1..n
  BY PayloadAssumption
<1>2. PICK g : /\ g[0] = base
               /\ \A k \in 1..n : g[k] = Walk(g[k - 1], p[k])
               /\ w = g[n]
  <2>0. w = Walked(base, p)
    OBVIOUS
  <2> HIDE DEF base, n, merged
  <2>1. n \in Nat /\ DOMAIN p = 1..n
    BY <1>1
  <2>3. QED BY <2>0, <2>1, WalkSteps
<1> DEFINE T == {k \in 0..n : WalkedTo(g[k], p, k, merged) /\ g[k].editor \in Editor}
<1>3. 0 \in T
  <2>1. base.editor = e
    OBVIOUS
  <2>2. WalkedTo(base, p, 0, merged)
    BY WalkStarts
  <2> HIDE DEF base, n, merged
  <2>3. QED BY <1>1, <1>2, <2>1, <2>2
<1>4. ASSUME NEW k \in 1..n, k - 1 \in T PROVE k \in T
  <2> DEFINE v == g[k - 1]
             l == k - 1
             x == g[k]
  <2>1. WalkedTo(v, p, l, merged) /\ v.editor \in Editor /\ x = Walk(v, p[k]) /\ k \in DOMAIN p /\ k \in 0..n
        /\ l = k - 1
    BY <1>1, <1>2, <1>4
  <2> HIDE DEF v, l, n, merged, x
  <2>2. WalkedTo(x, p, k, merged)
    BY <2>1, InstructionWalked
  <2>3. x.editor \in Editor
    <3>1. CASE ~x.editor.failed
      BY <2>2, <3>1 DEF WalkedTo, Sound
    <3>2. CASE x.editor.failed
      <4>1. CASE v.editor.failed
        <5>1. x = v
          BY <2>1, <4>1 DEF Walk
        <5>2. QED BY <2>1, <5>1
      <4>2. CASE ~v.editor.failed
        <5>1. v = [editor |-> v.editor, edits |-> v.edits]
          BY <2>1 DEF WalkedTo
        <5>2. QED BY <2>1, <3>2, <4>2, <5>1, FailedWalk
      <4>3. QED BY <4>1, <4>2
    <3>3. QED BY <3>1, <3>2
  <2>4. QED BY <2>1, <2>2, <2>3 DEF x
<1>5. n \in T
  <2> HIDE DEF T, n
  <2>1. \A k \in 0..n : k \in T
    BY <1>1, <1>3, <1>4, UpTo
  <2>2. QED BY <1>1, <2>1
<1>6. QED BY <1>2, <1>5

\* After the walk, its edits are to be done.
LEMMA EditsStart ==
    ASSUME NEW p \in Payload, NEW e, Sound(e), NEW R, WalkInv(e, R, p, Len(p))
    PROVE  EditState(e, {}, R, p)
<1> DEFINE V == View(e.nodes)
           P == Present(e.nodes)
           K == Len(p)
<1>1. /\ R \subseteq EditRecord /\ Pending(V, R) /\ Origins(R, p, K)
      /\ ListsDone(V, p, K) /\ ListsToDo(V, p, K) /\ RefsDone(V, R, p, K)
      /\ Reached(V, P, R, p, K) /\ Referenced(V, P, R)
  BY DEF WalkInv
<1>2. DOMAIN p = 1..K /\ K \in Nat
  BY PayloadAssumption
<1> HIDE DEF V, P, K
<1>3. Undone(V, R)
  BY <1>1 DEF Pending, Undone, ToDo
<1>4. ASSUME NEW r \in R, r.next # Null PROVE r.next \in P
  <2>1. PICK k \in 1..K :
           /\ p[k].node = r.node
           /\ \/ r.write /\ p[k].op = "ref" /\ p[k].path = r.path /\ p[k].target = r.next
                 /\ r.prev # r.next
              \/ ~r.write /\ r.next = Null /\ p[k].op = "list" /\ IsStrictPrefix(p[k].path, r.path)
                 /\ [id |-> r.node, path |-> r.path] \in RefLocations
                 /\ IndexIn(r.path, p[k].path) > p[k].length
    BY <1>1 DEF Origins
  <2>2. p[k].op = "ref" /\ p[k].target = r.next /\ r.next \in Entity
    BY <1>1, <1>4, <2>1 DEF EditRecord
  <2>3. PICK j \in DOMAIN p : p[j].op = "leaf" /\ p[j].node = p[k].target
    BY <1>2, <2>2, PayloadsAreWalks DEF OneResult
  <2>4. QED BY <1>1, <1>2, <2>2, <2>3 DEF Reached
<1>9. e.nodes \in [Node -> NodeSnapshot \cup {Absent}]
  BY DEF Sound, Editor
<1>5. ASSUME NEW r \in R PROVE r.node \in P \cup Root \cup Unnamed
  <2>1. PICK k \in 1..K : p[k].node = r.node /\ (p[k].op = "ref" \/ p[k].op = "list")
    BY <1>1 DEF Origins
  <2>2. Written(p[k]) = r.node
    BY <2>1 DEF Written
  <2>3. Comes(V, P, R, r.node)
    <3>1. k \in DOMAIN p /\ K >= k - 1
      BY <1>2, <2>1
    <3>2. Comes(V, P, R, Written(p[k]))
      BY <1>1, <1>2, <1>9, <2>1, <3>1, WrittenThere DEF V, P
    <3>3. QED BY <2>2, <3>2
  <2>4. Null \notin Entity
    BY NodeAssumption DEF Node
  <2>5. QED BY <1>4, <2>3, <2>4 DEF Comes
<1>6. EndsThere(P, R)
  BY <1>4, <1>5 DEF EndsThere
<1>7. OrphansFound(V, P, R, {})
  BY <1>1 DEF OrphansFound, Referenced
<1>8. QED BY <1>1, <1>3, <1>6, <1>7 DEF EditState, V, P, K

\* The edits that are to be done after k of them.
Rest(edits, k) == {edits[a] : a \in (k + 1)..Len(edits)}

\* The edits that are left are the next one and those after it.
LEMMA RestOf ==
    ASSUME NEW edits \in Seq(EditRecord), NEW k \in 1..Len(edits), NEW l, l = k - 1
    PROVE  /\ edits[k] \in Rest(edits, l) /\ Rest(edits, k) \in SUBSET Rest(edits, l)
           /\ AllBut(Rest(edits, l), edits[k], Rest(edits, k))
           /\ Rest(edits, l) \in SUBSET EditRecord
<1>1. Len(edits) \in Nat /\ \A a \in 1..Len(edits) : edits[a] \in EditRecord
  OBVIOUS
<1>2. \A a : a \in (l + 1)..Len(edits) <=> a = k \/ a \in (k + 1)..Len(edits)
  BY <1>1
<1>3. \A a \in (l + 1)..Len(edits) : a \in 1..Len(edits)
  BY <1>1
<1>4. QED BY <1>1, <1>2, <1>3 DEF Rest, AllBut

\* All of them.
LEMMA AllRest ==
    ASSUME NEW edits \in Seq(EditRecord)
    PROVE  Rest(edits, 0) = Collected(edits) /\ Rest(edits, Len(edits)) = {}
<1>1. Len(edits) \in Nat /\ 0 + 1 = 1 /\ (Len(edits) + 1)..Len(edits) = {}
  OBVIOUS
<1>2. QED BY <1>1 DEF Rest, Collected

\* After k of the edits of a payload.
EditedTo(m, edits, k, p, merged) ==
    /\ m = [editor |-> m.editor, orphans |-> m.orphans] /\ m.editor \in Editor
    /\ ~m.editor.failed => m.editor.merged = merged /\ EditState(m.editor, m.orphans, Rest(edits, k), p)

\* One step of the loop over the edits keeps its invariant.
LEMMA EditDone ==
    ASSUME NEW p \in Payload, NEW edits \in Seq(EditRecord), NEW k \in 1..Len(edits), NEW l, l = k - 1,
           NEW m, NEW merged, EditedTo(m, edits, l, p, merged), NEW y, y = MergeReferenceEdit(m, edits[k])
    PROVE  EditedTo(y, edits, k, p, merged)
<1> DEFINE r == edits[k]
           e == m.editor
           orphans == m.orphans
           R == Rest(edits, l)
           S == Rest(edits, k)
<1>1. /\ r \in R /\ S \in SUBSET R /\ AllBut(R, r, S) /\ R \in SUBSET EditRecord
  BY RestOf
<1>2. /\ m = [editor |-> e, orphans |-> orphans] /\ e \in Editor /\ r \in EditRecord
      /\ y = MergeReferenceEdit([editor |-> e, orphans |-> orphans], r)
  BY <1>1 DEF EditedTo
<1> HIDE DEF R, S, r
<1>3. CASE e.failed
  <2> HIDE DEF e, orphans
  <2>1. y = [editor |-> y.editor, orphans |-> y.orphans] /\ y.editor \in Editor /\ y.editor.failed
    BY <1>2, <1>3, FailedEdit
  <2>2. QED BY <2>1 DEF EditedTo
<1>4. CASE ~e.failed
  <2>1. e.merged = merged /\ EditState(e, orphans, R, p)
    BY <1>4 DEF EditedTo, R
  <2> HIDE DEF e, orphans
  <2>2. /\ y = [editor |-> y.editor, orphans |-> y.orphans] /\ y.editor \in Editor
        /\ ~y.editor.failed => /\ RoundTo(e, y.editor, r)
                               /\ y.orphans = LeftAfter(orphans, y.editor, r)
    BY <1>1, <1>2, <2>1, EditRound
  <2>3. ASSUME ~y.editor.failed PROVE y.editor.merged = merged /\ EditState(y.editor, y.orphans, S, p)
    <3>1. y.editor.merged = merged
      BY <2>1, <2>2, <2>3 DEF RoundTo
    <3>2. PICK d, left : d = y.editor /\ left = y.orphans
      OBVIOUS
    <3>3. RoundTo(e, d, r) /\ left = LeftAfter(orphans, d, r)
      BY <2>2, <2>3, <3>2
    <3>4. EditState(d, left, S, p)
      BY <1>1, <2>1, <3>3, RoundDone
    <3>5. QED BY <3>1, <3>2, <3>4
  <2>4. QED BY <2>2, <2>3 DEF EditedTo, S
<1>5. QED BY <1>3, <1>4

\* After the loop over the edits all are done.
LEMMA PayloadEdited ==
    ASSUME NEW p \in Payload, NEW w, NEW merged, WalkedTo(w, p, Len(p), merged), w.editor \in Editor,
           NEW m, m = EditsDone([editor |-> w.editor, orphans |-> {}], w.edits)
    PROVE  EditedTo(m, w.edits, Len(w.edits), p, merged)
<1> DEFINE base == [editor |-> w.editor, orphans |-> {}]
           edits == w.edits
           n == Len(edits)
<1>1. edits \in Seq(EditRecord) /\ n \in Nat /\ DOMAIN edits = 1..n
  BY DEF WalkedTo
<1>2. PICK g : /\ g[0] = base
               /\ \A k \in 1..n : g[k] = MergeReferenceEdit(g[k - 1], edits[k])
               /\ m = g[n]
  <2>0. m = EditsDone(base, edits)
    OBVIOUS
  <2> HIDE DEF base, n, edits
  <2>3. QED BY <1>1, <2>0, EditSteps
<1> DEFINE T == {k \in 0..n : EditedTo(g[k], edits, k, p, merged)}
<1>3. 0 \in T
  <2>1. base.editor = w.editor /\ base.orphans = {} /\ base = [editor |-> base.editor, orphans |-> base.orphans]
    OBVIOUS
  <2>2. ~w.editor.failed => w.editor.merged = merged /\ EditState(w.editor, {}, Rest(edits, 0), p)
    <3>1. Rest(edits, 0) = Collected(edits)
      BY <1>1, AllRest
    <3>2. QED BY <3>1, EditsStart DEF WalkedTo
  <2> HIDE DEF base
  <2>3. EditedTo(base, edits, 0, p, merged)
    BY <2>1, <2>2 DEF EditedTo
  <2>4. QED BY <1>1, <1>2, <2>3
<1>4. ASSUME NEW k \in 1..n, k - 1 \in T PROVE k \in T
  <2> DEFINE v == g[k - 1]
             l == k - 1
             y == g[k]
  <2>1. EditedTo(v, edits, l, p, merged) /\ y = MergeReferenceEdit(v, edits[k]) /\ k \in 1..Len(edits)
        /\ l = k - 1 /\ k \in 0..n
    BY <1>1, <1>2, <1>4
  <2> HIDE DEF v, l, n, y, edits
  <2>2. EditedTo(y, edits, k, p, merged)
    BY <1>1, <2>1, EditDone
  <2>3. QED BY <2>1, <2>2 DEF y
<1>5. n \in T
  <2> HIDE DEF T, n
  <2>1. \A k \in 0..n : k \in T
    BY <1>1, <1>3, <1>4, UpTo
  <2>2. QED BY <1>1, <2>1
<1>6. QED BY <1>2, <1>5

-----------------------------------------------------------------------------
(* Garbage collection.                                                     *)

\* The nodes that nothing refers to are queued.
Queued(e, queue) ==
    /\ \A n \in queue : n \in Present(e.nodes) \ Root /\ View(e.nodes)[n].inbound = {}
    /\ \A n \in Present(e.nodes) : View(e.nodes)[n].inbound = {} => n \in queue \/ Apart(View(e.nodes), n)

CollectState(e, queue) ==
    /\ Sound(e) /\ DataMatches(View(e.nodes)) /\ ListsWhole(View(e.nodes))
    /\ Queued(e, queue)

\* When all edits are done, the orphans are known.
LEMMA EditsEnd ==
    ASSUME NEW p \in Payload, NEW e, NEW orphans, EditState(e, orphans, {}, p)
    PROVE  CollectState(e, orphans)
<1> DEFINE V == View(e.nodes)
           P == Present(e.nodes)
           K == Len(p)
<1>1. /\ Sound(e) /\ Undone(V, {}) /\ ListsDone(V, p, K) /\ ListsToDo(V, p, K)
      /\ RefsDone(V, {}, p, K) /\ OrphansFound(V, P, {}, orphans)
  BY DEF EditState
<1>2. DOMAIN p = 1..K /\ K \in Nat
  BY PayloadAssumption
<1>3. V \in [Node -> NodeSnapshot] /\ \A n \in Node : Kinds(V[n].at, n)
  BY <1>1, ViewTyped, KindsOf DEF Sound, Editor
<1> HIDE DEF V, P, K
<1>4. DataMatches(V)
  BY <1>1 DEF Undone, DataMatches
<1>5. ASSUME NEW y \in ListLocations PROVE ListWhole(V[y.id].at, y.path)
  <2>1. CASE \A j \in 1..K : ~IsListAt(p[j], y)
    BY <1>1, <2>1 DEF ListsToDo
  <2>2. CASE \E j \in 1..K : IsListAt(p[j], y)
    <3>1. PICK j \in 1..K : p[j].op = "list" /\ p[j].node = y.id /\ p[j].path = y.path
      BY <2>2 DEF IsListAt
    <3>2. /\ y.id \in Node /\ y.path \in Path /\ y = [id |-> y.id, path |-> y.path] /\ j \in DOMAIN p
          /\ p[j].length \in Nat
      BY <1>2, <3>1, LocationTyped, InstructionTyped DEF Reference
    <3>3. /\ V[y.id].at[y.path] = Here
          /\ \A q \in Path : IsStrictPrefix(y.path, q) /\ V[y.id].at[q] # Missing
                => IndexIn(q, y.path) <= p[j].length
      BY <1>1, <3>1 DEF ListsDone
    <3>4. SUFFICES ASSUME NEW q \in Path, IsStrictPrefix(y.path, q), V[y.id].at[q] # Missing,
                          NEW k \in 1..IndexIn(q, y.path)
          PROVE  Append(y.path, k) \in Path /\ V[y.id].at[Append(y.path, k)] # Missing
      BY <3>3 DEF ListWhole
    <3>5. IndexIn(q, y.path) \in Nat
      <4>1. [id |-> y.id, path |-> q] \in RefLocations \/ [id |-> y.id, path |-> q] \in ListLocations
        BY <1>3, <3>2, <3>4 DEF Kinds
      <4>2. PICK n, g : n = y.id /\ g = y.path
        OBVIOUS
      <4>3. [id |-> n, path |-> g] \in ListLocations
        BY <3>2, <4>2
      <4>4. IndexIn(q, g) \in Nat \ {0}
        BY <3>2, <3>4, <4>1, <4>2, <4>3, LocationKinds
      <4>5. QED BY <4>2, <4>4
    <3>6. k \in 1..p[j].length
      BY <3>2, <3>3, <3>4, <3>5
    <3>7. PICK i \in DOMAIN p : p[i].op = "ref" /\ p[i].node = p[j].node /\ p[i].path = Append(p[j].path, k)
      BY <3>1, <3>2, <3>6, PayloadsAreWalks DEF ListsAreWhole
    <3>8. p[i].path \in Path
      BY <3>7, InstructionTyped
    <3>9. V[p[i].node].at[p[i].path] # Missing
      BY <1>1, <1>2, <3>7 DEF RefsDone
    <3>10. QED BY <3>1, <3>7, <3>8, <3>9
  <2>3. QED BY <2>1, <2>2
<1>6. ListsWhole(V)
  BY <1>5 DEF ListsWhole
<1>7. \A n \in orphans : n \in P \ Root /\ V[n].inbound = {}
  BY <1>1, NodeAssumption DEF OrphansFound
<1>8. \A n \in P : V[n].inbound = {} => n \in orphans \/ Apart(V, n)
  BY <1>1 DEF OrphansFound
<1>9. QED BY <1>1, <1>4, <1>6, <1>7, <1>8 DEF CollectState, Queued, V, P

\* The references of S, all of which are from a node id, are gone where they
\* lead to.
Parted(e, d, id, S) ==
    /\ Relinked(e, d, {r.id : r \in S})
    /\ \A m \in Node : View(d.nodes)[m].outbound = View(e.nodes)[m].outbound
    /\ \A m \in Node, q \in Path, n \in Node :
          [id |-> n, path |-> q] \in View(d.nodes)[m].inbound
            <=> [id |-> n, path |-> q] \in View(e.nodes)[m].inbound
                  /\ ~(n = id /\ [id |-> m, path |-> q] \in S)

\* One more reference of a removed node is taken from its target.
LEMMA PartedOne ==
    ASSUME NEW e \in Editor, NEW id \in Node, NEW s \in SUBSET Reference, NEW x \in s,
           NEW d, d \in Editor, ~d.failed => Parted(e, d, id, s \ {x}),
           NEW f, f = RemoveReference(d, "inbound", x.id, [id |-> id, path |-> x.path])
    PROVE  f \in Editor /\ (~f.failed => Parted(e, f, id, s))
<1> DEFINE r == [id |-> id, path |-> x.path]
           i == x.id
<1>1. x.id \in Node /\ x.path \in Path /\ x = [id |-> x.id, path |-> x.path] /\ r \in Reference
  BY DEF Reference
<1>2. f \in Editor
  <2> HIDE DEF r
  <2>1. f = RemoveReference(d, "inbound", x.id, r)
    BY DEF r
  <2>2. QED BY <1>1, <2>1, StaysEditor
<1>3. SUFFICES ASSUME ~f.failed PROVE Parted(e, f, id, s)
  BY <1>2
<1>4. Relinked(d, f, {i}) /\ OutboundIs(d, f, i, {}, {}) /\ InboundIs(d, f, i, {r}, {})
  BY <1>1, <1>3, LinkOperations
<1>5. Parted(e, d, id, s \ {x})
  BY <1>4 DEF Relinked
<1>6. Relinked(e, f, {t.id : t \in s})
  <2>1. Relinked(e, d, {t.id : t \in s \ {x}})
    BY <1>5 DEF Parted
  <2>2. PICK S : S = {t.id : t \in s \ {x}}
    OBVIOUS
  <2>3. PICK T : T = {i}
    OBVIOUS
  <2>4. Relinked(e, f, S \cup T)
    BY <1>4, <2>1, <2>2, <2>3, RelinkedTwice
  <2>5. S \cup T = {t.id : t \in s}
    BY <2>2, <2>3
  <2>6. QED BY <2>4, <2>5
<1>7. \A m \in Node : View(f.nodes)[m].outbound = View(e.nodes)[m].outbound
  <2>1. SUFFICES ASSUME NEW m \in Node PROVE View(f.nodes)[m].outbound = View(d.nodes)[m].outbound
    BY <1>5 DEF Parted
  <2>2. /\ View(f.nodes)[m].outbound \in SUBSET Reference
        /\ View(d.nodes)[m].outbound \in SUBSET Reference
    <3>1. \A c \in Editor : View(c.nodes) \in [Node -> NodeSnapshot]
      BY ViewTyped DEF Editor
    <3>2. \A c \in Editor : View(c.nodes)[m].outbound \in SUBSET Reference
      BY <3>1 DEF NodeSnapshot
    <3>3. QED BY <1>2, <3>2
  <2>3. QED BY <1>4, <2>2 DEF OutboundIs
<1>8. ASSUME NEW m \in Node, NEW q \in Path, NEW n \in Node
      PROVE  [id |-> n, path |-> q] \in View(f.nodes)[m].inbound
               <=> [id |-> n, path |-> q] \in View(e.nodes)[m].inbound
                     /\ ~(n = id /\ [id |-> m, path |-> q] \in s)
  <2> DEFINE t == [id |-> n, path |-> q]
             u == [id |-> m, path |-> q]
  <2>1. t \in Reference /\ (t = r <=> n = id /\ q = x.path)
    BY DEF Reference
  <2>2. u = x <=> m = i /\ q = x.path
    BY <1>1
  <2>3. t \in View(d.nodes)[m].inbound
          <=> t \in View(e.nodes)[m].inbound /\ ~(n = id /\ u \in s \ {x})
    BY <1>5 DEF Parted
  <2> HIDE DEF t, u, r, i
  <2>4. t \in View(f.nodes)[m].inbound <=> t \in View(d.nodes)[m].inbound /\ ~(m = i /\ t = r)
    BY <1>4, <2>1 DEF InboundIs
  <2>5. t \in View(f.nodes)[m].inbound <=> t \in View(e.nodes)[m].inbound /\ ~(n = id /\ u \in s)
    BY <2>1, <2>2, <2>3, <2>4
  <2>6. QED BY <2>5 DEF t, u
<1>9. QED BY <1>6, <1>7, <1>8 DEF Parted

\* All references of a removed node are taken from their targets.
LEMMA AllParted ==
    ASSUME NEW e \in Editor, ~e.failed, NEW id \in Node, NEW S \in SUBSET Reference,
           NEW d, d = Unlinked(e, id, S)
    PROVE  d \in Editor /\ (~d.failed => Parted(e, d, id, S))
<1>1. IsFiniteSet(S)
  BY FiniteReferences
<1>2. PICK h : Unlinks(h, e, id, S) /\ Unlinked(e, id, S) = h[S]
  BY <1>1, UnlinkSteps
<1> DEFINE Ok(s) == h[s] \in Editor /\ (~h[s].failed => Parted(e, h[s], id, s))
           T == {k \in Nat : \A s \in SUBSET S : Cardinality(s) = k => Ok(s)}
<1>3. 0 \in T
  <2>1. Parted(e, e, id, {})
    BY DEF Parted, Relinked
  <2>2. \A s \in SUBSET S : Cardinality(s) = 0 => s = {}
    BY <1>1, Parts
  <2>3. QED BY <1>2, <2>1, <2>2 DEF Unlinks
<1>4. ASSUME NEW k \in Nat \ {0}, k - 1 \in T PROVE k \in T
  <2>1. SUFFICES ASSUME NEW s \in SUBSET S, Cardinality(s) = k PROVE Ok(s)
    OBVIOUS
  <2>2. s # {} /\ \A x \in s : Cardinality(s \ {x}) = k - 1 /\ s \ {x} \in SUBSET S
    BY <1>1, <2>1, Parts
  <2>3. PICK x \in s : h[s] = RemoveReference(h[s \ {x}], "inbound", x.id, [id |-> id, path |-> x.path])
    BY <1>2, <2>2 DEF Unlinks
  <2>4. Ok(s \ {x})
    BY <1>4, <2>2
  <2>5. PICK c, f : c = h[s \ {x}] /\ f = h[s]
    OBVIOUS
  <2>6. /\ c \in Editor /\ (~c.failed => Parted(e, c, id, s \ {x})) /\ s \in SUBSET Reference
        /\ f = RemoveReference(c, "inbound", x.id, [id |-> id, path |-> x.path])
    BY <2>3, <2>4, <2>5
  <2> HIDE DEF Ok, T
  <2>7. f \in Editor /\ (~f.failed => Parted(e, f, id, s))
    BY <2>6, PartedOne
  <2>8. QED BY <2>5, <2>7 DEF Ok
<1>5. Ok(S)
  <2>1. Cardinality(S) \in Nat
    BY <1>1, Parts
  <2>2. Cardinality(S) \in T
    <3> HIDE DEF T
    <3>1. \A k \in Nat : k \in T
      BY <1>3, <1>4, AllNaturals
    <3>2. QED BY <2>1, <3>1
  <2>3. QED BY <2>2
<1>6. QED BY <1>2, <1>5

\* d is e without the node id, which nothing refers to, and without the
\* references from it.
TakenOut(e, d, id) ==
    LET V == View(e.nodes)
        W == View(d.nodes)
    IN  /\ d \in Editor /\ ~d.failed
        /\ Present(d.nodes) = Present(e.nodes) \ {id}
        /\ d.merged = e.merged /\ d.edited = e.edited \cup {id}
        /\ e.made \subseteq d.made /\ id \in d.made
        /\ W[id].leaf = Missing /\ W[id].at = NoData /\ ~W[id].fresh
        /\ W[id].inbound = {} /\ W[id].outbound = {}
        /\ \A n \in Node \ {id} : /\ W[n].leaf = V[n].leaf /\ W[n].at = V[n].at
                                  /\ W[n].fresh = V[n].fresh /\ W[n].outbound = V[n].outbound
        /\ \A m \in Node, q \in Path, n \in Node :
              [id |-> n, path |-> q] \in W[m].inbound
                <=> [id |-> n, path |-> q] \in V[m].inbound /\ n # id

\* The editor that _removeOrphanedNodes leaves, before it removes references.
Removed(e, id) == [e EXCEPT !.nodes[id] = Absent, !.made = @ \cup {id}, !.edited = @ \cup {id}]

Vacated(e, d, id) ==
    /\ d \in Editor /\ d.failed = e.failed /\ d.merged = e.merged
    /\ d.made = e.made \cup {id} /\ d.edited = e.edited \cup {id}
    /\ Present(d.nodes) = Present(e.nodes) \ {id}
    /\ \A n \in Node : View(d.nodes)[n] = IF n = id THEN NewSnapshot ELSE View(e.nodes)[n]

\* A removed node is like one that never was.
LEMMA RemovedView ==
    ASSUME NEW e \in Editor, NEW id \in Node, NEW d, d = Removed(e, id)
    PROVE  Vacated(e, d, id)
<1>1. /\ d.nodes = [e.nodes EXCEPT ![id] = Absent] /\ d.failed = e.failed /\ d.merged = e.merged
      /\ d.made = e.made \cup {id} /\ d.edited = e.edited \cup {id} /\ d \in Editor
  BY DEF Removed, Editor
<1>2. e.nodes \in [Node -> NodeSnapshot \cup {Absent}]
  BY DEF Editor
<1>3. \A n \in Node : d.nodes[n] = IF n = id THEN Absent ELSE e.nodes[n]
  BY <1>1, <1>2
<1>4. QED BY <1>1, <1>3 DEF Present, View, Vacated

\* A removed node whose references are taken from their targets leaves the references sound.
LEMMA PartedTaken ==
    ASSUME NEW e, Sound(e), NEW id \in Present(e.nodes), View(e.nodes)[id].inbound = {},
           NEW refs, refs = View(e.nodes)[id].outbound, NEW c, c = Removed(e, id),
           NEW d, ~d.failed, Parted(c, d, id, refs)
    PROVE  TakenOut(e, d, id)
<1> DEFINE V == View(e.nodes)
           U == View(c.nodes)
           W == View(d.nodes)
<1>1. id \in Node /\ e \in Editor /\ V \in [Node -> NodeSnapshot] /\ EndsMatch(V)
      /\ e.nodes \in [Node -> NodeSnapshot \cup {Absent}]
  BY ViewTyped DEF Present, Sound, Editor
<1>2. /\ c \in Editor /\ c.merged = e.merged
      /\ c.made = e.made \cup {id} /\ c.edited = e.edited \cup {id}
      /\ Present(c.nodes) = Present(e.nodes) \ {id}
      /\ \A n \in Node : U[n] = IF n = id THEN NewSnapshot ELSE V[n]
  <2>1. Vacated(e, c, id)
    BY <1>1, RemovedView
  <2>2. QED BY <2>1 DEF Vacated
<1>3. refs \in SUBSET Reference
  BY <1>1 DEF NodeSnapshot
<1>4. \A r \in refs : r.id \in Present(e.nodes) \ {id}
  <2>1. SUFFICES ASSUME NEW r \in refs PROVE r.id \in Present(e.nodes) /\ r.id # id
    OBVIOUS
  <2>2. r = [id |-> r.id, path |-> r.path] /\ r.id \in Node /\ r.path \in Path
    BY <1>3 DEF Reference
  <2>3. [id |-> id, path |-> r.path] \in V[r.id].inbound
    BY <1>1, <2>2 DEF EndsMatch
  <2>4. V[r.id].inbound # {} /\ r.id # id
    BY <2>3
  <2>5. QED BY <1>1, <2>2, <2>4, ReferredIsThere DEF V
<1>5. /\ d \in Editor /\ Present(d.nodes) = Present(c.nodes) \cup {r.id : r \in refs}
      /\ d.made = c.made \cup {r.id : r \in refs} /\ d.edited = c.edited /\ d.merged = c.merged
      /\ \A n \in Node : W[n].leaf = U[n].leaf /\ W[n].at = U[n].at /\ W[n].fresh = U[n].fresh
      /\ \A n \in Node : W[n].outbound = U[n].outbound
  BY DEF Parted, Relinked
<1>6. \A m \in Node, q \in Path, n \in Node :
          [id |-> n, path |-> q] \in W[m].inbound
            <=> [id |-> n, path |-> q] \in U[m].inbound /\ ~(n = id /\ [id |-> m, path |-> q] \in refs)
  BY DEF Parted
<1>7. NewSnapshot.leaf = Missing /\ NewSnapshot.at = NoData /\ ~NewSnapshot.fresh
      /\ NewSnapshot.inbound = {} /\ NewSnapshot.outbound = {}
  BY DEF NewSnapshot
<1> HIDE DEF U, W
<1>8. Present(d.nodes) = Present(e.nodes) \ {id} /\ e.made \subseteq d.made /\ id \in d.made
  BY <1>2, <1>4, <1>5
<1>9. ASSUME NEW m \in Node, NEW q \in Path, NEW n \in Node
      PROVE  [id |-> n, path |-> q] \in W[m].inbound
               <=> [id |-> n, path |-> q] \in V[m].inbound /\ n # id
  <2>1. [id |-> m, path |-> q] \in V[id].outbound <=> [id |-> id, path |-> q] \in V[m].inbound
    BY <1>1 DEF EndsMatch
  <2>2. CASE m = id
    BY <1>2, <1>6, <1>7, <2>2
  <2>3. CASE m # id
    BY <1>2, <1>6, <2>1, <2>3
  <2>4. QED BY <2>2, <2>3
<1>10. W[id].inbound = {}
  <2>1. W \in [Node -> NodeSnapshot]
    BY <1>5, ViewTyped DEF Editor, W
  <2>2. W[id].inbound \subseteq Reference
    BY <1>1, <2>1 DEF NodeSnapshot
  <2>3. QED BY <1>1, <1>9, <2>2 DEF Reference
<1>11. /\ W[id].leaf = Missing /\ W[id].at = NoData /\ ~W[id].fresh /\ W[id].outbound = {}
       /\ \A n \in Node \ {id} : /\ W[n].leaf = V[n].leaf /\ W[n].at = V[n].at
                                 /\ W[n].fresh = V[n].fresh /\ W[n].outbound = V[n].outbound
  BY <1>1, <1>2, <1>5, <1>7
<1> HIDE DEF V
<1>12. QED BY <1>2, <1>5, <1>8, <1>9, <1>10, <1>11 DEF TakenOut, V, W

\* Such an editor is as sound as it was.
LEMMA TakenSound ==
    ASSUME NEW e, NEW queue, CollectState(e, queue), NEW id \in queue, NEW d, TakenOut(e, d, id)
    PROVE  Sound(d) /\ DataMatches(View(d.nodes)) /\ ListsWhole(View(d.nodes))
<1> DEFINE V == View(e.nodes)
           W == View(d.nodes)
<1>1. /\ Sound(e) /\ DataMatches(V) /\ ListsWhole(V) /\ id \in Present(e.nodes) /\ id \in Node
      /\ V[id].inbound = {}
  BY DEF CollectState, Queued, Present
<1>2. /\ e \in Editor /\ EndsMatch(V) /\ ReferencesLed(V) /\ KindsKept(V) /\ FreshAreFresh(V) /\ EditsTell(e)
  BY <1>1 DEF Sound
<1>3. /\ d \in Editor /\ ~d.failed /\ Present(d.nodes) = Present(e.nodes) \ {id}
      /\ d.edited = e.edited \cup {id} /\ e.made \subseteq d.made /\ id \in d.made
  BY DEF TakenOut
<1>4. /\ W[id].leaf = Missing /\ W[id].at = NoData /\ ~W[id].fresh /\ W[id].outbound = {}
      /\ \A n \in Node \ {id} : /\ W[n].leaf = V[n].leaf /\ W[n].at = V[n].at
                                /\ W[n].fresh = V[n].fresh /\ W[n].outbound = V[n].outbound
  BY DEF TakenOut
<1>5. \A m \in Node, q \in Path, n \in Node :
          [id |-> n, path |-> q] \in W[m].inbound <=> [id |-> n, path |-> q] \in V[m].inbound /\ n # id
  BY DEF TakenOut
<1>6. /\ \A q \in Path : NoData[q] = Missing
      /\ Missing \notin Pointer /\ Missing # Here
  BY ValueAssumption DEF NoData
<1>7. \A n \in Present(d.nodes) : n \in Node /\ n # id /\ d.nodes[n] = W[n] /\ e.nodes[n] = V[n]
  <2>1. /\ d.nodes \in [Node -> NodeSnapshot \cup {Absent}]
        /\ e.nodes \in [Node -> NodeSnapshot \cup {Absent}]
    BY <1>2, <1>3 DEF Editor
  <2>2. /\ \A n \in Present(d.nodes) : d.nodes[n] = W[n] /\ n \in Node
        /\ \A n \in Present(e.nodes) : e.nodes[n] = V[n]
    BY <2>1, ViewTyped
  <2>3. QED BY <1>3, <2>2
<1> HIDE DEF V, W
<1>8. EndsMatch(W)
  <2>1. SUFFICES ASSUME NEW n \in Node, NEW m \in Node, NEW q \in Path
        PROVE  [id |-> m, path |-> q] \in W[n].outbound <=> [id |-> n, path |-> q] \in W[m].inbound
    BY DEF EndsMatch
  <2>2. [id |-> m, path |-> q] \in V[n].outbound <=> [id |-> n, path |-> q] \in V[m].inbound
    BY <1>2 DEF EndsMatch
  <2>3. CASE n = id
    BY <1>4, <1>5, <2>3
  <2>4. CASE n # id
    BY <1>4, <1>5, <2>2, <2>4
  <2>5. QED BY <2>3, <2>4
<1>9. ReferencesLed(W)
  <2>1. SUFFICES ASSUME NEW n \in Node, NEW m \in Node, NEW q \in Path, [id |-> m, path |-> q] \in W[n].outbound
        PROVE  \/ m \in Param /\ Owner(m) = [id |-> n, path |-> q]
               \/ m \in Entity /\ [id |-> n, path |-> q] \in RefLocations
               \/ m \in Entity /\ [id |-> n, path |-> q] = Self(m)
    BY DEF ReferencesLed
  <2>2. [id |-> m, path |-> q] \in V[n].outbound
    BY <1>4, <2>1
  <2>3. QED BY <1>2, <2>2 DEF ReferencesLed
<1>10. KindsKept(W)
  <2>1. SUFFICES ASSUME NEW n \in Node, NEW q \in Path, W[n].at[q] # Missing
        PROVE  \/ W[n].at[q] = Here /\ [id |-> n, path |-> q] \in ListLocations
               \/ W[n].at[q] \in Pointer \cup {Null} /\ [id |-> n, path |-> q] \in RefLocations
    BY DEF KindsKept
  <2>2. W[n].at[q] = V[n].at[q]
    BY <1>4, <1>6, <2>1
  <2>3. QED BY <1>2, <2>1, <2>2 DEF KindsKept
<1>11. \A n \in Node, q \in Path : V[n].at[q] \in Pointer => V[n].at[q].to # id
  <2>1. SUFFICES ASSUME NEW n \in Node, NEW q \in Path, V[n].at[q] \in Pointer, V[n].at[q].to = id PROVE FALSE
    OBVIOUS
  <2>2. id \in Targets(V[n].at[q])
    BY <2>1 DEF Targets
  <2>3. [id |-> id, path |-> q] \in V[n].outbound
    BY <1>1, <2>2 DEF DataMatches, Referred
  <2>4. [id |-> n, path |-> q] \in V[id].inbound
    BY <1>1, <1>2, <2>3 DEF EndsMatch
  <2>5. QED BY <1>1, <2>4
<1>12. FreshAreFresh(W)
  <2>1. SUFFICES ASSUME NEW n \in Node, NEW q \in Path, W[n].at[q] \in Pointer, W[n].at[q].fresh
        PROVE  W[W[n].at[q].to].fresh
    BY DEF FreshAreFresh
  <2>2. W[n].at[q] = V[n].at[q] /\ V[n].at[q].to # id /\ V[n].at[q].to \in Node
    BY <1>4, <1>6, <1>11, <2>1 DEF Pointer, Node
  <2>3. V[V[n].at[q].to].fresh
    BY <1>2, <2>1, <2>2 DEF FreshAreFresh
  <2>4. QED BY <1>4, <2>2, <2>3
<1>13. EditsTell(d)
  <2>1. d.edited \subseteq d.made
    BY <1>2, <1>3 DEF EditsTell
  <2>2. \A n \in Node : W[n].fresh => n \in d.edited
    BY <1>2, <1>3, <1>4 DEF EditsTell, V
  <2>3. \A n \in Present(d.nodes) \ Param : n \in d.edited => d.nodes[n].fresh
    BY <1>2, <1>3, <1>4, <1>7 DEF EditsTell
  <2>4. \A n \in Node \ d.edited : W[n].leaf = View(graph)[n].leaf /\ W[n].at = View(graph)[n].at
    BY <1>2, <1>3, <1>4 DEF EditsTell, V
  <2>5. QED BY <2>1, <2>2, <2>3, <2>4 DEF EditsTell, W
<1>14. Sound(d)
  BY <1>3, <1>8, <1>9, <1>10, <1>12, <1>13 DEF Sound, W
<1>15. DataMatches(W)
  <2>1. SUFFICES ASSUME NEW n \in Node, NEW q \in Path PROVE Referred(W, n, q) = Targets(W[n].at[q])
    BY DEF DataMatches
  <2>2. CASE n = id
    BY <1>4, <1>6, <2>2 DEF Referred, Targets
  <2>3. CASE n # id
    <3>1. Referred(V, n, q) = Targets(V[n].at[q])
      BY <1>1 DEF DataMatches
    <3>2. W[n].outbound = V[n].outbound /\ W[n].at = V[n].at
      BY <1>4, <2>3
    <3>3. QED BY <3>1, <3>2 DEF Referred
  <2>4. QED BY <2>2, <2>3
<1>16. ListsWhole(W)
  <2>1. SUFFICES ASSUME NEW y \in ListLocations PROVE ListWhole(W[y.id].at, y.path)
    BY DEF ListsWhole
  <2>2. y.id \in Node
    BY LocationTyped DEF Reference
  <2>3. CASE y.id = id
    BY <1>4, <1>6, <2>3 DEF ListWhole
  <2>4. CASE y.id # id
    <3>1. W[y.id].at = V[y.id].at
      BY <1>4, <2>2, <2>4
    <3>2. QED BY <1>1, <3>1 DEF ListsWhole
  <2>5. QED BY <2>3, <2>4
<1>17. QED BY <1>14, <1>15, <1>16 DEF W

\* The queue without the node, with those that lost their last reference.
NewOrphans(d, refs) == {n \in {r.id : r \in refs} : d.nodes[n].inbound = {}}

QueueAfter(queue, d, id, refs) == (queue \ {id}) \cup NewOrphans(d, refs)

\* The queue holds the orphans that are left after one is taken out.
LEMMA TakenQueued ==
    ASSUME NEW e, NEW queue, CollectState(e, queue), NEW id \in queue, NEW d, TakenOut(e, d, id),
           NEW refs, refs = View(e.nodes)[id].outbound, NEW left, left = QueueAfter(queue, d, id, refs)
    PROVE  Queued(d, left)
<1> DEFINE V == View(e.nodes)
           W == View(d.nodes)
           P == Present(e.nodes)
           Q == Present(d.nodes)
<1>1. /\ Sound(e) /\ id \in P \ Root /\ V[id].inbound = {} /\ id \in Node
      /\ \A n \in queue : n \in P \ Root /\ V[n].inbound = {}
      /\ \A n \in P : V[n].inbound = {} => n \in queue \/ Apart(V, n)
  BY DEF CollectState, Queued, Present
<1>2. /\ e \in Editor /\ EndsMatch(V) /\ ReferencesLed(V)
  BY <1>1 DEF Sound
<1>3. /\ Q = P \ {id} /\ d \in Editor
      /\ \A n \in Node \ {id} : W[n].leaf = V[n].leaf
      /\ \A m \in Node, q \in Path, n \in Node :
          [id |-> n, path |-> q] \in W[m].inbound <=> [id |-> n, path |-> q] \in V[m].inbound /\ n # id
  BY DEF TakenOut
<1>4. /\ e.nodes \in [Node -> NodeSnapshot \cup {Absent}] /\ d.nodes \in [Node -> NodeSnapshot \cup {Absent}]
      /\ V \in [Node -> NodeSnapshot] /\ W \in [Node -> NodeSnapshot]
  BY <1>2, <1>3, ViewTyped DEF Editor
<1>5. \A n \in Q : n \in Node /\ d.nodes[n] = W[n]
  BY <1>4, ViewTyped
<1>6. \A n \in P : n \in Node
  BY DEF Present
<1>7. refs \in SUBSET Reference /\ \A n \in Node : V[n].inbound \subseteq Reference /\ W[n].inbound \subseteq Reference
  BY <1>1, <1>4 DEF NodeSnapshot
<1>8. \A r \in refs : r.id \in Q \ Root
  <2>1. SUFFICES ASSUME NEW r \in refs PROVE r.id \in P /\ r.id # id /\ r.id \notin Root
    BY <1>3
  <2>2. r = [id |-> r.id, path |-> r.path] /\ r.id \in Node /\ r.path \in Path
    BY <1>7 DEF Reference
  <2>3. [id |-> r.id, path |-> r.path] \in V[id].outbound
    BY <2>2
  <2>4. [id |-> id, path |-> r.path] \in V[r.id].inbound
    BY <1>1, <1>2, <2>2, <2>3 DEF EndsMatch
  <2>5. V[r.id].inbound # {} /\ r.id # id
    BY <1>1, <2>4
  <2>6. r.id \in P
    BY <1>4, <2>2, <2>5, ReferredIsThere
  <2>7. r.id \in Param \/ r.id \in Entity
    BY <1>1, <1>2, <2>2, <2>3 DEF ReferencesLed
  <2>8. QED BY <2>5, <2>6, <2>7, NodeAssumption
<1> HIDE DEF V, W, P, Q
<1>9. ASSUME NEW n \in left PROVE n \in Q \ Root /\ W[n].inbound = {}
  <2>1. CASE n \in queue /\ n # id
    <3>1. n \in P \ Root /\ V[n].inbound = {} /\ n \in Node
      BY <1>1, <1>6, <2>1
    <3>2. W[n].inbound = {}
      <4>1. ASSUME NEW r \in W[n].inbound PROVE FALSE
        <5>1. r = [id |-> r.id, path |-> r.path] /\ r.id \in Node /\ r.path \in Path
          BY <1>7, <3>1, <4>1 DEF Reference
        <5>2. [id |-> r.id, path |-> r.path] \in V[n].inbound
          BY <1>3, <3>1, <4>1, <5>1
        <5>3. QED BY <3>1, <5>2
      <4>2. QED BY <4>1
    <3>3. QED BY <1>3, <2>1, <3>1, <3>2
  <2>2. CASE n \in {r.id : r \in refs} /\ d.nodes[n].inbound = {}
    BY <1>5, <1>8, <2>2
  <2>3. QED BY <1>9, <2>1, <2>2 DEF QueueAfter, NewOrphans
<1>10. ASSUME NEW n \in Q, W[n].inbound = {} PROVE n \in left \/ Apart(W, n)
  <2>1. n \in P /\ n # id /\ n \in Node /\ d.nodes[n].inbound = {}
    BY <1>3, <1>5, <1>10
  <2>2. CASE V[n].inbound = {}
    <3>1. Apart(V, n) => Apart(W, n)
      BY <1>3, <2>1 DEF Apart
    <3>2. QED BY <1>1, <2>1, <2>2, <3>1 DEF QueueAfter
  <2>3. CASE V[n].inbound # {}
    <3>1. PICK r \in V[n].inbound : TRUE
      BY <2>3
    <3>2. r = [id |-> r.id, path |-> r.path] /\ r.id \in Node /\ r.path \in Path
      BY <1>7, <2>1, <3>1 DEF Reference
    <3>3. r.id = id
      BY <1>3, <1>10, <2>1, <3>1, <3>2
    <3>4. [id |-> n, path |-> r.path] \in refs
      <4>1. [id |-> id, path |-> r.path] \in V[n].inbound
        BY <3>1, <3>2, <3>3
      <4>2. [id |-> n, path |-> r.path] \in V[id].outbound
        BY <1>1, <1>2, <2>1, <3>2, <4>1 DEF EndsMatch
      <4>3. QED BY <4>2 DEF V
    <3>5. n \in {t.id : t \in refs}
      <4>1. PICK t : t = [id |-> n, path |-> r.path]
        OBVIOUS
      <4>2. t \in refs /\ t.id = n
        BY <3>4, <4>1
      <4>3. QED BY <4>2
    <3>6. QED BY <2>1, <3>5 DEF QueueAfter, NewOrphans
  <2>4. QED BY <2>2, <2>3
<1>11. QED BY <1>9, <1>10 DEF Queued, W, Q

\* One node less.
OneLess(e, d) == \E id \in Present(e.nodes) : Present(d.nodes) = Present(e.nodes) \ {id}

\* Collecting one orphan keeps the invariant of the collection, and there is one node less.
LEMMA OrphanCollected ==
    ASSUME NEW e, NEW queue, CollectState(e, queue), queue # {},
           NEW y, y = CollectOne([editor |-> e, queue |-> queue])
    PROVE  /\ y = [editor |-> y.editor, queue |-> y.queue] /\ y.editor \in Editor
           /\ ~y.editor.failed => /\ CollectState(y.editor, y.queue)
                                  /\ y.editor.merged = e.merged /\ OneLess(e, y.editor)
                                  /\ \E id \in queue : TakenOut(e, y.editor, id)
<1>1. PICK id : id = CHOOSE n \in queue : TRUE
  OBVIOUS
<1>2. id \in queue
  BY <1>1
<1>3. /\ Sound(e) /\ id \in Present(e.nodes) /\ View(e.nodes)[id].inbound = {} /\ e \in Editor /\ ~e.failed
  BY <1>2 DEF CollectState, Queued, Sound
<1> DEFINE refs == View(e.nodes)[id].outbound
           c == Removed(e, id)
           d == Unlinked(c, id, refs)
           next == {r.id : r \in refs}
<1>4. id \in Node /\ e.nodes[id] # Absent /\ e.nodes[id].outbound = refs
  BY <1>3 DEF Present, View
<1>5. refs \in SUBSET Reference
  <2>1. View(e.nodes) \in [Node -> NodeSnapshot]
    BY <1>3, ViewTyped DEF Editor
  <2>2. QED BY <1>4, <2>1 DEF NodeSnapshot
<1>6. y = [editor |-> d, queue |-> (queue \ {id}) \cup IF d.failed THEN {} ELSE NewOrphans(d, refs)]
  <2>1. PICK m : m = [editor |-> e, queue |-> queue]
    OBVIOUS
  <2>2. m.editor = e /\ m.queue = queue /\ y = CollectOne(m)
    BY <2>1
  <2>3. CollectOne(m) =
          IF m.queue = {} \/ m.editor.failed THEN m
          ELSE LET i    == CHOOSE n \in m.queue : TRUE
                   node == m.editor.nodes[i]
                   left == Unlinked(Removed(m.editor, i), i, node.outbound)
               IN  IF node = Absent THEN [m EXCEPT !.queue = @ \ {i}]
                   ELSE [editor |-> left,
                         queue  |-> (m.queue \ {i}) \cup
                                      IF left.failed THEN {} ELSE NewOrphans(left, node.outbound)]
    BY DEF CollectOne, Removed, Unlinked, NewOrphans
  <2> HIDE DEF c, refs
  <2>4. y = [editor |-> Unlinked(Removed(e, id), id, refs),
             queue  |-> (queue \ {id}) \cup
                IF Unlinked(Removed(e, id), id, refs).failed THEN {}
                ELSE NewOrphans(Unlinked(Removed(e, id), id, refs), refs)]
    BY <1>1, <1>3, <1>4, <2>2, <2>3, ZenonT(30)
  <2>5. QED BY <2>4 DEF c
<1>7. c \in Editor /\ ~c.failed
  BY <1>3, <1>4, RemovedView DEF Vacated
<1>8. d \in Editor /\ (~d.failed => Parted(c, d, id, refs))
  <2> HIDE DEF c, refs
  <2>1. QED BY <1>4, <1>5, <1>7, AllParted
<1>9. /\ y.editor = d /\ y = [editor |-> y.editor, queue |-> y.queue]
      /\ ~d.failed => y.queue = QueueAfter(queue, d, id, refs)
  BY <1>6 DEF QueueAfter, NewOrphans
<1>10. ASSUME ~d.failed
       PROVE  /\ CollectState(d, y.queue) /\ d.merged = e.merged /\ OneLess(e, d)
              /\ TakenOut(e, d, id)
  <2>1. TakenOut(e, d, id)
    <3>1. PICK f : f = d
      OBVIOUS
    <3> HIDE DEF d
    <3>2. ~f.failed /\ Parted(c, f, id, refs)
      BY <1>8, <1>10, <3>1
    <3>3. TakenOut(e, f, id)
      BY <1>3, <3>2, PartedTaken
    <3>4. QED BY <3>1, <3>3
  <2> HIDE DEF d
  <2>2. Sound(d) /\ DataMatches(View(d.nodes)) /\ ListsWhole(View(d.nodes))
    BY <1>2, <2>1, TakenSound
  <2>3. PICK left : left = y.queue
    OBVIOUS
  <2>4. left = QueueAfter(queue, d, id, refs)
    BY <1>9, <1>10, <2>3
  <2>5. Queued(d, left)
    BY <1>2, <2>1, <2>4, TakenQueued
  <2>6. d.merged = e.merged /\ OneLess(e, d)
    BY <1>3, <2>1 DEF TakenOut, OneLess
  <2>7. QED BY <2>1, <2>2, <2>3, <2>5, <2>6 DEF CollectState
<1> HIDE DEF d
<1>11. QED BY <1>2, <1>8, <1>9, <1>10

\* After k rounds: there are no orphans, or k nodes less.
CollectedTo(m, k, merged) ==
    /\ m = [editor |-> m.editor, queue |-> m.queue] /\ m.editor \in Editor
    /\ ~m.editor.failed =>
          /\ CollectState(m.editor, m.queue) /\ m.editor.merged = merged
          /\ m.queue = {} \/ Cardinality(Present(m.editor.nodes)) <= Cardinality(Node) - k

\* The nodes that are present are finitely many, and fewer without one of them.
LEMMA NodesCounted ==
    ASSUME NEW nodes
    PROVE  /\ Present(nodes) \in SUBSET Node /\ Cardinality(Node) \in Nat
           /\ Cardinality(Present(nodes)) \in Nat /\ Cardinality(Present(nodes)) <= Cardinality(Node)
           /\ \A id \in Present(nodes) : /\ Cardinality(Present(nodes) \ {id}) = Cardinality(Present(nodes)) - 1
                                         /\ Cardinality(Present(nodes)) > 0
<1>1. Present(nodes) \in SUBSET Node /\ IsFiniteSet(Node)
  BY NodeAssumption DEF Present
<1>2. /\ Cardinality(Present(nodes)) \in Nat /\ Cardinality(Present(nodes)) <= Cardinality(Node)
      /\ Cardinality(Present(nodes)) = 0 <=> Present(nodes) = {}
      /\ \A id \in Present(nodes) : Cardinality(Present(nodes) \ {id}) = Cardinality(Present(nodes)) - 1
  BY <1>1, Parts
<1>3. Cardinality(Node) \in Nat
  BY NodeAssumption, FS_CardinalityType
<1>4. QED BY <1>1, <1>2, <1>3

\* One step of the collection: the queue is empty, or there are fewer nodes.
LEMMA CollectDone ==
    ASSUME NEW k \in Nat \ {0}, NEW l, l = k - 1, NEW m, NEW merged, CollectedTo(m, l, merged),
           NEW y, y = CollectOne(m)
    PROVE  CollectedTo(y, k, merged)
<1> DEFINE e == m.editor
           queue == m.queue
           N == Cardinality(Node)
<1>1. m = [editor |-> e, queue |-> queue] /\ e \in Editor /\ l \in Nat /\ l = k - 1
  BY DEF CollectedTo
<1>2. CASE e.failed \/ queue = {}
  <2>1. y = m
    BY <1>2 DEF CollectOne
  <2>2. QED BY <1>2, <2>1 DEF CollectedTo
<1>3. CASE ~e.failed /\ queue # {}
  <2>1. /\ CollectState(e, queue) /\ e.merged = merged /\ Cardinality(Present(e.nodes)) <= N - l
    BY <1>3 DEF CollectedTo
  <2> HIDE DEF e, queue
  <2>2. y = CollectOne([editor |-> e, queue |-> queue])
    BY <1>1
  <2>3. /\ y = [editor |-> y.editor, queue |-> y.queue] /\ y.editor \in Editor
        /\ ~y.editor.failed => /\ CollectState(y.editor, y.queue)
                               /\ y.editor.merged = e.merged /\ OneLess(e, y.editor)
    BY <1>3, <2>1, <2>2, OrphanCollected
  <2>4. ASSUME ~y.editor.failed PROVE Cardinality(Present(y.editor.nodes)) <= N - k
    <3>1. PICK id \in Present(e.nodes) : Present(y.editor.nodes) = Present(e.nodes) \ {id}
      BY <2>3, <2>4 DEF OneLess
    <3>2. /\ Cardinality(Present(e.nodes) \ {id}) = Cardinality(Present(e.nodes)) - 1
          /\ Cardinality(Present(e.nodes)) \in Nat /\ N \in Nat
      BY NodesCounted
    <3>3. Cardinality(Present(y.editor.nodes)) = Cardinality(Present(e.nodes)) - 1
      BY <3>1, <3>2
    <3>4. Cardinality(Present(e.nodes)) <= N - l
      BY <2>1
    <3>5. PICK a, b : a = Cardinality(Present(e.nodes)) /\ b = Cardinality(Present(y.editor.nodes))
      OBVIOUS
    <3> HIDE DEF N
    <3>6. a \in Nat /\ N \in Nat /\ b = a - 1 /\ a <= N - l
      BY <3>2, <3>3, <3>4, <3>5
    <3>7. b <= N - k
      BY <1>1, <3>6
    <3>8. QED BY <3>5, <3>7
  <2>5. QED BY <2>1, <2>3, <2>4 DEF CollectedTo
<1>4. QED BY <1>2, <1>3

\* Garbage collection leaves no orphans.
LEMMA OrphansRemoved ==
    ASSUME NEW e \in Editor, NEW orphans, ~e.failed => CollectState(e, orphans),
           NEW d, d = RemoveOrphanedNodes(e, orphans)
    PROVE  d \in Editor /\ (~d.failed => CollectState(d, {}) /\ d.merged = e.merged)
<1> DEFINE base == [editor |-> e, queue |-> orphans]
           N == Cardinality(Node)
           n == 2 * N
           merged == e.merged
<1>1. N \in Nat /\ n \in Nat
  BY NodesCounted
<1>2. d = Swept(base, n).editor
  BY DEF RemoveOrphanedNodes, Swept
<1>3. PICK g : /\ g[0] = base
               /\ \A k \in 1..n : g[k] = CollectOne(g[k - 1])
               /\ Swept(base, n) = g[n]
  <2> HIDE DEF base, n
  <2>1. QED BY <1>1, CollectSteps
<1> DEFINE T == {k \in 0..n : CollectedTo(g[k], k, merged)}
<1>4. 0 \in T
  <2>1. base = [editor |-> base.editor, queue |-> base.queue] /\ base.editor = e /\ base.queue = orphans
    OBVIOUS
  <2>2. Cardinality(Present(e.nodes)) <= N - 0
    <3>1. Cardinality(Present(e.nodes)) <= N
      BY NodesCounted
    <3> HIDE DEF N
    <3>2. QED BY <1>1, <3>1
  <2> HIDE DEF base
  <2>3. CollectedTo(base, 0, merged)
    BY <2>1, <2>2 DEF CollectedTo
  <2> HIDE DEF n
  <2>4. QED BY <1>1, <1>3, <2>3
<1>5. ASSUME NEW k \in 1..n, k - 1 \in T PROVE k \in T
  <2> DEFINE v == g[k - 1]
             l == k - 1
             y == g[k]
  <2>1. CollectedTo(v, l, merged) /\ y = CollectOne(v) /\ k \in Nat \ {0} /\ l = k - 1 /\ k \in 0..n
    BY <1>1, <1>3, <1>5
  <2> HIDE DEF v, l, n, y, merged
  <2>2. CollectedTo(y, k, merged)
    BY <2>1, CollectDone
  <2>3. QED BY <2>1, <2>2 DEF y
<1>6. n \in T
  <2> HIDE DEF T, n
  <2>1. \A k \in 0..n : k \in T
    BY <1>1, <1>4, <1>5, UpTo
  <2>2. QED BY <1>1, <2>1
<1>7. CollectedTo(g[n], n, merged) /\ d = g[n].editor
  BY <1>2, <1>3, <1>6
<1> HIDE DEF n, merged
<1>8. d \in Editor
  BY <1>7 DEF CollectedTo
<1>9. ASSUME ~d.failed PROVE CollectState(d, {}) /\ d.merged = e.merged
  <2>1. /\ CollectState(d, g[n].queue) /\ d.merged = merged
        /\ g[n].queue = {} \/ Cardinality(Present(d.nodes)) <= N - n
    BY <1>7, <1>9 DEF CollectedTo
  <2>2. g[n].queue = {}
    <3>1. SUFFICES ASSUME NEW id \in g[n].queue PROVE FALSE
      OBVIOUS
    <3>2. id \in Present(d.nodes)
      BY <2>1 DEF CollectState, Queued
    <3>3. Cardinality(Present(d.nodes)) > 0 /\ Cardinality(Present(d.nodes)) \in Nat
      BY <3>2, NodesCounted
    <3> HIDE DEF N
    <3>4. N - n <= 0
      BY <1>1 DEF n
    <3>5. QED BY <1>1, <2>1, <3>1, <3>3, <3>4
  <2>3. QED BY <2>1, <2>2 DEF merged
<1>10. QED BY <1>8, <1>9

\* Merging a payload keeps graphs what they are.
LEMMA PayloadMerged ==
    ASSUME NEW p \in Payload, NEW e \in Editor, ~e.failed, GraphInv(e.nodes), EditsTell(e),
           Starts(e, p), NEW d, d = Merge(e, p)
    PROVE  d.failed \/ (d \in Editor /\ ~d.failed /\ GraphInv(d.nodes) /\ EditsTell(d))
<1>1. PICK w : w = Walked([editor |-> e, edits |-> <<>>], p)
  OBVIOUS
<1>2. PICK m : m = EditsDone([editor |-> w.editor, orphans |-> {}], w.edits)
  OBVIOUS
<1>3. PICK c : c = RemoveOrphanedNodes(m.editor, m.orphans)
  OBVIOUS
<1>4. d = [c EXCEPT !.merged = Append(@, p)]
  BY <1>1, <1>2, <1>3 DEF Merge, Walked, EditsDone
<1>5. PICK merged : merged = e.merged
  OBVIOUS
<1>6. WalkedTo(w, p, Len(p), merged) /\ w.editor \in Editor
  BY <1>1, <1>5, PayloadWalked
<1>7. EditedTo(m, w.edits, Len(w.edits), p, merged)
  BY <1>2, <1>6, PayloadEdited
<1>8. m.editor \in Editor /\ (~m.editor.failed => CollectState(m.editor, m.orphans))
  <2>1. Rest(w.edits, Len(w.edits)) = {}
    BY <1>6, AllRest DEF WalkedTo
  <2>2. m.editor \in Editor /\ (~m.editor.failed => EditState(m.editor, m.orphans, {}, p))
    BY <1>7, <2>1 DEF EditedTo
  <2>3. QED BY <2>2, EditsEnd
<1>9. c \in Editor /\ (~c.failed => CollectState(c, {}))
  BY <1>3, <1>8, OrphansRemoved
<1>10. /\ d.failed = c.failed /\ d.nodes = c.nodes /\ d.made = c.made /\ d.edited = c.edited
       /\ d \in Editor
  <2>1. c.merged \in Seq(Payload)
    BY <1>9 DEF Editor
  <2>2. Append(c.merged, p) \in Seq(Payload)
    BY <2>1
  <2>3. QED BY <1>4, <1>9, <2>2 DEF Editor
<1>11. ASSUME ~d.failed PROVE GraphInv(d.nodes) /\ EditsTell(d)
  <2>1. CollectState(c, {}) /\ Sound(c)
    BY <1>9, <1>10, <1>11 DEF CollectState
  <2>2. OrphansGone(c.nodes)
    <3>1. \A n \in Present(c.nodes) :
             /\ View(c.nodes)[n].inbound # {} \/ Apart(View(c.nodes), n)
             /\ View(c.nodes)[n] = c.nodes[n]
      BY <1>9, <2>1, ViewTyped DEF CollectState, Queued, Editor
    <3>2. QED BY <3>1 DEF OrphansGone, Apart
  <2>3. GraphInv(c.nodes) /\ EditsTell(c)
    BY <2>1, <2>2 DEF CollectState, Sound, GraphInv
  <2>4. QED BY <1>10, <2>3 DEF EditsTell
<1>12. QED BY <1>10, <1>11

-----------------------------------------------------------------------------
(* The commit.                                                             *)

\* Data that is set in an editor that fails.
LEMMA FailedSet ==
    ASSUME NEW e \in Editor, NEW n \in Node, NEW at
    PROVE  /\ SetData(e, n, at).failed => SetData(e, n, at) \in Editor
           /\ ~SetData(e, n, at).failed => ~e.failed
<1> DEFINE new == EnsureNewSnapshot(e, n)
           c == SetData(e, n, at)
<1>1. c = IF new.failed THEN new ELSE [new EXCEPT !.nodes[n].at = at, !.nodes[n].fresh = TRUE]
  BY DEF SetData
<1>2. new \in Editor
  BY StaysEditor
<1>3. e.failed => new.failed
  BY DEF EnsureNewSnapshot, Editor
<1> HIDE DEF new
<1>4. CASE new.failed
  BY <1>1, <1>2, <1>4
<1>5. CASE ~new.failed
  <2>1. c.failed = new.failed
    BY <1>1, <1>2, <1>5 DEF Editor
  <2>2. QED BY <1>2, <1>3, <1>5, <2>1
<1>6. QED BY <1>4, <1>5

\* A set of references that are to be pointed to new data, each from where
\* there is a pointer.
Points(e, s) ==
    \A x \in s :
        LET n == x.from.id
            q == x.from.path
        IN  /\ n \in Present(e.nodes) /\ q \in Path /\ [id |-> n, path |-> q] \in RefLocations
            /\ x.to \in Entity
            /\ View(e.nodes)[n].at[q] \in Pointer /\ View(e.nodes)[n].at[q].to = x.to

FromNode(s, n)  == \E x \in s : x.from.id = n
FromPath(s, n, q) == \E x \in s : x.from.id = n /\ x.from.path = q

\* d is e with those pointers new.
RepointedTo(e, d, s) ==
    LET V == View(e.nodes)
        W == View(d.nodes)
    IN  /\ Present(d.nodes) = Present(e.nodes)
        /\ \A n \in Node : /\ W[n].leaf = V[n].leaf
                           /\ W[n].inbound = V[n].inbound /\ W[n].outbound = V[n].outbound
                           /\ W[n].fresh <=> V[n].fresh \/ FromNode(s, n)
        /\ \A n \in Node, q \in Path :
              W[n].at[q] = IF FromPath(s, n, q) THEN [to |-> V[n].at[q].to, fresh |-> TRUE] ELSE V[n].at[q]

\* The data is of the same kinds, and whole lists remain so.
LEMMA RepointedKinds ==
    ASSUME NEW e \in Editor, KindsKept(View(e.nodes)), ListsWhole(View(e.nodes)), NEW s, Points(e, s),
           NEW d \in Editor, RepointedTo(e, d, s), NEW n \in Node
    PROVE  /\ Kinds(View(d.nodes)[n].at, n)
           /\ \A q \in Path : [id |-> n, path |-> q] \in RefLocations /\ View(d.nodes)[n].at[q] # Missing
                 => Rooted(View(d.nodes)[n].at, q)
<1> DEFINE V == View(e.nodes)
           W == View(d.nodes)
<1>1. V \in [Node -> NodeSnapshot] /\ W \in [Node -> NodeSnapshot]
  BY ViewTyped DEF Editor
<1>2. \A q \in Path :
         W[n].at[q] = IF FromPath(s, n, q) THEN [to |-> V[n].at[q].to, fresh |-> TRUE] ELSE V[n].at[q]
  BY DEF RepointedTo
<1>3. \A q \in Path : FromPath(s, n, q) => /\ [id |-> n, path |-> q] \in RefLocations
                                           /\ V[n].at[q] \in Pointer
  BY DEF FromPath, Points
<1>4. Kinds(V[n].at, n)
  BY <1>1, KindsOf
<1> HIDE DEF V, W
<1>5. ASSUME NEW q \in Path
      PROVE  \/ W[n].at[q] = V[n].at[q]
             \/ W[n].at[q] \in Pointer /\ V[n].at[q] \in Pointer /\ [id |-> n, path |-> q] \in RefLocations
  <2>1. CASE FromPath(s, n, q)
    <3>1. V[n].at[q] \in Pointer /\ [id |-> n, path |-> q] \in RefLocations
      BY <1>3, <1>5, <2>1
    <3>2. W[n].at[q] = [to |-> V[n].at[q].to, fresh |-> TRUE]
      BY <1>2, <1>5, <2>1
    <3>3. W[n].at[q] \in Pointer
      BY <3>1, <3>2 DEF Pointer
    <3>4. QED BY <3>1, <3>3
  <2>2. CASE ~FromPath(s, n, q)
    BY <1>2, <1>5, <2>2
  <2>3. QED BY <2>1, <2>2
<1>6. Kinds(W[n].at, n)
  BY <1>4, <1>5 DEF Kinds
<1>7. ASSUME NEW q \in Path, [id |-> n, path |-> q] \in RefLocations, W[n].at[q] # Missing,
             NEW g \in Path \ {<<>>}, IsStrictPrefix(g, q)
      PROVE  W[n].at[g] = Here
  <2>1. V[n].at[q] # Missing
    BY <1>5, <1>7, ValueAssumption
  <2>2. PICK y : y = [id |-> n, path |-> g]
    OBVIOUS
  <2>3. y \in ListLocations /\ y.id = n /\ y.path = g
    BY <1>7, <2>2, LocationKinds
  <2>4. ListWhole(V[y.id].at, y.path)
    BY <2>3 DEF ListsWhole, V
  <2>5. V[n].at[g] = Here
    BY <1>7, <2>1, <2>3, <2>4 DEF ListWhole
  <2>6. QED BY <1>5, <2>5, ValueAssumption
<1>8. QED BY <1>6, <1>7 DEF Rooted, W

\* One more referrer points to the new version.
LEMMA RepointOne ==
    ASSUME NEW e \in Editor, KindsKept(View(e.nodes)), ListsWhole(View(e.nodes)), NEW s, Points(e, s),
           NEW x \in s, NEW t, t = s \ {x}, NEW d \in Editor, ~d.failed => RepointedTo(e, d, t),
           NEW f, f = RebuildValue(d, x.from.id, x.from.path, [to |-> x.to, fresh |-> TRUE])
    PROVE  f \in Editor /\ (~f.failed => RepointedTo(e, f, s))
<1> DEFINE n == x.from.id
           q == x.from.path
           v == [to |-> x.to, fresh |-> TRUE]
           V == View(e.nodes)
           W == View(d.nodes)
           U == View(f.nodes)
           at == DeepSet(NodeData(d, n), Original(n), q, v)
<1>1. /\ n \in Present(e.nodes) /\ n \in Node /\ q \in Path /\ [id |-> n, path |-> q] \in RefLocations
      /\ x.to \in Entity /\ V[n].at[q] \in Pointer /\ V[n].at[q].to = x.to
  BY DEF Points, Present
<1>2. f = SetData(d, n, at)
  BY DEF RebuildValue
<1>3. (f.failed => f \in Editor) /\ (~f.failed => ~d.failed)
  <2> HIDE DEF at, n
  <2>1. QED BY <1>1, <1>2, FailedSet
<1>4. SUFFICES ASSUME ~f.failed PROVE f \in Editor /\ RepointedTo(e, f, s)
  BY <1>3
<1>5. RepointedTo(e, d, t) /\ Points(e, t)
  BY <1>3, <1>4 DEF Points
<1>6. W \in [Node -> NodeSnapshot] /\ NodeData(d, n) = W[n].at /\ W[n].at \in [Path -> Value]
  BY <1>1, ViewTyped, DataOf DEF Editor
<1>7. v \in Value /\ v = [to |-> V[n].at[q].to, fresh |-> TRUE] /\ v \in Pointer
  BY <1>1 DEF Value, Pointer
<1>8. at = [W[n].at EXCEPT ![q] = v]
  <2>1. Kinds(W[n].at, n)
    <3> HIDE DEF n
    <3>1. QED BY <1>1, <1>5, RepointedKinds
  <2>2. W[n].at[q] # Missing
    <3>1. W[n].at[q] = IF FromPath(t, n, q) THEN v ELSE V[n].at[q]
      BY <1>1, <1>5, <1>7 DEF RepointedTo
    <3>2. QED BY <1>1, <1>7, <3>1, ValueAssumption
  <2>3. Rooted(W[n].at, q)
    <3> HIDE DEF n, q
    <3>1. QED BY <1>1, <1>5, <2>2, RepointedKinds
  <2> HIDE DEF v, n, q, W
  <2>4. QED BY <1>1, <1>6, <2>1, <2>3, DeepSetReference
<1> HIDE DEF v
<1>9. at \in [Path -> Value]
  BY <1>1, <1>6, <1>7, <1>8
<1> HIDE DEF at
<1>10. Moved(d, f, WithData(W, n, at), {n}, {})
  <2> HIDE DEF n
  <2>1. QED BY <1>1, <1>2, <1>4, <1>9, SetDataMoves, SMTT(30)
<1>11. /\ f \in Editor /\ U = [W EXCEPT ![n] = [W[n] EXCEPT !.at = at, !.fresh = TRUE]]
       /\ Present(f.nodes) = Present(d.nodes) \cup {n}
  BY <1>10 DEF Moved, WithData
<1>12. \A m \in Node : /\ U[m].leaf = W[m].leaf /\ U[m].inbound = W[m].inbound /\ U[m].outbound = W[m].outbound
                       /\ U[m].fresh <=> (m = n \/ W[m].fresh)
                       /\ U[m].at = IF m = n THEN at ELSE W[m].at
  <2>1. W[n] \in NodeSnapshot
    BY <1>1, <1>6
  <2> HIDE DEF U, W, n
  <2>2. PICK u : u = [W[n] EXCEPT !.at = at, !.fresh = TRUE]
    OBVIOUS
  <2>3. /\ u.leaf = W[n].leaf /\ u.inbound = W[n].inbound /\ u.outbound = W[n].outbound
        /\ u.fresh /\ u.at = at
    BY <2>1, <2>2 DEF NodeSnapshot
  <2>4. \A m \in Node : U[m] = IF m = n THEN u ELSE W[m]
    BY <1>1, <1>6, <1>11, <2>2
  <2>5. QED BY <2>3, <2>4
<1>13. /\ Present(d.nodes) = Present(e.nodes)
       /\ \A m \in Node : /\ W[m].leaf = V[m].leaf
                          /\ W[m].inbound = V[m].inbound /\ W[m].outbound = V[m].outbound
                          /\ W[m].fresh <=> V[m].fresh \/ FromNode(t, m)
       /\ \A m \in Node, g \in Path :
             W[m].at[g] = IF FromPath(t, m, g) THEN [to |-> V[m].at[g].to, fresh |-> TRUE] ELSE V[m].at[g]
  BY <1>5 DEF RepointedTo
<1>14. /\ \A m : FromNode(s, m) <=> FromNode(t, m) \/ m = n
       /\ \A m, g : FromPath(s, m, g) <=> FromPath(t, m, g) \/ (m = n /\ g = q)
  BY DEF FromNode, FromPath
<1> HIDE DEF U, V, W, n, q
<1>15. \A m \in Node : U[m].fresh <=> V[m].fresh \/ FromNode(s, m)
  BY <1>12, <1>13, <1>14
<1>16. ASSUME NEW m \in Node, NEW g \in Path
       PROVE  U[m].at[g] = IF FromPath(s, m, g) THEN [to |-> V[m].at[g].to, fresh |-> TRUE] ELSE V[m].at[g]
  <2>1. CASE m = n /\ g = q
    <3>1. U[m].at[g] = v
      BY <1>1, <1>6, <1>8, <1>12, <2>1
    <3>2. QED BY <1>7, <1>14, <2>1, <3>1
  <2>2. CASE ~(m = n /\ g = q)
    <3>1. U[m].at[g] = W[m].at[g]
      BY <1>1, <1>6, <1>8, <1>12, <2>2
    <3>2. QED BY <1>13, <1>14, <2>2, <3>1, ZenonT(30)
  <2>3. QED BY <2>1, <2>2
<1>17. Present(f.nodes) = Present(e.nodes)
  BY <1>1, <1>11, <1>13
<1>18. ASSUME NEW m \in Node
       PROVE  /\ U[m].leaf = V[m].leaf
              /\ U[m].inbound = V[m].inbound /\ U[m].outbound = V[m].outbound
  BY <1>12, <1>13
<1>19. RepointedTo(e, f, s)
  BY <1>15, <1>16, <1>17, <1>18 DEF RepointedTo, U, V
<1>20. QED BY <1>11, <1>19

\* All referrers point to the new versions.
LEMMA AllRepointed ==
    ASSUME NEW e \in Editor, ~e.failed, KindsKept(View(e.nodes)), ListsWhole(View(e.nodes)),
           NEW S, IsFiniteSet(S), Points(e, S), NEW d, d = Repointed(e, S)
    PROVE  d \in Editor /\ (~d.failed => RepointedTo(e, d, S))
<1>1. PICK h : Repoints(h, e, S) /\ Repointed(e, S) = h[S]
  BY RebuildSteps
<1> DEFINE Ok(s) == h[s] \in Editor /\ (~h[s].failed => RepointedTo(e, h[s], s))
           T == {k \in Nat : \A s \in SUBSET S : Cardinality(s) = k => Ok(s)}
<1>2. 0 \in T
  <2>1. RepointedTo(e, e, {})
    BY DEF RepointedTo, FromNode, FromPath
  <2>2. \A s \in SUBSET S : Cardinality(s) = 0 => s = {}
    BY Parts
  <2>3. QED BY <1>1, <2>1, <2>2 DEF Repoints
<1>3. ASSUME NEW k \in Nat \ {0}, k - 1 \in T PROVE k \in T
  <2>1. SUFFICES ASSUME NEW s \in SUBSET S, Cardinality(s) = k PROVE Ok(s)
    OBVIOUS
  <2>2. s # {} /\ \A x \in s : Cardinality(s \ {x}) = k - 1 /\ s \ {x} \in SUBSET S
    BY <2>1, Parts
  <2>3. PICK x \in s : h[s] = RebuildValue(h[s \ {x}], x.from.id, x.from.path, [to |-> x.to, fresh |-> TRUE])
    BY <1>1, <2>2 DEF Repoints
  <2>4. PICK t : t = s \ {x}
    OBVIOUS
  <2>5. Ok(t)
    BY <1>3, <2>2, <2>4
  <2>6. PICK c, f : c = h[t] /\ f = h[s]
    OBVIOUS
  <2>7. /\ c \in Editor /\ (~c.failed => RepointedTo(e, c, t)) /\ Points(e, s)
        /\ f = RebuildValue(c, x.from.id, x.from.path, [to |-> x.to, fresh |-> TRUE])
    BY <2>3, <2>4, <2>5, <2>6 DEF Points
  <2> HIDE DEF Ok, T
  <2>8. f \in Editor /\ (~f.failed => RepointedTo(e, f, s))
    BY <2>4, <2>7, RepointOne
  <2>9. QED BY <2>6, <2>8 DEF Ok
<1>4. Ok(S)
  <2>1. Cardinality(S) \in Nat
    BY Parts
  <2>2. Cardinality(S) \in T
    <3> HIDE DEF T
    <3>1. \A k \in Nat : k \in T
      BY <1>2, <1>3, AllNaturals
    <3>2. QED BY <2>1, <3>1
  <2>3. QED BY <2>2
<1>5. QED BY <1>1, <1>4

-----------------------------------------------------------------------------
(* The nodes whose references a commit follows.                            *)

\* What is reached in some rounds: all that is edited, and nodes that refer to
\* what is reached.
ReachedSet(e, S) ==
    /\ S \subseteq Node
    /\ e.edited \subseteq S
    /\ \A m \in S : m \in e.edited
                    \/ \E n \in S \cap Entities(e) : \E r \in e.nodes[n].inbound \ {Self(n)} : r.id = m

Closed(e, S) == Referrers(e, S) \subseteq S

\* One round of the walk over the referrers stays among the nodes that are reached, and ends when nothing is new.
LEMMA ReachedOne ==
    ASSUME NEW e \in Editor, NEW S, ReachedSet(e, S), NEW T, T = S \cup Referrers(e, S)
    PROVE  /\ ReachedSet(e, T) /\ S \subseteq T
           /\ Closed(e, S) => T = S
<1>1. ASSUME NEW m \in Referrers(e, S)
      PROVE  m \in Node /\ (m \notin S =>
                \E n \in S \cap Entities(e) : \E r \in e.nodes[n].inbound \ {Self(n)} : r.id = m)
  <2>1. PICK n \in S \cap Entities(e) : \E r \in e.nodes[n].inbound : r.id = m
    BY <1>1 DEF Referrers
  <2>2. PICK r \in e.nodes[n].inbound : r.id = m
    BY <2>1
  <2>3. e.nodes[n] \in NodeSnapshot
    BY <2>1 DEF Entities, Present, Editor
  <2>4. r \in Reference
    BY <2>2, <2>3 DEF NodeSnapshot
  <2>5. m \in Node
    BY <2>2, <2>4 DEF Reference
  <2>6. m \notin S => r \in e.nodes[n].inbound \ {Self(n)}
    BY <2>1, <2>2 DEF Self
  <2>7. QED BY <2>1, <2>2, <2>5, <2>6
<1>2. ReachedSet(e, T)
  BY <1>1 DEF ReachedSet
<1>3. QED BY <1>2 DEF Closed

\* After as many rounds as there are nodes, the nodes that are reached are closed under referrers.
LEMMA AllReached ==
    ASSUME NEW e \in Editor, NEW R, R = ReachedIn(e.edited, e, Cardinality(Node))
    PROVE  ReachedSet(e, R) /\ Closed(e, R)
<1> DEFINE N == Cardinality(Node)
<1>1. IsFiniteSet(Node) /\ N \in Nat
  BY NodeAssumption, FS_CardinalityType
<1>2. PICK g : /\ g[0] = e.edited
               /\ \A k \in 1..N : g[k] = g[k - 1] \cup Referrers(e, g[k - 1])
               /\ ReachedIn(e.edited, e, N) = g[N]
  BY <1>1, ReachSteps
<1> DEFINE Ok(k) == ReachedSet(e, g[k]) /\ (Closed(e, g[k]) \/ Cardinality(g[k]) >= k)
           T == {k \in 0..N : Ok(k)}
<1>3. 0 \in T
  <2>1. e.edited \subseteq Node
    BY DEF Editor
  <2>2. Cardinality(e.edited) \in Nat
    BY <1>1, <2>1, Parts
  <2>3. QED BY <1>1, <1>2, <2>1, <2>2 DEF ReachedSet
<1>4. ASSUME NEW k \in 1..N, k - 1 \in T PROVE k \in T
  <2>1. PICK S, S2 : S = g[k - 1] /\ S2 = g[k]
    OBVIOUS
  <2>2. ReachedSet(e, S) /\ (Closed(e, S) \/ Cardinality(S) >= k - 1) /\ S2 = S \cup Referrers(e, S)
    BY <1>2, <1>4, <2>1
  <2>3. ReachedSet(e, S2) /\ S \subseteq S2 /\ (Closed(e, S) => S2 = S)
    BY <2>2, ReachedOne, ZenonT(30)
  <2>4. Closed(e, S2) \/ Cardinality(S2) >= k
    <3>1. CASE Closed(e, S)
      BY <2>3, <3>1
    <3>2. CASE ~Closed(e, S)
      <4>1. S2 # S
        BY <2>2, <3>2 DEF Closed
      <4>2. S2 \in SUBSET Node /\ S \in SUBSET S2
        BY <2>3 DEF ReachedSet
      <4>3. IsFiniteSet(S2) /\ Cardinality(S2) \in Nat /\ Cardinality(S) \in Nat
        BY <1>1, <4>2, Parts
      <4>4. Cardinality(S) <= Cardinality(S2) /\ Cardinality(S) # Cardinality(S2)
        BY <4>1, <4>2, <4>3, FS_Subset
      <4>5. QED BY <1>1, <2>2, <3>2, <4>3, <4>4
    <3>3. QED BY <3>1, <3>2
  <2>5. QED BY <2>1, <2>3, <2>4
<1>5. Ok(N)
  <2> HIDE DEF T
  <2>1. \A k \in 0..N : k \in T
    BY <1>1, <1>3, <1>4, UpTo
  <2> USE DEF T
  <2>2. QED BY <1>1, <2>1
<1>6. ReachedSet(e, R) /\ (Closed(e, R) \/ Cardinality(R) >= N)
  BY <1>2, <1>5
<1>7. CASE Cardinality(R) >= N
  <2>1. R \in SUBSET Node
    BY <1>6 DEF ReachedSet
  <2>2. Cardinality(R) <= N /\ Cardinality(R) \in Nat
    BY <1>1, <2>1, Parts
  <2>3. R = Node
    BY <1>1, <1>7, <2>1, <2>2, FS_Subset
  <2>4. PICK Z : Z = R \cup Referrers(e, R)
    OBVIOUS
  <2>5. ReachedSet(e, Z)
    BY <1>6, <2>4, ReachedOne
  <2>6. QED BY <1>6, <2>3, <2>4, <2>5 DEF ReachedSet, Closed
<1>8. QED BY <1>6, <1>7

\* The references that a commit points to new data.
Back(e) == UNION {{[to |-> n, from |-> r] : r \in e.nodes[n].inbound \ {Self(n)}} :
                    n \in Rebuilt(e)}

\* The rebuild is the repointing of the references back.
LEMMA BackRebuilt ==
    ASSUME NEW e
    PROVE  RebuildInboundReferences(e) = Repointed(e, Back(e))
BY DEF RebuildInboundReferences, Repointed, Back

\* The nodes that are rebuilt are the entities that are reached.
LEMMA RebuiltReached ==
    ASSUME NEW e
    PROVE  Rebuilt(e) = Entities(e) \cap ReachedIn(e.edited, e, Cardinality(Node))
BY DEF Rebuilt, ReachedIn

\* What is in it.
LEMMA InBack ==
    ASSUME NEW e
    PROVE  /\ \A x \in Back(e) : x = [to |-> x.to, from |-> x.from]
                                 /\ x.to \in Rebuilt(e)
                                 /\ x.from \in e.nodes[x.to].inbound \ {Self(x.to)}
           /\ \A n \in Rebuilt(e) : \A r \in e.nodes[n].inbound \ {Self(n)} :
                 \E x \in Back(e) : x.to = n /\ x.from = r
<1>1. ASSUME NEW x \in Back(e)
      PROVE  /\ x = [to |-> x.to, from |-> x.from] /\ x.to \in Rebuilt(e)
             /\ x.from \in e.nodes[x.to].inbound \ {Self(x.to)}
  <2>1. PICK n \in Rebuilt(e) : \E r \in e.nodes[n].inbound \ {Self(n)} : x = [to |-> n, from |-> r]
    BY <1>1 DEF Back
  <2>2. PICK r \in e.nodes[n].inbound \ {Self(n)} : x = [to |-> n, from |-> r]
    BY <2>1
  <2>3. QED BY <2>2
<1>2. ASSUME NEW n \in Rebuilt(e), NEW r \in e.nodes[n].inbound \ {Self(n)}
      PROVE  \E x \in Back(e) : x.to = n /\ x.from = r
  <2>1. PICK x : x = [to |-> n, from |-> r]
    OBVIOUS
  <2>2. x \in Back(e)
    BY <2>1 DEF Back
  <2>3. QED BY <2>1, <2>2
<1>3. QED BY <1>1, <1>2

\* A reference back is at a location that points to the node.
LEMMA BackPoints ==
    ASSUME NEW e \in Editor, GraphInv(e.nodes)
    PROVE  Points(e, Back(e))
<1> DEFINE V == View(e.nodes)
<1>1. SUFFICES ASSUME NEW x \in Back(e), NEW n, n = x.from.id, NEW q, q = x.from.path, NEW m, m = x.to
               PROVE  /\ n \in Present(e.nodes) /\ q \in Path /\ [id |-> n, path |-> q] \in RefLocations
                      /\ m \in Entity
                      /\ V[n].at[q] \in Pointer /\ V[n].at[q].to = m
  BY DEF Points
<1>2. m \in Rebuilt(e) /\ x.from \in e.nodes[m].inbound /\ x.from # Self(m)
  BY <1>1, InBack
<1>3. m \in Node \ Param /\ e.nodes[m] # Absent /\ V[m] = e.nodes[m] /\ V[m] \in NodeSnapshot
  BY <1>2, ViewTyped DEF Rebuilt, Entities, Present, Editor
<1>4. x.from \in Reference
  BY <1>2, <1>3 DEF NodeSnapshot
<1>5. n \in Node /\ q \in Path /\ x.from = [id |-> n, path |-> q]
  BY <1>1, <1>4 DEF Reference
<1> HIDE DEF V
<1>6. [id |-> m, path |-> q] \in V[n].outbound
  <2>1. EndsMatch(V)
    BY DEF GraphInv, V
  <2>2. QED BY <1>2, <1>3, <1>5, <2>1 DEF EndsMatch
<1>7. n \in Present(e.nodes)
  <2>1. V[n].outbound # {}
    BY <1>6
  <2>2. QED BY <1>5, <2>1 DEF V, View, Present, NewSnapshot
<1>8. m \in Entity /\ [id |-> n, path |-> q] \in RefLocations
  <2>1. ReferencesLed(V)
    BY DEF GraphInv, V
  <2>2. QED BY <1>2, <1>3, <1>5, <1>6, <2>1 DEF ReferencesLed
<1>9. V[n].at[q] \in Pointer /\ V[n].at[q].to = m
  <2>1. DataMatches(V)
    BY DEF GraphInv, V
  <2>2. m \in Referred(V, n, q)
    BY <1>2, <1>5, <1>6, <1>8 DEF Referred
  <2>3. m \in Targets(V[n].at[q])
    BY <1>5, <2>1, <2>2 DEF DataMatches
  <2>4. QED BY <2>3 DEF Targets
<1>10. QED BY <1>5, <1>7, <1>8, <1>9 DEF V

\* The references back are finitely many.
LEMMA BackFinite ==
    ASSUME NEW e \in Editor
    PROVE  IsFiniteSet(Back(e))
<1> DEFINE f == [z \in Node \X Reference |-> [to |-> z[1], from |-> z[2]]]
           A == [to : Node, from : Reference]
<1>1. IsFiniteSet(Node \X Reference)
  BY NodeAssumption, FiniteReferences, FS_Product
<1>2. f \in Surjection(Node \X Reference, A)
  <2>1. f \in [Node \X Reference -> A]
    OBVIOUS
  <2>2. ASSUME NEW x \in A PROVE \E z \in Node \X Reference : f[z] = x
    <3>1. x.to \in Node /\ x.from \in Reference /\ x = [to |-> x.to, from |-> x.from]
      OBVIOUS
    <3>2. <<x.to, x.from>> \in Node \X Reference /\ f[<<x.to, x.from>>] = x
      BY <3>1
    <3>3. QED BY <3>2
  <2> HIDE DEF f, A
  <2>3. QED BY <2>1, <2>2 DEF Surjection
<1> HIDE DEF f
<1>3. IsFiniteSet(A)
  BY <1>1, <1>2, FS_Surjection
<1>4. Back(e) \subseteq A
  <2>1. ASSUME NEW x \in Back(e) PROVE x \in A
    <3>1. x = [to |-> x.to, from |-> x.from] /\ x.to \in Rebuilt(e) /\ x.from \in e.nodes[x.to].inbound
      BY <2>1, InBack
    <3>2. x.to \in Node /\ e.nodes[x.to] \in NodeSnapshot
      BY <3>1 DEF Rebuilt, Entities, Present, Editor
    <3>3. x.from \in Reference
      BY <3>1, <3>2 DEF NodeSnapshot
    <3>4. QED BY <3>1, <3>2, <3>3
  <2>2. QED BY <2>1
<1>5. QED BY <1>3, <1>4, FS_Subset

-----------------------------------------------------------------------------
(* The graph that a commit makes.                                          *)

\* A node is pointed to, in what is committed, by its data there.
LEMMA NoneStale ==
    ASSUME NEW e \in Editor, GraphInv(e.nodes), EditsTell(e),
           NEW d \in Editor, RepointedTo(e, d, Back(e)),
           NEW n \in Node, NEW q \in Path, View(d.nodes)[n].at[q] \in Pointer,
           NEW m, m = View(d.nodes)[n].at[q].to
    PROVE  /\ m \in Present(d.nodes) /\ View(e.nodes)[n].at[q] \in Pointer /\ m = View(e.nodes)[n].at[q].to
           /\ View(d.nodes)[n].at[q].fresh = d.nodes[m].fresh
<1> DEFINE V == View(e.nodes)
           W == View(d.nodes)
           S == Back(e)
           R == ReachedIn(e.edited, e, Cardinality(Node))
<1>1. V \in [Node -> NodeSnapshot] /\ W \in [Node -> NodeSnapshot]
  BY ViewTyped DEF Editor
<1>2. W[n].at[q] = IF FromPath(S, n, q) THEN [to |-> V[n].at[q].to, fresh |-> TRUE] ELSE V[n].at[q]
  BY DEF RepointedTo
<1>3. Points(e, S)
  BY BackPoints
<1>4. V[n].at[q] \in Pointer /\ m = V[n].at[q].to /\ m \in Entity
  <2>1. CASE FromPath(S, n, q)
    <3>1. V[n].at[q] \in Pointer
      BY <1>3, <2>1 DEF Points, FromPath
    <3>2. QED BY <1>2, <2>1, <3>1 DEF Pointer
  <2>2. CASE ~FromPath(S, n, q)
    BY <1>2, <2>2 DEF Pointer
  <2>3. QED BY <2>1, <2>2
<1>5. /\ EndsMatch(V) /\ DataMatches(V) /\ FreshAreFresh(V)
  BY DEF GraphInv
<1>6. ReachedSet(e, R) /\ Closed(e, R) /\ Rebuilt(e) = Entities(e) \cap R
  BY AllReached, RebuiltReached
<1>7. /\ \A k \in Node : V[k].fresh => k \in e.edited
      /\ \A k \in Present(e.nodes) \ Param : k \in e.edited => V[k].fresh
  BY ViewTyped DEF EditsTell, Editor
<1>8. \A k \in Node : W[k].fresh <=> V[k].fresh \/ FromNode(S, k)
  BY DEF RepointedTo
<1> HIDE DEF V, W, S, R
<1>9. m \in Node \ Param /\ [id |-> n, path |-> q] \in V[m].inbound /\ [id |-> n, path |-> q] # Self(m)
  <2>1. m \in Node \ Param
    BY <1>4, NodeAssumption DEF Node
  <2>2. m \in Referred(V, n, q)
    BY <1>4, <1>5 DEF DataMatches, Targets
  <2>3. [id |-> m, path |-> q] \in V[n].outbound /\ [id |-> n, path |-> q] # Self(m)
    BY <2>2 DEF Referred
  <2>4. QED BY <1>5, <2>1, <2>3 DEF EndsMatch
<1>10. m \in Present(e.nodes)
  <2>1. V[m].inbound # {}
    BY <1>9
  <2>2. QED BY <1>9, <2>1 DEF V, View, Present, NewSnapshot
<1>11. m \in Present(d.nodes) /\ m \in Entities(e)
  BY <1>9, <1>10 DEF RepointedTo, Entities
<1>12. V[m] = e.nodes[m] /\ W[m] = d.nodes[m] /\ W[m].fresh \in BOOLEAN
  <2>1. V[m] = e.nodes[m]
    BY <1>10, ViewTyped DEF V, Editor
  <2>2. W[m] = d.nodes[m]
    BY <1>11, ViewTyped DEF W, Editor
  <2>3. QED BY <1>1, <1>9, <2>1, <2>2 DEF NodeSnapshot
<1>13. PICK r : r = [id |-> n, path |-> q]
  OBVIOUS
<1>14. r.id = n /\ r.path = q /\ r \in e.nodes[m].inbound \ {Self(m)}
  BY <1>9, <1>12, <1>13
<1>15. CASE m \in R
  <2>1. FromPath(S, n, q)
    <3>1. \E x \in S : x.to = m /\ x.from = r
      BY <1>6, <1>11, <1>14, <1>15, InBack DEF S
    <3>2. QED BY <1>14, <3>1 DEF FromPath
  <2>2. W[n].at[q].fresh = TRUE
    BY <1>2, <2>1
  <2>3. V[m].fresh \/ FromNode(S, m)
    <3>1. CASE m \in e.edited
      BY <1>7, <1>9, <1>10, <3>1
    <3>2. CASE m \notin e.edited
      <4>1. PICK k \in R \cap Entities(e) : \E y \in e.nodes[k].inbound \ {Self(k)} : y.id = m
        BY <1>6, <1>15, <3>2 DEF ReachedSet
      <4>2. PICK y \in e.nodes[k].inbound \ {Self(k)} : y.id = m
        BY <4>1
      <4>3. \E x \in S : x.to = k /\ x.from = y
        BY <1>6, <4>1, InBack DEF S
      <4>4. QED BY <4>2, <4>3 DEF FromNode
    <3>3. QED BY <3>1, <3>2
  <2>4. W[m].fresh = TRUE
    BY <1>8, <1>9, <1>12, <2>3
  <2>5. QED BY <1>4, <1>11, <1>12, <2>2, <2>4 DEF V, W
<1>16. CASE m \notin R
  <2>1. m \notin e.edited
    BY <1>6, <1>16 DEF ReachedSet
  <2>2. ~FromPath(S, n, q)
    <3>1. SUFFICES ASSUME NEW x \in S, x.from.id = n, x.from.path = q PROVE FALSE
      BY DEF FromPath
    <3>2. V[n].at[q].to = x.to
      BY <1>3, <3>1 DEF Points, V
    <3>3. x.to \in R
      BY <1>6, InBack DEF S
    <3>4. QED BY <1>4, <1>16, <3>2, <3>3
  <2>3. ~V[m].fresh
    BY <1>7, <1>9, <2>1
  <2>4. ~FromNode(S, m)
    <3>1. SUFFICES ASSUME NEW x \in S, x.from.id = m PROVE FALSE
      BY DEF FromNode
    <3>2. x.to \in R \cap Entities(e) /\ x.from \in e.nodes[x.to].inbound
      BY <1>6, InBack DEF S
    <3>3. m \in Referrers(e, R)
      BY <3>1, <3>2 DEF Referrers
    <3>4. QED BY <1>6, <1>16, <3>3 DEF Closed
  <2>5. W[n].at[q].fresh = FALSE
    <3>1. W[n].at[q] = V[n].at[q]
      BY <1>2, <2>2
    <3>2. ~V[n].at[q].fresh
      BY <1>4, <1>5, <2>3 DEF FreshAreFresh
    <3>3. V[n].at[q].fresh \in BOOLEAN
      BY <1>4 DEF Pointer
    <3>4. QED BY <3>1, <3>2, <3>3
  <2>6. W[m].fresh = FALSE
    BY <1>8, <1>9, <1>12, <2>3, <2>4
  <2>7. QED BY <1>4, <1>11, <1>12, <2>5, <2>6 DEF V, W
<1>17. QED BY <1>15, <1>16

\* U is V with nothing new.
NothingNew(V, U) ==
    /\ \A n \in Node : /\ U[n].leaf = V[n].leaf
                       /\ U[n].inbound = V[n].inbound /\ U[n].outbound = V[n].outbound
                       /\ ~U[n].fresh
    /\ \A n \in Node, q \in Path :
          IF V[n].at[q] \in Pointer
          THEN U[n].at[q] \in Pointer /\ U[n].at[q].to = V[n].at[q].to /\ ~U[n].at[q].fresh
          ELSE U[n].at[q] = V[n].at[q]

\* The new graph, node by node.
LEMMA NewNode ==
    ASSUME NEW nodes \in [Node -> NodeSnapshot \cup {Absent}], NEW n \in Present(nodes),
           NEW g, g = NewGraph(nodes), \A q \in Path : ~Stale(nodes, nodes[n].at[q])
    PROVE  /\ g[n] \in NodeSnapshot
           /\ g[n].leaf = nodes[n].leaf
           /\ g[n].inbound = nodes[n].inbound /\ g[n].outbound = nodes[n].outbound
           /\ ~g[n].fresh
           /\ \A q \in Path :
                 IF nodes[n].at[q] \in Pointer
                 THEN /\ g[n].at[q] \in Pointer /\ g[n].at[q].to = nodes[n].at[q].to
                      /\ ~g[n].at[q].fresh
                 ELSE g[n].at[q] = nodes[n].at[q]
<1> DEFINE new(v) == IF v \in Pointer THEN [v EXCEPT !.fresh = Stale(nodes, v)] ELSE v
           at == [q \in Path |-> new(nodes[n].at[q])]
<1>1. n \in Node /\ nodes[n] # Absent /\ nodes[n] \in NodeSnapshot
  BY DEF Present
<1>2. g[n] = [nodes[n] EXCEPT !.fresh = FALSE, !.at = at]
  BY <1>1 DEF NewGraph
<1>3. ASSUME NEW q \in Path
      PROVE  /\ new(nodes[n].at[q]) \in Pointer \cup {Missing, Null, Here}
             /\ IF nodes[n].at[q] \in Pointer
                THEN /\ at[q] \in Pointer /\ at[q].to = nodes[n].at[q].to
                     /\ ~at[q].fresh
                ELSE at[q] = nodes[n].at[q]
  <2>1. PICK v : v = nodes[n].at[q]
    OBVIOUS
  <2>2. v \in Pointer \cup {Missing, Null, Here} /\ ~Stale(nodes, v) /\ at[q] = new(v)
    BY <1>1, <1>3, <2>1 DEF NodeSnapshot
  <2>3. CASE v \in Pointer
    <3>1. at[q] = [v EXCEPT !.fresh = Stale(nodes, v)]
      BY <2>2, <2>3
    <3>2. PICK b \in BOOLEAN : b = Stale(nodes, v) /\ ~b
      BY <2>2 DEF Stale
    <3>3. at[q] \in Pointer /\ at[q].to = v.to /\ ~at[q].fresh
      BY <2>3, <3>1, <3>2 DEF Pointer
    <3>4. QED BY <2>1, <2>2, <2>3, <3>3
  <2>4. CASE v \notin Pointer
    BY <2>1, <2>2, <2>4
  <2>5. QED BY <2>3, <2>4
<1>4. at \in [Path -> Pointer \cup {Missing, Null, Here}]
  BY <1>3
<1> HIDE DEF at
<1>5. /\ g[n] \in NodeSnapshot /\ g[n].leaf = nodes[n].leaf
      /\ g[n].inbound = nodes[n].inbound /\ g[n].outbound = nodes[n].outbound
      /\ ~g[n].fresh /\ g[n].at = at
  BY <1>1, <1>2, <1>4 DEF NodeSnapshot
<1>6. QED BY <1>3, <1>5

\* In the new graph no node and no pointer is of the editor any more.
LEMMA GraphCommitted ==
    ASSUME NEW e \in Editor, GraphInv(e.nodes), EditsTell(e),
           NEW d \in Editor, RepointedTo(e, d, Back(e)),
           NEW g, g = NewGraph(d.nodes)
    PROVE  /\ g \in [Node -> NodeSnapshot \cup {Absent}]
           /\ Present(g) = Present(e.nodes)
           /\ NothingNew(View(e.nodes), View(g))
<1> DEFINE V == View(e.nodes)
           W == View(d.nodes)
           U == View(g)
<1>1. /\ V \in [Node -> NodeSnapshot] /\ W \in [Node -> NodeSnapshot]
      /\ \A n \in Present(d.nodes) : W[n] = d.nodes[n] /\ n \in Node
      /\ \A n \in Node \ Present(d.nodes) : W[n] = NewSnapshot
  BY ViewTyped DEF Editor
<1>2. d.nodes \in [Node -> NodeSnapshot \cup {Absent}]
  BY DEF Editor
<1>3. Present(d.nodes) = Present(e.nodes)
  BY DEF RepointedTo
<1>4. ASSUME NEW n \in Present(d.nodes), NEW q \in Path PROVE ~Stale(d.nodes, d.nodes[n].at[q])
  <2>1. SUFFICES ASSUME d.nodes[n].at[q] \in Pointer, NEW m, m = d.nodes[n].at[q].to
                 PROVE  d.nodes[m] # Absent /\ d.nodes[n].at[q].fresh = d.nodes[m].fresh
    BY DEF Stale
  <2>2. W[n].at[q] \in Pointer /\ m = W[n].at[q].to /\ n \in Node
    BY <1>1, <1>4, <2>1
  <2>3. m \in Present(d.nodes) /\ W[n].at[q].fresh = d.nodes[m].fresh
    BY <1>4, <2>2, NoneStale
  <2>4. QED BY <1>1, <1>4, <2>3 DEF Present
<1>5. ASSUME NEW n \in Present(d.nodes)
      PROVE  /\ g[n] \in NodeSnapshot
             /\ g[n].leaf = d.nodes[n].leaf
             /\ g[n].inbound = d.nodes[n].inbound /\ g[n].outbound = d.nodes[n].outbound
             /\ ~g[n].fresh
             /\ \A q \in Path :
                   IF d.nodes[n].at[q] \in Pointer
                   THEN /\ g[n].at[q] \in Pointer /\ g[n].at[q].to = d.nodes[n].at[q].to
                        /\ ~g[n].at[q].fresh
                   ELSE g[n].at[q] = d.nodes[n].at[q]
  BY <1>2, <1>4, <1>5, NewNode
<1>6. \A n \in Node \ Present(d.nodes) : g[n] = Absent
  BY DEF NewGraph, Present
<1>7. g \in [Node -> NodeSnapshot \cup {Absent}]
  <2>1. g = [n \in Node |-> g[n]]
    BY DEF NewGraph
  <2>2. \A n \in Node : g[n] \in NodeSnapshot \cup {Absent}
    BY <1>5, <1>6
  <2> HIDE DEF U, V, W
  <2>3. QED BY <2>1, <2>2
<1>8. Present(g) = Present(d.nodes)
  BY <1>5, <1>6, AbsentAssumption DEF Present
<1>9. /\ \A n \in Present(d.nodes) : U[n] = g[n]
      /\ \A n \in Node \ Present(d.nodes) : U[n] = NewSnapshot
  BY <1>7, <1>8, ViewTyped
<1>10. \A n \in Node : /\ W[n].leaf = V[n].leaf
                       /\ W[n].inbound = V[n].inbound /\ W[n].outbound = V[n].outbound
  BY DEF RepointedTo
<1> HIDE DEF U, V, W
<1>11. ASSUME NEW n \in Node
       PROVE  /\ U[n].leaf = V[n].leaf
              /\ U[n].inbound = V[n].inbound /\ U[n].outbound = V[n].outbound
              /\ ~U[n].fresh
  <2>1. CASE n \in Present(d.nodes)
    BY <1>1, <1>5, <1>9, <1>10, <2>1
  <2>2. CASE n \notin Present(d.nodes)
    <3>1. U[n] = W[n] /\ U[n] = NewSnapshot
      BY <1>1, <1>9, <1>11, <2>2
    <3>2. ~NewSnapshot.fresh
      BY DEF NewSnapshot
    <3>3. QED BY <1>10, <1>11, <3>1, <3>2
  <2>3. QED BY <2>1, <2>2
<1>12. ASSUME NEW n \in Node, NEW q \in Path
       PROVE  IF W[n].at[q] \in Pointer
              THEN U[n].at[q] \in Pointer /\ U[n].at[q].to = W[n].at[q].to /\ ~U[n].at[q].fresh
              ELSE U[n].at[q] = W[n].at[q]
  <2>1. CASE n \in Present(d.nodes)
    BY <1>1, <1>5, <1>9, <2>1
  <2>2. CASE n \notin Present(d.nodes)
    <3>1. U[n] = W[n] /\ W[n] = NewSnapshot
      BY <1>1, <1>9, <1>12, <2>2
    <3>2. NewSnapshot.at[q] = Missing
      BY <1>12 DEF NewSnapshot, NoData
    <3>3. QED BY <3>1, <3>2, ValueAssumption
  <2>3. QED BY <2>1, <2>2
<1>13. ASSUME NEW n \in Node, NEW q \in Path
       PROVE  IF V[n].at[q] \in Pointer
              THEN W[n].at[q] \in Pointer /\ W[n].at[q].to = V[n].at[q].to
              ELSE W[n].at[q] = V[n].at[q]
  <2>1. W[n].at[q] = IF FromPath(Back(e), n, q) THEN [to |-> V[n].at[q].to, fresh |-> TRUE] ELSE V[n].at[q]
    BY DEF RepointedTo, V, W
  <2>2. FromPath(Back(e), n, q) => V[n].at[q] \in Pointer
    BY BackPoints DEF Points, FromPath, V
  <2>3. CASE FromPath(Back(e), n, q)
    <3>1. PICK v \in Pointer : v = V[n].at[q]
      BY <2>2, <2>3
    <3>2. [to |-> v.to, fresh |-> TRUE] \in Pointer
      BY DEF Pointer
    <3>3. QED BY <2>1, <2>3, <3>1, <3>2
  <2>4. CASE ~FromPath(Back(e), n, q)
    BY <2>1, <2>4
  <2>5. QED BY <2>3, <2>4
<1>14. ASSUME NEW n \in Node, NEW q \in Path
       PROVE  IF V[n].at[q] \in Pointer
              THEN U[n].at[q] \in Pointer /\ U[n].at[q].to = V[n].at[q].to /\ ~U[n].at[q].fresh
              ELSE U[n].at[q] = V[n].at[q]
  BY <1>12, <1>13
<1>15. NothingNew(V, U)
  BY <1>11, <1>14 DEF NothingNew
<1>16. QED BY <1>3, <1>7, <1>8, <1>15 DEF U, V

\* A graph with nothing new keeps to what it kept to.
LEMMA NothingNewKept ==
    ASSUME NEW nodes \in [Node -> NodeSnapshot \cup {Absent}], GraphInv(nodes),
           NEW g \in [Node -> NodeSnapshot \cup {Absent}], Present(g) = Present(nodes),
           NothingNew(View(nodes), View(g))
    PROVE  GraphInv(g) /\ \A n \in Present(g) : ~g[n].fresh
<1> DEFINE V == View(nodes)
           U == View(g)
<1>1. /\ \A n \in Present(g) : V[n] = nodes[n] /\ U[n] = g[n] /\ n \in Node
      /\ V \in [Node -> NodeSnapshot] /\ U \in [Node -> NodeSnapshot]
  BY ViewTyped
<1>2. \A n \in Node : /\ U[n].leaf = V[n].leaf
                      /\ U[n].inbound = V[n].inbound /\ U[n].outbound = V[n].outbound
                      /\ ~U[n].fresh
  BY DEF NothingNew
<1>3. \A n \in Node, q \in Path :
          IF V[n].at[q] \in Pointer
          THEN U[n].at[q] \in Pointer /\ U[n].at[q].to = V[n].at[q].to /\ ~U[n].at[q].fresh
          ELSE U[n].at[q] = V[n].at[q]
  BY DEF NothingNew
<1>4. /\ EndsMatch(V) /\ ReferencesLed(V) /\ KindsKept(V) /\ DataMatches(V) /\ ListsWhole(V)
      /\ OrphansGone(nodes)
  BY DEF GraphInv
<1> HIDE DEF U, V
<1>5. EndsMatch(U)
  BY <1>2, <1>4 DEF EndsMatch
<1>6. ReferencesLed(U)
  BY <1>2, <1>4 DEF ReferencesLed
<1>7. KindsKept(U)
  <2>1. SUFFICES ASSUME NEW n \in Node, NEW q \in Path, NEW loc, loc = [id |-> n, path |-> q]
                 PROVE  \/ U[n].at[q] = Missing
                        \/ U[n].at[q] = Here /\ loc \in ListLocations
                        \/ U[n].at[q] \in Pointer \cup {Null} /\ loc \in RefLocations
    BY DEF KindsKept
  <2>2. \/ V[n].at[q] = Missing
        \/ V[n].at[q] = Here /\ loc \in ListLocations
        \/ V[n].at[q] \in Pointer \cup {Null} /\ loc \in RefLocations
    BY <1>4, <2>1 DEF KindsKept
  <2>3. QED BY <1>3, <2>2, ValueAssumption
<1>8. DataMatches(U)
  <2>1. SUFFICES ASSUME NEW n \in Node, NEW q \in Path PROVE Referred(U, n, q) = Targets(U[n].at[q])
    BY DEF DataMatches
  <2>2. Referred(U, n, q) = Referred(V, n, q)
    BY <1>2 DEF Referred
  <2>3. Targets(U[n].at[q]) = Targets(V[n].at[q])
    BY <1>3 DEF Targets
  <2>4. QED BY <1>4, <2>2, <2>3 DEF DataMatches
<1>9. \A n \in Node, q \in Path : /\ U[n].at[q] = Missing <=> V[n].at[q] = Missing
                                  /\ U[n].at[q] = Here <=> V[n].at[q] = Here
  BY <1>3, ValueAssumption
<1>10. ListsWhole(U)
  <2>1. SUFFICES ASSUME NEW y \in ListLocations PROVE ListWhole(U[y.id].at, y.path)
    BY DEF ListsWhole
  <2>2. y.id \in Node /\ y.path \in Path
    BY <2>1, LocationTyped DEF Reference
  <2>3. ListWhole(V[y.id].at, y.path)
    BY <1>4 DEF ListsWhole
  <2>4. QED BY <1>9, <2>2, <2>3 DEF ListWhole
<1>11. FreshAreFresh(U)
  BY <1>3 DEF FreshAreFresh
<1>12. OrphansGone(g)
  <2>1. \A n \in Present(g) : g[n].inbound = nodes[n].inbound /\ g[n].leaf = nodes[n].leaf
    BY <1>1, <1>2
  <2>2. QED BY <1>4, <2>1 DEF OrphansGone
<1>13. GraphInv(g)
  BY <1>5, <1>6, <1>7, <1>8, <1>10, <1>11, <1>12 DEF GraphInv, U
<1>14. QED BY <1>1, <1>2, <1>13

-----------------------------------------------------------------------------
(* The invariant.                                                          *)

\* What a commit makes of an editor that keeps to the invariant.
LEMMA Committed ==
    ASSUME NEW e \in Editor, ~e.failed, GraphInv(e.nodes), EditsTell(e),
           NEW d, d = RebuildInboundReferences(e), ~d.failed,
           NEW g, g = NewGraph(d.nodes)
    PROVE  /\ g \in [Node -> NodeSnapshot \cup {Absent}]
           /\ Present(g) = Present(e.nodes)
           /\ NothingNew(View(e.nodes), View(g))
<1>1. KindsKept(View(e.nodes)) /\ ListsWhole(View(e.nodes))
  BY DEF GraphInv
<1>2. d = Repointed(e, Back(e)) /\ IsFiniteSet(Back(e)) /\ Points(e, Back(e))
  BY BackRebuilt, BackFinite, BackPoints
<1>3. PICK S : S = Back(e)
  OBVIOUS
<1>4. d \in Editor /\ (~d.failed => RepointedTo(e, d, S))
  BY <1>1, <1>2, <1>3, AllRepointed
<1>5. QED BY <1>3, <1>4, GraphCommitted

\* A graph without nodes.
LEMMA EmptyGraph ==
    ASSUME NEW g, g = [n \in Node |-> Absent]
    PROVE  GraphInv(g) /\ Present(g) = {} /\ g \in [Node -> NodeSnapshot \cup {Absent}]
<1> DEFINE V == View(g)
<1>1. Present(g) = {} /\ g \in [Node -> NodeSnapshot \cup {Absent}]
  BY DEF Present
<1>2. \A n \in Node : V[n] = NewSnapshot
  BY <1>1, ViewTyped
<1>3. /\ NewSnapshot.inbound = {} /\ NewSnapshot.outbound = {}
      /\ \A q \in Path : NewSnapshot.at[q] = Missing
  BY DEF NewSnapshot, NoData
<1> HIDE DEF V
<1>4. \A n \in Node : V[n].inbound = {} /\ V[n].outbound = {} /\ \A q \in Path : V[n].at[q] = Missing
  BY <1>2, <1>3
<1>5. EndsMatch(V) /\ ReferencesLed(V) /\ KindsKept(V)
  BY <1>4 DEF EndsMatch, ReferencesLed, KindsKept
<1>6. DataMatches(V)
  BY <1>4, ValueAssumption DEF DataMatches, Referred, Targets
<1>7. ListsWhole(V)
  <2>1. \A y \in ListLocations : y.id \in Node
    BY LocationTyped DEF Reference
  <2>2. QED BY <1>4, <2>1 DEF ListsWhole, ListWhole
<1>8. FreshAreFresh(V)
  BY <1>4, ValueAssumption DEF FreshAreFresh
<1>9. OrphansGone(g)
  BY <1>1 DEF OrphansGone
<1>10. QED BY <1>1, <1>5, <1>6, <1>7, <1>8, <1>9 DEF GraphInv, V

\* EditsTell of what is to come, with the graph named.
LEMMA EditorInit == Init => EditorInv
<1> SUFFICES ASSUME Init PROVE EditorInv
  OBVIOUS
<1>1. GraphInv(graph) /\ Present(graph) = {} /\ graph \in [Node -> NodeSnapshot \cup {Absent}]
  BY EmptyGraph DEF Init
<1>2. QED BY <1>1 DEF Init, EditorInv, TypeOK

\* What is known of an open editor.
LEMMA TheEditor ==
    ASSUME EditorInv, NEW e \in editor
    PROVE  /\ e \in Editor /\ ~e.failed /\ GraphInv(e.nodes) /\ EditsTell(e)
           /\ editor = {e}
BY DEF EditorInv, TypeOK

\* Opening an editor keeps the invariant.
LEMMA OpenKeeps == EditorInv /\ Open => EditorInv'
<1> SUFFICES ASSUME EditorInv, Open PROVE EditorInv'
  OBVIOUS
<1>1. PICK e : e = [nodes |-> graph, made |-> {}, edited |-> {}, merged |-> <<>>, failed |-> FALSE]
  OBVIOUS
<1>2. editor' = {e} /\ graph' = graph
  BY <1>1 DEF Open
<1>3. /\ graph \in [Node -> NodeSnapshot \cup {Absent}] /\ GraphInv(graph)
      /\ \A n \in Present(graph) : ~graph[n].fresh
  BY DEF EditorInv, TypeOK
<1>4. e \in Editor /\ ~e.failed /\ e.nodes = graph /\ e.edited = {} /\ e.made = {}
  BY <1>1, <1>3 DEF Editor
<1>5. \A n \in Node : ~View(graph)[n].fresh
  <2>1. ~NewSnapshot.fresh
    BY DEF NewSnapshot
  <2>2. QED BY <1>3, <2>1, ViewTyped
<1>6. EditsTell(e)'
  BY <1>2, <1>4, <1>5 DEF EditsTell, View, Present
<1>7. GraphInv(e.nodes)
  BY <1>3, <1>4
<1>8. EditorInv'
  BY <1>2, <1>3, <1>4, <1>6, <1>7 DEF EditorInv, TypeOK
<1>9. QED BY <1>8

\* Merging a payload keeps the invariant.
LEMMA MergeKeeps ==
    ASSUME EditorInv, NEW p \in Payload, MergePayload(p)
    PROVE  EditorInv'
<1>1. PICK e \in editor : /\ editor' = IF Merge(e, p).failed THEN {} ELSE {Merge(e, p)}
                          /\ p # <<>> /\ RootOf(p) \in Param => e.nodes[RootOf(p)] # Absent
  BY DEF MergePayload
<1>2. PICK d : d = Merge(e, p)
  OBVIOUS
<1>3. e \in Editor /\ ~e.failed /\ GraphInv(e.nodes) /\ EditsTell(e)
  BY TheEditor
<1>4. d.failed \/ (d \in Editor /\ ~d.failed /\ GraphInv(d.nodes) /\ EditsTell(d))
  <2>1. Starts(e, p)
    BY <1>1 DEF Starts, Present, Node
  <2>2. QED BY <1>2, <1>3, <2>1, PayloadMerged
<1>5. graph' = graph
  BY DEF MergePayload
<1>6. editor' = IF d.failed THEN {} ELSE {d}
  BY <1>1, <1>2
<1>7. EditsTell(d) => EditsTell(d)'
  BY <1>5 DEF EditsTell
<1>8. /\ GraphInv(graph') /\ graph' \in [Node -> NodeSnapshot \cup {Absent}]
      /\ \A n \in Present(graph') : ~graph'[n].fresh
  BY <1>5 DEF EditorInv, TypeOK
<1>9. QED BY <1>4, <1>6, <1>7, <1>8 DEF EditorInv, TypeOK

\* A commit keeps the invariant.
LEMMA CommitKeeps == EditorInv /\ Commit => EditorInv'
<1> SUFFICES ASSUME EditorInv, Commit PROVE EditorInv'
  OBVIOUS
<1>1. PICK e \in editor : /\ editor' = {}
                          /\ graph' = IF RebuildInboundReferences(e).failed THEN graph
                                      ELSE NewGraph(RebuildInboundReferences(e).nodes)
  BY DEF Commit
<1>2. e \in Editor /\ ~e.failed /\ GraphInv(e.nodes) /\ EditsTell(e)
  BY TheEditor
<1>3. PICK d : d = RebuildInboundReferences(e)
  OBVIOUS
<1>4. PICK g : g = NewGraph(d.nodes)
  OBVIOUS
<1>5. graph' = IF d.failed THEN graph ELSE g
  BY <1>1, <1>3, <1>4
<1>6. /\ graph \in [Node -> NodeSnapshot \cup {Absent}] /\ GraphInv(graph)
      /\ \A n \in Present(graph) : ~graph[n].fresh
  BY DEF EditorInv, TypeOK
<1>7. ASSUME ~d.failed
      PROVE  /\ g \in [Node -> NodeSnapshot \cup {Absent}] /\ GraphInv(g)
             /\ \A n \in Present(g) : ~g[n].fresh
  <2>1. /\ g \in [Node -> NodeSnapshot \cup {Absent}] /\ Present(g) = Present(e.nodes)
        /\ NothingNew(View(e.nodes), View(g))
    BY <1>2, <1>3, <1>4, <1>7, Committed
  <2>2. e.nodes \in [Node -> NodeSnapshot \cup {Absent}]
    BY <1>2 DEF Editor
  <2>3. QED BY <1>2, <2>1, <2>2, NothingNewKept
<1>8. /\ graph' \in [Node -> NodeSnapshot \cup {Absent}] /\ GraphInv(graph')
      /\ \A n \in Present(graph') : ~graph'[n].fresh
  BY <1>5, <1>6, <1>7
<1>9. QED BY <1>1, <1>8 DEF EditorInv, TypeOK

\* A step that changes nothing keeps the invariant.
LEMMA EditorStutter == EditorInv /\ UNCHANGED vars => EditorInv'
BY DEF EditorInv, TypeOK, EditsTell, vars

\* Between two merges, and after every commit, the graph is as GraphInv says
\* and the edited ids are as EditsTell says, in SnapshotEditor.ts for every
\* set of nodes and every sequence of payloads, of queries and of fragments,
\* that keeps to a schema.
THEOREM EditorInvariant == Spec => []EditorInv
<1>1. Init => EditorInv
  BY EditorInit
<1>2. EditorInv /\ [Next]_vars => EditorInv'
  BY OpenKeeps, MergeKeeps, CommitKeeps, EditorStutter DEF Next
<1>3. QED BY <1>1, <1>2, PTL DEF Spec

\* The graph and the editor have nodes with data and references of their
\* types, and there is no more than one editor.
THEOREM TypeCorrect == Spec => []TypeOK
<1>1. EditorInv => TypeOK
  BY DEF EditorInv
<1>2. QED BY <1>1, EditorInvariant, PTL

\* A reference that one node keeps, the other keeps too (references.ts).
THEOREM SymmetricReferences == Spec => []ReferencesSymmetric
<1>1. EditorInv => ReferencesSymmetric
  <2> SUFFICES ASSUME EditorInv PROVE ReferencesSymmetric
    OBVIOUS
  <2>1. EndsMatch(View(graph)) /\ graph \in [Node -> NodeSnapshot \cup {Absent}]
    BY DEF EditorInv, TypeOK, GraphInv
  <2>2. \A n \in Node : Inbound(n) = View(graph)[n].inbound /\ Outbound(n) = View(graph)[n].outbound
    BY DEF Inbound, Outbound, View, NewSnapshot
  <2>3. QED BY <2>1, <2>2 DEF ReferencesSymmetric, EndsMatch
<1>2. QED BY <1>1, EditorInvariant, PTL

\* The references a node keeps to entities are those in its data, but for one
\* of an entity to all of itself: what _mergeReferenceEdits writes and what it
\* counts do not part.
THEOREM ReferencesAreData == Spec => []ReferencesMatchData
<1>1. EditorInv => ReferencesMatchData
  <2> SUFFICES ASSUME EditorInv, NEW n \in Present(graph)
               PROVE  {r \in Outbound(n) \ {Self(n)} : r.id \in Entity}
                        = {[id |-> graph[n].at[q].to, path |-> q] : q \in {x \in Path : graph[n].at[x] \in Pointer}}
    BY DEF ReferencesMatchData
  <2>1. PICK V : V = View(graph)
    OBVIOUS
  <2>2. /\ DataMatches(V) /\ graph \in [Node -> NodeSnapshot \cup {Absent}]
        /\ n \in Node /\ V[n] = graph[n] /\ V[n] \in NodeSnapshot /\ Outbound(n) = V[n].outbound
    BY <2>1, ViewTyped DEF EditorInv, TypeOK, GraphInv, Outbound, Present
  <2>3. ASSUME NEW r \in Outbound(n) \ {Self(n)}, r.id \in Entity
        PROVE  \E q \in Path : graph[n].at[q] \in Pointer /\ r = [id |-> graph[n].at[q].to, path |-> q]
    <3>1. r \in Reference
      BY <2>2, <2>3 DEF NodeSnapshot
    <3>2. r.path \in Path /\ r = [id |-> r.id, path |-> r.path]
      BY <3>1 DEF Reference
    <3>3. r.id \in Referred(V, n, r.path)
      BY <2>2, <2>3, <3>2 DEF Referred, Self
    <3>4. r.id \in Targets(V[n].at[r.path])
      BY <2>2, <3>2, <3>3 DEF DataMatches
    <3>5. V[n].at[r.path] \in Pointer /\ r.id = V[n].at[r.path].to
      BY <3>4 DEF Targets
    <3>6. QED BY <2>2, <3>2, <3>5
  <2>4. ASSUME NEW q \in Path, graph[n].at[q] \in Pointer,
               NEW r, r = [id |-> graph[n].at[q].to, path |-> q]
        PROVE  r \in Outbound(n) \ {Self(n)} /\ r.id \in Entity
    <3>1. PICK m : m = graph[n].at[q].to
      OBVIOUS
    <3>2. m \in Targets(V[n].at[q])
      BY <2>2, <2>4, <3>1 DEF Targets
    <3>3. m \in Referred(V, n, q)
      BY <2>2, <3>2 DEF DataMatches
    <3>4. m \in Entity /\ [id |-> m, path |-> q] \in V[n].outbound /\ [id |-> n, path |-> q] # Self(m)
      BY <3>3 DEF Referred
    <3>5. QED BY <2>2, <2>4, <3>1, <3>4 DEF Self
  <2>5. QED BY <2>3, <2>4
<1>2. QED BY <1>1, EditorInvariant, PTL

\* Nothing in a committed graph points to data that its target no longer has,
\* or to an entity that was collected (_rebuildInboundReferences).
THEOREM NoStalePointers == Spec => []PointersCurrent
<1>1. EditorInv => PointersCurrent
  <2> SUFFICES ASSUME EditorInv, NEW n \in Present(graph), NEW q \in Path, graph[n].at[q] \in Pointer,
                      NEW v, v = graph[n].at[q], NEW m, m = v.to
               PROVE  graph[m] # Absent /\ v.fresh = graph[m].fresh
    BY DEF PointersCurrent, Stale
  <2>1. PICK V : V = View(graph)
    OBVIOUS
  <2>2. graph \in [Node -> NodeSnapshot \cup {Absent}]
    BY DEF EditorInv, TypeOK
  <2>3. /\ DataMatches(V) /\ EndsMatch(V) /\ FreshAreFresh(V)
        /\ n \in Node /\ V[n] = graph[n]
    BY <2>1, <2>2, ViewTyped DEF EditorInv, GraphInv
  <2>4. m \in Entity /\ m \in Node /\ v.fresh \in BOOLEAN /\ V[n].at[q] = v /\ v \in Pointer
    BY <2>3 DEF Pointer, Node
  <2>5. m \in Referred(V, n, q)
    BY <2>3, <2>4 DEF DataMatches, Targets
  <2>6. [id |-> n, path |-> q] \in V[m].inbound
    BY <2>3, <2>4, <2>5 DEF Referred, EndsMatch
  <2>7. m \in Present(graph)
    <3>1. V[m].inbound # {}
      BY <2>6
    <3>2. QED BY <2>1, <2>4, <3>1 DEF View, Present, NewSnapshot
  <2>8. V[m] = graph[m] /\ graph[m] # Absent /\ ~graph[m].fresh /\ graph[m] \in NodeSnapshot
    BY <2>1, <2>2, <2>7, ViewTyped DEF EditorInv, Present
  <2>9. ~v.fresh
    BY <2>3, <2>4, <2>8 DEF FreshAreFresh
  <2>10. graph[m].fresh \in BOOLEAN
    BY <2>8 DEF NodeSnapshot
  <2>11. QED BY <2>4, <2>8, <2>9, <2>10
<1>2. QED BY <1>1, EditorInvariant, PTL

\* Whatever is no longer referred to was collected (_removeOrphanedNodes), but
\* for what has no id and a fragment was written to.  An entity that refers to
\* itself is referred to.
THEOREM NoOrphans == Spec => []OrphansCollected
<1>1. EditorInv => OrphansCollected
  BY DEF EditorInv, GraphInv, OrphansGone, OrphansCollected, Inbound, Present
<1>2. QED BY <1>1, EditorInvariant, PTL

\* What a node says of its own, by the view of its graph.
LEMMA ValuesOf ==
    ASSUME NEW g, NEW n \in Node
    PROVE  Values(g[n]) = <<View(g)[n].leaf,
              [q \in Path |-> IF View(g)[n].at[q] \in Pointer THEN View(g)[n].at[q].to ELSE View(g)[n].at[q]]>>
BY DEF Values, View

\* The ids that a commit reports as edited cover every node whose own values
\* it changed, so no observer of one goes untold (editedNodeIds).
THEOREM EditsAreCovered == Spec => EditsCoverValues
<1>1. EditorInv /\ [Next]_vars => [\A e \in editor : Commit => Changed \subseteq e.edited]_vars
  <2> SUFFICES ASSUME EditorInv, NEW e \in editor, Commit, NEW n \in Changed, n \notin e.edited
               PROVE  FALSE
    OBVIOUS
  <2>1. e \in Editor /\ ~e.failed /\ GraphInv(e.nodes) /\ EditsTell(e) /\ editor = {e}
    BY TheEditor
  <2>2. PICK d : d = RebuildInboundReferences(e)
    OBVIOUS
  <2>3. PICK g : g = NewGraph(d.nodes)
    OBVIOUS
  <2>4. graph' = IF d.failed THEN graph ELSE g
    BY <2>1, <2>2, <2>3 DEF Commit
  <2>5. n \in Node /\ Values(graph'[n]) # Values(graph[n])
    BY DEF Changed
  <2>6. ~d.failed /\ graph' = g
    BY <2>4, <2>5
  <2>7. NothingNew(View(e.nodes), View(g))
    BY <2>1, <2>2, <2>3, <2>6, Committed
  <2>8. PICK U, V, W : U = View(g) /\ V = View(e.nodes) /\ W = View(graph)
    OBVIOUS
  <2>9. V[n].leaf = W[n].leaf /\ V[n].at = W[n].at
    BY <2>1, <2>5, <2>8 DEF EditsTell
  <2>10. U[n].leaf = V[n].leaf
    BY <2>5, <2>7, <2>8 DEF NothingNew
  <2>11. ASSUME NEW q \in Path
         PROVE  (IF U[n].at[q] \in Pointer THEN U[n].at[q].to ELSE U[n].at[q])
                  = (IF W[n].at[q] \in Pointer THEN W[n].at[q].to ELSE W[n].at[q])
    BY <2>5, <2>7, <2>8, <2>9 DEF NothingNew
  <2>12. Values(g[n]) = Values(graph[n])
    <3>1. Values(g[n]) = <<U[n].leaf, [q \in Path |-> IF U[n].at[q] \in Pointer THEN U[n].at[q].to ELSE U[n].at[q]]>>
      BY <2>5, <2>8, ValuesOf
    <3>2. Values(graph[n]) = <<W[n].leaf, [q \in Path |-> IF W[n].at[q] \in Pointer THEN W[n].at[q].to ELSE W[n].at[q]]>>
      BY <2>5, <2>8, ValuesOf
    <3>3. QED BY <2>9, <2>10, <2>11, <3>1, <3>2
  <2>13. QED BY <2>5, <2>6, <2>12
<1>2. QED BY <1>1, EditorInvariant, PTL DEF Spec, EditsCoverValues

-----------------------------------------------------------------------------
(* What no payload wrote.                                                  *)

\* What a node has at a path, in an editor and in the parent.
Has(e, n, q)    == Read(View(e.nodes)[n].at[q])
HadThere(n, q)  == Read(View(graph)[n].at[q])

\* A node of the parent that is gone does not come back.
GoneFrom(e) == Present(graph) \ Present(e.nodes)

GoneKept(e) ==
    /\ GoneFrom(e) \subseteq e.made
    /\ \A n \in GoneFrom(e) \cap Param : Owner(n).id \in GoneFrom(e)

\* KeepsUnwritten, for payloads that need not all be merged yet.
Spared(e, merged) ==
    /\ GoneKept(e)
    /\ \A n \in Present(graph) \cap Present(e.nodes), q \in Path :
          WrittenBy(merged, n, q) \/ Has(e, n, q) = HadThere(n, q)

\* A step from e to d that takes no node away, makes none anew that the parent
\* has, and leaves what is not written.
Keeps(e, d, merged) ==
    /\ e.made \subseteq d.made /\ Present(e.nodes) \subseteq Present(d.nodes)
    /\ \A n \in Present(d.nodes) \ Present(e.nodes) : n \in e.made => n \notin Present(graph)
    /\ \A n \in Node, q \in Path :
          WrittenBy(merged, n, q) \/ Has(d, n, q) \in {Has(e, n, q), HadThere(n, q)}

\* The payloads that are merged have the writes of p among theirs.
Covers(merged, p) ==
    \A k \in DOMAIN p, n \in Node, q \in Path : Writes(p[k], n, q) => WrittenBy(merged, n, q)

\* One payload more writes what was written, and what it writes.
LEMMA WrittenMore ==
    ASSUME NEW merged \in Seq(Payload), NEW p \in Payload, NEW more, more = Append(merged, p)
    PROVE  /\ Covers(more, p)
           /\ \A n \in Node, q \in Path : WrittenBy(merged, n, q) => WrittenBy(more, n, q)
<1>1. /\ Len(merged) \in Nat /\ Len(more) = Len(merged) + 1
      /\ more[Len(merged) + 1] = p
      /\ \A j \in 1..Len(merged) : more[j] = merged[j]
  OBVIOUS
<1>2. /\ Len(merged) + 1 \in 1..Len(more)
      /\ \A j \in 1..Len(merged) : j \in 1..Len(more)
  BY <1>1
<1>3. DOMAIN p = 1..Len(p)
  BY PayloadAssumption
<1>4. ASSUME NEW k \in DOMAIN p, NEW n \in Node, NEW q \in Path, Writes(p[k], n, q)
      PROVE  WrittenBy(more, n, q)
  <2>1. k \in 1..Len(more[Len(merged) + 1]) /\ Writes(more[Len(merged) + 1][k], n, q)
    BY <1>1, <1>3, <1>4
  <2>2. QED BY <1>2, <2>1 DEF WrittenBy
<1>5. ASSUME NEW n \in Node, NEW q \in Path, WrittenBy(merged, n, q)
      PROVE  WrittenBy(more, n, q)
  <2>1. PICK j \in 1..Len(merged) : \E k \in 1..Len(merged[j]) : Writes(merged[j][k], n, q)
    BY <1>5 DEF WrittenBy
  <2>2. j \in 1..Len(more) /\ more[j] = merged[j]
    BY <1>1, <1>2
  <2>3. QED BY <2>1, <2>2 DEF WrittenBy
<1>6. QED BY <1>4, <1>5 DEF Covers

\* What UnwrittenKept says of an editor, by the view of its nodes.
LEMMA UnwrittenSpared ==
    ASSUME NEW e \in Editor, graph \in [Node -> NodeSnapshot \cup {Absent}]
    PROVE  KeepsUnwritten(e) <=> Spared(e, e.merged)
<1>1. /\ \A n \in Present(e.nodes) : e.nodes[n] = View(e.nodes)[n]
      /\ \A n \in Present(graph) : graph[n] = View(graph)[n]
  BY ViewTyped DEF Editor
<1>2. QED BY <1>1 DEF KeepsUnwritten, Spared, GoneKept, GoneFrom, Has, HadThere

\* What is spared stays so when more is written.
LEMMA SparedMore ==
    ASSUME NEW e, NEW merged, Spared(e, merged), NEW more,
           \A n \in Node, q \in Path : WrittenBy(merged, n, q) => WrittenBy(more, n, q)
    PROVE  Spared(e, more)
BY DEF Spared, Present

\* A step that keeps what is not written spares it.
LEMMA SparedStep ==
    ASSUME NEW e, NEW d, NEW merged, Spared(e, merged), Keeps(e, d, merged)
    PROVE  Spared(d, merged)
<1>1. /\ GoneFrom(e) \subseteq e.made
      /\ \A n \in GoneFrom(e) \cap Param : Owner(n).id \in GoneFrom(e)
  BY DEF Spared, GoneKept
<1>2. /\ e.made \subseteq d.made /\ Present(e.nodes) \subseteq Present(d.nodes)
      /\ \A n \in Present(d.nodes) \ Present(e.nodes) : n \in e.made => n \notin Present(graph)
  BY DEF Keeps
<1>3. GoneFrom(d) = GoneFrom(e)
  BY <1>1, <1>2 DEF GoneFrom
<1>4. GoneKept(d)
  BY <1>1, <1>2, <1>3 DEF GoneKept
<1>5. ASSUME NEW n \in Present(graph) \cap Present(d.nodes), NEW q \in Path
      PROVE  WrittenBy(merged, n, q) \/ Has(d, n, q) = HadThere(n, q)
  <2>1. n \in Present(e.nodes) /\ n \in Node
    BY <1>3 DEF GoneFrom, Present
  <2>2. WrittenBy(merged, n, q) \/ Has(e, n, q) = HadThere(n, q)
    BY <2>1 DEF Spared
  <2>3. WrittenBy(merged, n, q) \/ Has(d, n, q) \in {Has(e, n, q), HadThere(n, q)}
    BY <2>1 DEF Keeps
  <2>4. QED BY <2>2, <2>3
<1>6. QED BY <1>4, <1>5 DEF Spared

\* A move that leaves the data, or writes where it is written, keeps the rest.
LEMMA MovedKeeps ==
    ASSUME NEW e, NEW d, NEW V, NEW ids, NEW edits, Moved(e, d, V, ids, edits), NEW merged,
           \A n \in Node, q \in Path :
              WrittenBy(merged, n, q) \/ Read(V[n].at[q]) \in {Has(e, n, q), HadThere(n, q)}
    PROVE  Keeps(e, d, merged)
BY DEF Moved, Keeps, Has

\* Other references leave all data.
LEMMA RelinkedKeeps ==
    ASSUME NEW e, NEW d, NEW ids, Relinked(e, d, ids), NEW merged
    PROVE  Keeps(e, d, merged)
BY DEF Relinked, Keeps, Has

\* The data that the parent has is that of the view.
LEMMA OriginalOf ==
    ASSUME graph \in [Node -> NodeSnapshot \cup {Absent}], NEW n \in Node
    PROVE  Original(n) = View(graph)[n].at /\ Original(n) \in [Path -> Value]
BY ViewTyped DEF Original, View, NewSnapshot, NodeSnapshot, Value

\* A path on the way to another, beyond it, or the same.
Along(x, q) == IsPrefix(x, q) \/ IsPrefix(q, x)

\* What is set deep in data, or resized there, changes nothing else but to
\* what the original has.
LEMMA DeepSetKeeps ==
    ASSUME NEW now \in [Path -> Value], NEW original \in [Path -> Value], NEW path \in Path,
           NEW v \in Value, NEW length
    PROVE  /\ DeepSet(now, original, path, v) \in [Path -> Value]
           /\ \A q \in Path : Along(path, q) \/ DeepSet(now, original, path, v)[q] \in {now[q], original[q]}
           /\ Resized(now, original, path, length) \in [Path -> Value]
           /\ \A q \in Path : Along(path, q) \/ Resized(now, original, path, length)[q] \in {now[q], original[q]}
<1>1. Missing \in Value /\ Here \in Value
  BY DEF Value
<1>2. \A q \in Path : q = path \/ IsStrictPrefix(path, q) \/ IsStrictPrefix(q, path) => Along(path, q)
  <2>1. Len(path) \in Nat
    BY PathAssumption
  <2>2. IsPrefix(path, path)
    BY <2>1 DEF IsPrefix
  <2>3. QED BY <2>2 DEF Along, IsStrictPrefix
<1>3. ASSUME NEW w \in Value
      PROVE  /\ DeepSet(now, original, path, w) \in [Path -> Value]
             /\ \A q \in Path : Along(path, q) \/ DeepSet(now, original, path, w)[q] \in {now[q], original[q]}
  <2> DEFINE at == DeepSet(now, original, path, w)
  <2>1. at = [q \in Path |-> at[q]]
    BY DEF DeepSet
  <2>2. ASSUME NEW q \in Path
        PROVE  at[q] \in Value /\ (Along(path, q) \/ at[q] \in {now[q], original[q]})
    <3>1. now[q] \in Value /\ original[q] \in Value
      OBVIOUS
    <3>2. QED BY <1>1, <1>2, <1>3, <3>1 DEF DeepSet
  <2> HIDE DEF at
  <2>3. /\ at \in [Path -> Value]
        /\ \A q \in Path : Along(path, q) \/ at[q] \in {now[q], original[q]}
    BY <2>1, <2>2
  <2>4. QED BY <2>3 DEF at
<1>4. PICK set : set = DeepSet(now, original, path, Here)
  OBVIOUS
<1>5. /\ set \in [Path -> Value]
      /\ \A q \in Path : Along(path, q) \/ set[q] \in {now[q], original[q]}
  BY <1>1, <1>3, <1>4
<1> DEFINE re == Resized(now, original, path, length)
<1>6. /\ re = [q \in Path |-> re[q]]
      /\ \A q \in Path : re[q] = now[q] \/ re[q] = set[q]
  BY <1>4 DEF Resized
<1> HIDE DEF re
<1>7. /\ re \in [Path -> Value]
      /\ \A q \in Path : Along(path, q) \/ re[q] \in {now[q], original[q]}
  BY <1>5, <1>6
<1>8. QED BY <1>3, <1>7 DEF re

\* An edit of the data where it is written keeps the rest.
LEMMA EditKeeps ==
    ASSUME graph \in [Node -> NodeSnapshot \cup {Absent}],
           NEW e \in Editor, NEW n \in Node, NEW at \in [Path -> Value], NEW merged,
           \A q \in Path : WrittenBy(merged, n, q) \/ at[q] \in {NodeData(e, n)[q], Original(n)[q]},
           NEW d, d = Edit(e, n, at), ~d.failed
    PROVE  Keeps(e, d, merged)
<1> DEFINE V == View(e.nodes)
           W == WithData(V, n, at)
<1>1. Moved(e, d, W, {n}, {n})
  BY EditMoves
<1>2. V \in [Node -> NodeSnapshot] /\ NodeData(e, n) = V[n].at /\ Original(n) = View(graph)[n].at
  BY ViewTyped, DataOf, OriginalOf DEF Editor
<1>3. W[n].at = at /\ \A m \in Node \ {n} : W[m] = V[m]
  BY <1>2 DEF WithData, NodeSnapshot
<1> HIDE DEF W
<1>4. ASSUME NEW m \in Node, NEW q \in Path
      PROVE  WrittenBy(merged, m, q) \/ Read(W[m].at[q]) \in {Has(e, m, q), HadThere(m, q)}
  <2>1. CASE m = n
    BY <1>2, <1>3, <2>1 DEF Has, HadThere
  <2>2. CASE m # n
    BY <1>3, <2>2 DEF Has
  <2>3. QED BY <2>1, <2>2
<1>5. QED BY <1>1, <1>4, MovedKeeps

\* A value that is set deep in data, and a list that is resized, keep what is
\* not along their path.
LEMMA SetKeeps ==
    ASSUME graph \in [Node -> NodeSnapshot \cup {Absent}],
           NEW e \in Editor, NEW n \in Node, NEW path \in Path, NEW merged,
           \A q \in Path : Along(path, q) => WrittenBy(merged, n, q)
    PROVE  /\ \A v \in Value : ~SetValue(e, n, path, v).failed => Keeps(e, SetValue(e, n, path, v), merged)
           /\ \A length : LET d == Edit(e, n, Resized(NodeData(e, n), Original(n), path, length))
                          IN  ~d.failed => Keeps(e, d, merged)
<1>1. NodeData(e, n) \in [Path -> Value] /\ Original(n) \in [Path -> Value]
  BY DataOf, OriginalOf
<1>2. ASSUME NEW v \in Value, NEW d, d = SetValue(e, n, path, v), ~d.failed PROVE Keeps(e, d, merged)
  <2>1. PICK at : at = DeepSet(NodeData(e, n), Original(n), path, v)
    OBVIOUS
  <2>2. /\ at \in [Path -> Value]
        /\ \A q \in Path : Along(path, q) \/ at[q] \in {NodeData(e, n)[q], Original(n)[q]}
    BY <1>1, <2>1, DeepSetKeeps
  <2>3. d = Edit(e, n, at)
    BY <1>2, <2>1 DEF SetValue
  <2>4. QED BY <1>2, <2>2, <2>3, EditKeeps
<1>3. ASSUME NEW length, NEW d, d = Edit(e, n, Resized(NodeData(e, n), Original(n), path, length)), ~d.failed
      PROVE  Keeps(e, d, merged)
  <2>1. PICK at : at = Resized(NodeData(e, n), Original(n), path, length)
    OBVIOUS
  <2>2. Null \in Value
    BY DEF Value
  <2>3. /\ at \in [Path -> Value]
        /\ \A q \in Path : Along(path, q) \/ at[q] \in {NodeData(e, n)[q], Original(n)[q]}
    BY <1>1, <2>1, <2>2, DeepSetKeeps
  <2>4. d = Edit(e, n, at)
    BY <1>3, <2>1
  <2>5. QED BY <1>3, <2>3, <2>4, EditKeeps
<1>4. QED BY <1>2, <1>3

\* A leaf is no part of what references and lists have.
LEMMA LeafKeeps ==
    ASSUME graph \in [Node -> NodeSnapshot \cup {Absent}],
           NEW e \in Editor, NEW n \in Node, NEW v \in Scalar, NEW merged,
           NEW d, d = Edit(e, n, NodeData(e, n)), ~d.failed,
           NEW f, f = [d EXCEPT !.nodes[n].leaf = v]
    PROVE  Keeps(e, f, merged)
<1>1. NodeData(e, n) \in [Path -> Value]
  BY DataOf
<1>2. Keeps(e, d, merged)
  BY <1>1, EditKeeps
<1>3. d \in Editor /\ n \in Present(d.nodes)
  <2>1. PICK at : at = NodeData(e, n)
    OBVIOUS
  <2>2. Moved(e, d, WithData(View(e.nodes), n, at), {n}, {n})
    BY <1>1, <2>1, EditMoves
  <2>3. QED BY <2>2 DEF Moved
<1>4. d.nodes \in [Node -> NodeSnapshot \cup {Absent}] /\ d.nodes[n] \in NodeSnapshot
  BY <1>3 DEF Editor, Present
<1>5. PICK s : s = [d.nodes[n] EXCEPT !.leaf = v]
  OBVIOUS
<1>6. s \in NodeSnapshot /\ s.at = d.nodes[n].at /\ s # Absent
  <2>1. s \in NodeSnapshot /\ s.at = d.nodes[n].at
    BY <1>4, <1>5 DEF NodeSnapshot
  <2>2. QED BY <2>1, AbsentAssumption
<1>7. f.nodes = [d.nodes EXCEPT ![n] = s] /\ f.made = d.made
  BY <1>3, <1>5 DEF Editor
<1>8. Present(f.nodes) = Present(d.nodes)
  BY <1>3, <1>4, <1>6, <1>7 DEF Present
<1>9. \A m \in Node : View(f.nodes)[m].at = View(d.nodes)[m].at
  <2>1. View(d.nodes)[n] = d.nodes[n] /\ View(f.nodes)[n] = s
    BY <1>3, <1>4, <1>6, <1>7 DEF View, Present
  <2>2. \A m \in Node \ {n} : View(f.nodes)[m] = View(d.nodes)[m]
    BY <1>4, <1>7 DEF View
  <2>3. QED BY <1>6, <2>1, <2>2
<1>10. QED BY <1>2, <1>7, <1>8, <1>9 DEF Keeps, Has

\* A parameterized field is made for a parameterized value that the parent
\* does not have, if the parent's nodes that are gone stay so.
LEMMA FieldKeeps ==
    ASSUME NEW e, GoneKept(e), NEW R, NEW m \in Param, NEW o, NEW q, Owner(m) = [id |-> o, path |-> q],
           NEW d, FieldMade(e, d, R, m, o, q), NEW merged
    PROVE  Keeps(e, d, merged)
<1>1. /\ m \notin Present(e.nodes) /\ FieldAdded(e, d, m, o, q)
      /\ o \notin Present(e.nodes) => o \notin e.made
  BY DEF FieldMade
<1>2. /\ Present(d.nodes) = Present(e.nodes) \cup {m, o} /\ d.made = e.made \cup {m, o}
      /\ \A n \in Node : View(d.nodes)[n].at = View(e.nodes)[n].at
  BY <1>1 DEF FieldAdded
<1>3. m \notin Present(graph)
  <2>1. SUFFICES ASSUME m \in Present(graph) PROVE FALSE
    OBVIOUS
  <2>2. m \in GoneFrom(e) /\ Owner(m).id = o
    BY <1>1, <2>1 DEF GoneFrom
  <2>3. o \in GoneFrom(e) /\ o \in e.made
    BY <2>2 DEF GoneKept
  <2>4. QED BY <1>1, <2>3 DEF GoneFrom
<1>4. QED BY <1>1, <1>2, <1>3 DEF Keeps, Has

\* The walk of an instruction spares what no payload writes.
LEMMA InstructionSpares ==
    ASSUME graph \in [Node -> NodeSnapshot \cup {Absent}],
           NEW w, NEW p \in Payload, NEW k \in DOMAIN p, NEW l, l = k - 1, NEW old,
           WalkedTo(w, p, l, old), ~w.editor.failed, NEW merged, Covers(merged, p),
           Spared(w.editor, merged), NEW x, x = Walk(w, p[k]), ~x.editor.failed
    PROVE  Spared(x.editor, merged)
<1> DEFINE n == p[k].node
           q == p[k].path
<1>1. PICK e, d : e = w.editor /\ d = x.editor
  OBVIOUS
<1>2. /\ w = [editor |-> e, edits |-> w.edits] /\ ~e.failed /\ Sound(e) /\ e \in Editor
      /\ WalkInv(e, Collected(w.edits), p, l) /\ Spared(e, merged) /\ ~d.failed
  BY <1>1 DEF WalkedTo, Sound
<1>3. /\ p[k].op \in {"leaf", "ref", "list", "param", "fragment"}
      /\ p[k].op = "fragment" => n \in Entity
      /\ p[k].op \in {"leaf", "ref", "list"} => n \in Node
      /\ p[k].op \in {"ref", "list"} => q \in Path
      /\ p[k].op = "leaf" => p[k].value \in Scalar
      /\ p[k].op = "param" => n \in Param
  BY InstructionTyped
<1>4. p[k].op \in {"ref", "list"} => \A g \in Path : Along(q, g) => WrittenBy(merged, n, g)
  <2>1. SUFFICES ASSUME p[k].op \in {"ref", "list"}, NEW g \in Path, Along(q, g)
                 PROVE  WrittenBy(merged, n, g)
    OBVIOUS
  <2>2. Writes(p[k], n, g)
    BY <2>1 DEF Writes, Along
  <2>3. QED BY <1>3, <2>1, <2>2 DEF Covers
<1>5. SUFFICES ASSUME d # e PROVE Keeps(e, d, merged)
  <2>1. d = e \/ Keeps(e, d, merged) => Spared(d, merged)
    BY <1>2, SparedStep
  <2>2. QED BY <1>1, <1>5, <2>1
<1>6. CASE p[k].op = "leaf"
  <2>1. PICK c : c = Edit(e, n, NodeData(e, n))
    OBVIOUS
  <2>2. x = WalkLeaf(w, p[k])
    BY <1>1, <1>2, <1>6 DEF Walk
  <2>3. d = IF c.failed THEN c ELSE [c EXCEPT !.nodes[n].leaf = p[k].value]
    BY <1>1, <1>2, <1>5, <2>1, <2>2 DEF WalkLeaf
  <2>4. ~c.failed
    BY <1>2, <2>3
  <2>5. d = [c EXCEPT !.nodes[n].leaf = p[k].value]
    BY <2>3, <2>4
  <2>6. QED BY <1>2, <1>3, <1>6, <2>1, <2>4, <2>5, LeafKeeps
<1>7. CASE p[k].op = "ref"
  <2>1. x = WalkRef(w, p[k])
    BY <1>1, <1>2, <1>7 DEF Walk
  <2>2. d = SetValue(e, n, q, Null)
    BY <1>1, <1>2, <1>5, <2>1 DEF WalkRef
  <2>3. Null \in Value
    BY DEF Value
  <2> HIDE DEF n, q
  <2>4. QED BY <1>2, <1>3, <1>4, <1>7, <2>2, <2>3, SetKeeps
<1>8. CASE p[k].op = "list"
  <2>1. x = WalkList(w, p[k])
    BY <1>1, <1>2, <1>8 DEF Walk
  <2>2. d = Edit(e, n, Resized(NodeData(e, n), Original(n), q, p[k].length))
    <3> DEFINE has == e.nodes[n]
               now == IF has = Absent THEN 0
                      ELSE Cardinality({g \in Path : IsStrictPrefix(q, g) /\ has.at[g] # Missing})
               beyond == IF now <= p[k].length THEN {}
                         ELSE {r \in has.outbound : IsStrictPrefix(q, r.path)
                                                    /\ r.path[Len(q) + 1] > p[k].length}
               drops == {ReferenceEdit(n, r.path, r.id, Null, FALSE) : r \in beyond}
               c == Edit(e, n, Resized(NodeData(e, n), Original(n), q, p[k].length))
               z == WalkList(w, p[k])
    <3>1. z = IF now = p[k].length /\ ValueAt(e, n, q) = Here THEN w
              ELSE [editor |-> c, edits |-> w.edits \o SetToSeq(drops)]
      BY <1>1 DEF WalkList
    <3>2. x = z
      BY <2>1
    <3> HIDE DEF z, c, now, drops
    <3>3. x.editor = e \/ x.editor = c
      BY <1>1, <3>1, <3>2
    <3>4. QED BY <1>1, <1>5, <3>3 DEF c
  <2>3. PICK length : length = p[k].length
    OBVIOUS
  <2> HIDE DEF n, q
  <2>4. QED BY <1>2, <1>3, <1>4, <1>8, <2>2, <2>3, SetKeeps
<1>9. CASE p[k].op = "param"
  <2>1. x = WalkParam(w, p[k])
    BY <1>1, <1>2, <1>9 DEF Walk
  <2>2. PICK o, g : o = Owner(n).id /\ g = Owner(n).path
    OBVIOUS
  <2>3. Owner(n) \in Reference
    BY <1>3, <1>9, PayloadAssumption
  <2>4. Owner(n) = [id |-> o, path |-> g] /\ o \in Node /\ g \in Path
    BY <2>2, <2>3 DEF Reference
  <2>5. PICK ref : ref = [id |-> n, path |-> g]
    OBVIOUS
  <2>6. x = IF e.nodes[o] # Absent /\ ref \in e.nodes[o].outbound THEN w
            ELSE [w EXCEPT !.editor = AddReference(Placed(e, n, Owner(n)), "outbound", o, ref)]
    BY <1>1, <1>2, <2>1, <2>2, <2>5 DEF WalkParam, Placed
  <2>7. /\ ~(e.nodes[o] # Absent /\ ref \in e.nodes[o].outbound)
        /\ d = AddReference(Placed(e, n, Owner(n)), "outbound", o, ref)
    BY <1>1, <1>2, <1>5, <2>6
  <2>8. ref \notin View(e.nodes)[o].outbound
    BY <2>4, <2>7 DEF View, NewSnapshot
  <2>9. PICK m, R : m = n /\ R = Collected(w.edits)
    OBVIOUS
  <2>10. /\ m \in Param /\ m = p[k].node /\ Owner(m) = [id |-> o, path |-> g]
         /\ [id |-> m, path |-> g] \notin View(e.nodes)[o].outbound
         /\ d = AddReference(Placed(e, m, [id |-> o, path |-> g]), "outbound", o, [id |-> m, path |-> g])
         /\ WalkInv(e, R, p, l)
    BY <1>2, <1>3, <1>9, <2>4, <2>5, <2>7, <2>8, <2>9
  <2> HIDE DEF n, q
  <2>11. FieldMade(e, d, R, m, o, g)
    BY <1>2, <1>9, <2>10, FieldIsMade
  <2>12. GoneKept(e)
    BY <1>2 DEF Spared
  <2>13. QED BY <2>10, <2>11, <2>12, FieldKeeps
<1>10. CASE p[k].op = "fragment"
  <2>1. x = WalkFragment(w, p[k])
    BY <1>1, <1>2, <1>10 DEF Walk
  <2>2. PICK a, f : a = AddReference(e, "outbound", n, Self(n)) /\ f = AddReference(a, "inbound", n, Self(n))
    OBVIOUS
  <2>3. x = w \/ x = [w EXCEPT !.editor = f] \/ x = [w EXCEPT !.editor.failed = TRUE]
    BY <1>1, <2>1, <2>2 DEF WalkFragment
  <2>4. d = f
    <3>1. x # w
      BY <1>1, <1>5
    <3>2. x # [w EXCEPT !.editor.failed = TRUE]
      <4>1. [w EXCEPT !.editor.failed = TRUE].editor = [w.editor EXCEPT !.failed = TRUE]
        BY <1>2 DEF WalkedTo
      <4>2. [w.editor EXCEPT !.failed = TRUE].failed
        BY <1>1, <1>2 DEF Editor
      <4>3. QED BY <1>1, <1>2, <4>1, <4>2
    <3>3. [w EXCEPT !.editor = f].editor = f
      BY <1>2
    <3>4. QED BY <1>1, <2>3, <3>1, <3>2, <3>3
  <2>5. n \in Entity /\ n \in Node /\ <<>> \in Path /\ Self(n) = [id |-> n, path |-> <<>>]
    BY <1>3, <1>10, PathAssumption DEF Node, Self
  <2>6. PICK m : m = n
    OBVIOUS
  <2>7. Added(e, d, m, <<>>, m)
    <3> HIDE DEF n
    <3>1. QED BY <1>2, <2>2, <2>4, <2>5, <2>6, LinkAdds
  <2>8. Relinked(e, d, {m, m})
    BY <2>7 DEF Added
  <2>9. QED BY <2>8, RelinkedKeeps
<1>11. QED BY <1>3, <1>6, <1>7, <1>8, <1>9, <1>10

\* A step of the walk: it has failed, or still spares what it spared.
StillSpares(w, p, k, old, merged) ==
    /\ WalkedTo(w, p, k, old)
    /\ ~w.editor.failed => Spared(w.editor, merged)

\* The walk of a payload spares what no payload writes.
LEMMA WalkSpares ==
    ASSUME graph \in [Node -> NodeSnapshot \cup {Absent}],
           NEW p \in Payload, NEW e \in Editor, ~e.failed, GraphInv(e.nodes), EditsTell(e), Starts(e, p),
           NEW merged, Covers(merged, p), Spared(e, merged),
           NEW w, w = Walked([editor |-> e, edits |-> <<>>], p), ~w.editor.failed
    PROVE  Spared(w.editor, merged)
<1> DEFINE base == [editor |-> e, edits |-> <<>>]
           n == Len(p)
           old == e.merged
<1>1. n \in Nat /\ DOMAIN p = 1..n
  BY PayloadAssumption
<1>2. PICK g : /\ g[0] = base
               /\ \A k \in 1..n : g[k] = Walk(g[k - 1], p[k])
               /\ w = g[n]
  <2>0. w = Walked(base, p)
    OBVIOUS
  <2> HIDE DEF base, n, old
  <2>1. n \in Nat /\ DOMAIN p = 1..n
    BY <1>1
  <2>3. QED BY <2>0, <2>1, WalkSteps
<1> DEFINE T == {k \in 0..n : StillSpares(g[k], p, k, old, merged)}
<1>3. 0 \in T
  <2>1. base.editor = e
    OBVIOUS
  <2>2. WalkedTo(base, p, 0, old)
    BY WalkStarts
  <2> HIDE DEF base, n, old
  <2>3. QED BY <1>1, <1>2, <2>1, <2>2 DEF StillSpares
<1>4. ASSUME NEW k \in 1..n, k - 1 \in T PROVE k \in T
  <2>1. PICK v, l, x : v = g[k - 1] /\ l = k - 1 /\ x = g[k]
    OBVIOUS
  <2>2. StillSpares(v, p, l, old, merged) /\ x = Walk(v, p[k]) /\ k \in DOMAIN p /\ k \in 0..n
    BY <1>1, <1>2, <1>4, <2>1
  <2> HIDE DEF n, old
  <2>3. WalkedTo(x, p, k, old)
    BY <2>1, <2>2, InstructionWalked DEF StillSpares
  <2>4. ~x.editor.failed => ~v.editor.failed
    BY <2>2 DEF Walk
  <2>5. ~x.editor.failed => Spared(x.editor, merged)
    BY <2>1, <2>2, <2>4, InstructionSpares DEF StillSpares
  <2>6. QED BY <2>1, <2>2, <2>3, <2>5 DEF StillSpares
<1>5. n \in T
  <2> HIDE DEF T, n
  <2>1. \A k \in 0..n : k \in T
    BY <1>1, <1>3, <1>4, UpTo
  <2>2. QED BY <1>1, <2>1
<1>6. QED BY <1>2, <1>5 DEF StillSpares

\* A reference edit spares what no payload writes.
LEMMA RoundSpares ==
    ASSUME graph \in [Node -> NodeSnapshot \cup {Absent}],
           NEW p \in Payload, NEW e, NEW orphans, NEW R, EditState(e, orphans, R, p), NEW r \in R,
           NEW merged, Covers(merged, p), Spared(e, merged),
           NEW y, y = MergeReferenceEdit([editor |-> e, orphans |-> orphans], r), ~y.editor.failed
    PROVE  Spared(y.editor, merged)
<1>1. /\ r \in EditRecord /\ r.node \in Node /\ r.path \in Path /\ r.next \in Entity \cup {Null}
      /\ FromPayload(r, p)
  BY EditOrigin DEF EditState
<1>2. Sound(e) /\ ~e.failed /\ e \in Editor /\ r.next \in Present(e.nodes) \cup {Null}
  BY DEF EditState, Sound, EndsThere
<1>3. PICK a : a = IF ~r.write THEN e ELSE SetValue(e, r.node, r.path, EditValue(e, r))
  OBVIOUS
<1>4. PICK b : b = EnsureNewSnapshot(a, r.node)
  OBVIOUS
<1>5. PICK x : x = Unlink([editor |-> b, orphans |-> orphans], r)
  OBVIOUS
<1>6. y = Link(x, r)
  BY <1>2, <1>3, <1>4, <1>5 DEF MergeReferenceEdit, EditValue
<1>7. a \in Editor
  BY <1>3, EditWrites
<1>8. b \in Editor
  BY <1>1, <1>4, <1>7, StaysEditor
<1>9. /\ x = [editor |-> x.editor, orphans |-> x.orphans] /\ x.editor \in Editor
      /\ b.failed => x.editor.failed
      /\ ~x.editor.failed => \/ x.editor = b
                             \/ Dropped(b, x.editor, r.node, r.path, r.prev)
  BY <1>1, <1>5, <1>8, UnlinkEffect
<1>10. /\ x.editor.failed => y.editor.failed
       /\ ~y.editor.failed => Linked(x.editor, y.editor, r)
  <2>1. PICK f, left : f = x.editor /\ left = x.orphans
    OBVIOUS
  <2>2. x = [editor |-> f, orphans |-> left] /\ f \in Editor
    BY <1>9, <2>1
  <2>3. /\ f.failed => y.editor.failed
        /\ ~y.editor.failed => Linked(f, y.editor, r)
    BY <1>1, <1>6, <2>2, LinkEffect
  <2>4. QED BY <2>1, <2>3
<1>11. ~x.editor.failed /\ ~b.failed
  BY <1>9, <1>10
<1>12. ~a.failed /\ Moved(a, b, View(a.nodes), {r.node}, {})
  BY <1>1, <1>4, <1>7, <1>11, Ensured
<1>13. Spared(a, merged)
  <2>1. CASE ~r.write
    BY <1>3, <2>1
  <2>2. CASE r.write
    <3>1. PICK k \in DOMAIN p : p[k].op = "ref" /\ p[k].node = r.node /\ p[k].path = r.path
      BY <1>1, <2>2 DEF FromPayload
    <3>2. \A g \in Path : Along(r.path, g) => Writes(p[k], r.node, g)
      BY <3>1 DEF Writes, Along
    <3>3. \A g \in Path : Along(r.path, g) => WrittenBy(merged, r.node, g)
      BY <1>1, <3>2 DEF Covers
    <3>4. EditValue(e, r) \in Value
      BY <1>1, <1>2, EditValueOf
    <3>5. PICK n, q, v : n = r.node /\ q = r.path /\ v = EditValue(e, r)
      OBVIOUS
    <3>6. /\ n \in Node /\ q \in Path /\ v \in Value /\ a = SetValue(e, n, q, v)
          /\ \A g \in Path : Along(q, g) => WrittenBy(merged, n, g)
      BY <1>1, <1>3, <2>2, <3>3, <3>4, <3>5
    <3>7. Keeps(e, a, merged)
      BY <1>2, <1>12, <3>6, SetKeeps
    <3>8. QED BY <3>7, SparedStep
  <2>3. QED BY <2>1, <2>2
<1>14. Spared(b, merged)
  <2>1. PICK V : V = View(a.nodes)
    OBVIOUS
  <2>2. \A n \in Node, q \in Path : Read(V[n].at[q]) = Has(a, n, q)
    BY <2>1 DEF Has
  <2>3. Keeps(a, b, merged)
    BY <1>12, <2>1, <2>2, MovedKeeps
  <2>4. QED BY <1>13, <2>3, SparedStep
<1>15. Spared(x.editor, merged)
  <2>1. x.editor = b \/ Keeps(b, x.editor, merged)
    BY <1>9, <1>11, RelinkedKeeps DEF Dropped
  <2>2. QED BY <1>14, <2>1, SparedStep
<1>16. y.editor = x.editor \/ Keeps(x.editor, y.editor, merged)
  BY <1>10, RelinkedKeeps DEF Linked, Added
<1>17. QED BY <1>15, <1>16, SparedStep

\* After k of the edits of a payload.
EditsSpare(m, edits, k, p, old, merged) ==
    /\ EditedTo(m, edits, k, p, old)
    /\ ~m.editor.failed => Spared(m.editor, merged)

\* The reference edits of a payload spare what no payload writes.
LEMMA PayloadSpares ==
    ASSUME graph \in [Node -> NodeSnapshot \cup {Absent}],
           NEW p \in Payload, NEW w, NEW old, WalkedTo(w, p, Len(p), old), w.editor \in Editor,
           NEW merged, Covers(merged, p), ~w.editor.failed => Spared(w.editor, merged),
           NEW m, m = EditsDone([editor |-> w.editor, orphans |-> {}], w.edits), ~m.editor.failed
    PROVE  Spared(m.editor, merged)
<1> DEFINE base == [editor |-> w.editor, orphans |-> {}]
           edits == w.edits
           n == Len(edits)
<1>1. edits \in Seq(EditRecord) /\ n \in Nat /\ DOMAIN edits = 1..n
  BY DEF WalkedTo
<1>2. PICK g : /\ g[0] = base
               /\ \A k \in 1..n : g[k] = MergeReferenceEdit(g[k - 1], edits[k])
               /\ m = g[n]
  <2>0. m = EditsDone(base, edits)
    OBVIOUS
  <2>1. PICK b, s, l : b = base /\ s = edits /\ l = n
    OBVIOUS
  <2>2. l \in Nat /\ DOMAIN s = 1..l /\ m = EditsDone(b, s)
    BY <1>1, <2>0, <2>1
  <2> HIDE DEF base, n, edits
  <2>3. \E g : /\ g[0] = b
               /\ \A k \in 1..l : g[k] = MergeReferenceEdit(g[k - 1], s[k])
               /\ EditsDone(b, s) = g[l]
    BY <2>2, EditSteps
  <2>4. QED BY <2>1, <2>2, <2>3
<1> DEFINE T == {k \in 0..n : EditsSpare(g[k], edits, k, p, old, merged)}
<1>3. 0 \in T
  <2>1. base.editor = w.editor /\ base.orphans = {} /\ base = [editor |-> base.editor, orphans |-> base.orphans]
    OBVIOUS
  <2>2. ~w.editor.failed => w.editor.merged = old /\ EditState(w.editor, {}, Rest(edits, 0), p)
    <3>1. Rest(edits, 0) = Collected(edits)
      BY <1>1, AllRest
    <3>2. QED BY <3>1, EditsStart DEF WalkedTo
  <2> HIDE DEF base
  <2>3. EditedTo(base, edits, 0, p, old)
    BY <2>1, <2>2 DEF EditedTo
  <2>4. QED BY <1>1, <1>2, <2>1, <2>3 DEF EditsSpare
<1>4. ASSUME NEW k \in 1..n, k - 1 \in T PROVE k \in T
  <2>1. PICK v, l, y : v = g[k - 1] /\ l = k - 1 /\ y = g[k]
    OBVIOUS
  <2>2. /\ EditedTo(v, edits, l, p, old) /\ y = MergeReferenceEdit(v, edits[k]) /\ k \in 1..Len(edits)
        /\ k \in 0..n
        /\ ~v.editor.failed => Spared(v.editor, merged)
    BY <1>1, <1>2, <1>4, <2>1 DEF EditsSpare
  <2> HIDE DEF n, edits
  <2>3. EditedTo(y, edits, k, p, old)
    BY <1>1, <2>1, <2>2, EditDone
  <2>4. ASSUME ~y.editor.failed PROVE Spared(y.editor, merged)
    <3>1. PICK e, orphans, R, r : /\ e = v.editor /\ orphans = v.orphans
                                  /\ R = Rest(edits, l) /\ r = edits[k]
      OBVIOUS
    <3>2. /\ v = [editor |-> e, orphans |-> orphans] /\ e \in Editor
          /\ ~e.failed => EditState(e, orphans, R, p) /\ Spared(e, merged)
          /\ y = MergeReferenceEdit([editor |-> e, orphans |-> orphans], r)
      BY <2>2, <3>1 DEF EditedTo
    <3>3. r \in R /\ r \in EditRecord
      BY <1>1, <2>1, <2>2, <3>1, RestOf
    <3>4. ~e.failed
      BY <2>4, <3>2, <3>3, FailedEdit
    <3>5. EditState(e, orphans, R, p) /\ Spared(e, merged)
      BY <3>2, <3>4
    <3>6. QED BY ONLY graph \in [Node -> NodeSnapshot \cup {Absent}], p \in Payload, Covers(merged, p),
                     <2>4, <3>2, <3>3, <3>5, RoundSpares
  <2>5. QED BY <2>1, <2>2, <2>3, <2>4 DEF EditsSpare
<1>5. n \in T
  <2> HIDE DEF T, n
  <2>1. \A k \in 0..n : k \in T
    BY <1>1, <1>3, <1>4, UpTo
  <2>2. QED BY <1>1, <2>1
<1>6. QED BY <1>2, <1>5 DEF EditsSpare

\* A parameterized field that is there is referred to by what it hangs on, if
\* that is there.
Held(e) ==
    \A m \in Param \cap Present(e.nodes) :
        \/ Owner(m).id \notin Present(e.nodes)
        \/ [id |-> m, path |-> Owner(m).path] \in View(e.nodes)[Owner(m).id].outbound

\* Only the field that it is refers to a parameterized node.
LEMMA HeldByOwner ==
    ASSUME NEW nodes \in [Node -> NodeSnapshot \cup {Absent}], EndsMatch(View(nodes)),
           ReferencesLed(View(nodes)), NEW m \in Param, View(nodes)[m].inbound # {}
    PROVE  /\ [id |-> m, path |-> Owner(m).path] \in View(nodes)[Owner(m).id].outbound
           /\ Owner(m).id \in Present(nodes)
<1> DEFINE V == View(nodes)
<1>1. m \in Node /\ m \notin Entity /\ V \in [Node -> NodeSnapshot]
  BY NodeAssumption, ViewTyped DEF Node
<1>2. Owner(m) \in Reference
  BY PayloadAssumption
<1> HIDE DEF V
<1>3. PICK r : r \in V[m].inbound
  BY DEF V
<1>4. r = [id |-> r.id, path |-> r.path] /\ r.id \in Node /\ r.path \in Path
  BY <1>1, <1>3 DEF NodeSnapshot, Reference
<1>5. PICK n, q : n = r.id /\ q = r.path
  OBVIOUS
<1>6. n \in Node /\ q \in Path /\ [id |-> n, path |-> q] \in V[m].inbound
  BY <1>3, <1>4, <1>5
<1>7. [id |-> m, path |-> q] \in V[n].outbound
  BY <1>1, <1>6 DEF EndsMatch, V
<1>8. Owner(m) = [id |-> n, path |-> q]
  BY <1>1, <1>6, <1>7 DEF ReferencesLed, V
<1>9. Owner(m).id = n /\ Owner(m).path = q
  BY <1>8
<1>10. V[n].outbound # {}
  BY <1>7
<1>11. n \in Present(nodes)
  BY <1>6, <1>10, ReferredIsThere DEF V
<1>12. QED BY <1>7, <1>9, <1>11 DEF V

\* When all edits are done, only entities are orphans.
LEMMA HeldAfterEdits ==
    ASSUME NEW p \in Payload, NEW e, NEW orphans, EditState(e, orphans, {}, p)
    PROVE  Held(e)
<1>1. /\ Sound(e) /\ OrphansFound(View(e.nodes), Present(e.nodes), {}, orphans)
  BY DEF EditState
<1>2. /\ e.nodes \in [Node -> NodeSnapshot \cup {Absent}]
      /\ EndsMatch(View(e.nodes)) /\ ReferencesLed(View(e.nodes))
  BY <1>1 DEF Sound, Editor
<1>3. ASSUME NEW m \in Param \cap Present(e.nodes) PROVE View(e.nodes)[m].inbound # {}
  <2>1. m \notin Root /\ m \notin Entity
    BY NodeAssumption
  <2>2. QED BY <1>1, <2>1 DEF OrphansFound, Apart, Unnamed
<1>4. QED BY <1>2, <1>3, HeldByOwner DEF Held

\* A collected node takes with it no value of one that stays.
LEMMA TakenSpares ==
    ASSUME graph \in [Node -> NodeSnapshot \cup {Absent}], GraphInv(graph),
           NEW e, NEW queue, CollectState(e, queue), NEW id \in queue, NEW d, TakenOut(e, d, id),
           NEW merged, Spared(e, merged), Held(e)
    PROVE  Spared(d, merged) /\ Held(d)
<1> DEFINE V == View(e.nodes)
           W == View(d.nodes)
           P == Present(e.nodes)
           Q == Present(d.nodes)
<1>1. /\ id \in P \ Root /\ id \in Node /\ V[id].inbound = {} /\ EndsMatch(V)
  BY DEF CollectState, Queued, Sound, Present
<1>2. /\ Q = P \ {id} /\ e.made \subseteq d.made /\ id \in d.made
      /\ \A n \in Node \ {id} : W[n].at = V[n].at /\ W[n].outbound = V[n].outbound
  BY DEF TakenOut
<1>3. \A m \in Param : m \in Node /\ Owner(m) \in Reference /\ Owner(m).id \in Node /\ Owner(m).path \in Path
  BY PayloadAssumption DEF Node, Reference
<1>4. /\ GoneFrom(e) \subseteq e.made
      /\ \A n \in GoneFrom(e) \cap Param : Owner(n).id \in GoneFrom(e)
      /\ \A n \in Present(graph) \cap P, q \in Path :
            WrittenBy(merged, n, q) \/ Has(e, n, q) = HadThere(n, q)
  BY DEF Spared, GoneKept
<1>5. GoneFrom(d) = GoneFrom(e) \cup ({id} \cap Present(graph))
  BY <1>1, <1>2 DEF GoneFrom
<1>6. ASSUME id \in Param, id \in Present(graph) PROVE Owner(id).id \in GoneFrom(e)
  <2>1. Owner(id).id \notin P
    <3>1. ASSUME Owner(id).id \in P PROVE FALSE
      <4>1. [id |-> id, path |-> Owner(id).path] \in V[Owner(id).id].outbound
        BY <1>1, <1>6, <3>1 DEF Held
      <4>2. [id |-> Owner(id).id, path |-> Owner(id).path] \in V[id].inbound
        BY <1>1, <1>3, <1>6, <4>1 DEF EndsMatch
      <4>3. QED BY <1>1, <4>2
    <3>2. QED BY <3>1
  <2>2. View(graph)[id].inbound # {}
    <3>1. graph[id].inbound # {} /\ View(graph)[id] = graph[id]
      BY <1>1, <1>6, NodeAssumption DEF GraphInv, OrphansGone, View, Present, Unnamed
    <3>2. QED BY <3>1
  <2>3. Owner(id).id \in Present(graph)
    BY <1>6, <2>2, HeldByOwner DEF GraphInv
  <2>4. QED BY <2>1, <2>3 DEF GoneFrom
<1>7. GoneKept(d)
  <2>1. GoneFrom(d) \subseteq d.made
    BY <1>2, <1>4, <1>5
  <2>2. \A n \in GoneFrom(d) \cap Param : Owner(n).id \in GoneFrom(d)
    BY <1>4, <1>5, <1>6
  <2>3. QED BY <2>1, <2>2 DEF GoneKept
<1>8. ASSUME NEW n \in Present(graph) \cap Q, NEW q \in Path
      PROVE  WrittenBy(merged, n, q) \/ Has(d, n, q) = HadThere(n, q)
  <2>1. n \in Present(graph) \cap P /\ n \in Node \ {id}
    BY <1>2 DEF Present
  <2>2. Has(d, n, q) = Has(e, n, q)
    BY <1>2, <2>1 DEF Has
  <2>3. QED BY <1>4, <2>1, <2>2
<1>9. Held(d)
  <2>1. SUFFICES ASSUME NEW m \in Param \cap Q, Owner(m).id \in Q
        PROVE  [id |-> m, path |-> Owner(m).path] \in W[Owner(m).id].outbound
    BY DEF Held
  <2>2. [id |-> m, path |-> Owner(m).path] \in V[Owner(m).id].outbound
    BY <1>2, <2>1 DEF Held
  <2>3. Owner(m).id \in Node \ {id}
    BY <1>2, <1>3, <2>1
  <2>4. QED BY <1>2, <2>2, <2>3
<1>10. QED BY <1>7, <1>8, <1>9 DEF Spared

\* After k rounds of the collection that begins with an editor e.
CollectSpare(m, k, e, merged) ==
    /\ CollectedTo(m, k, e.merged)
    /\ ~m.editor.failed => ~e.failed /\ Spared(m.editor, merged) /\ Held(m.editor)

\* One step of the collection spares what no payload writes.
LEMMA CollectSpares ==
    ASSUME graph \in [Node -> NodeSnapshot \cup {Absent}], GraphInv(graph),
           NEW k \in Nat \ {0}, NEW l, l = k - 1, NEW m, NEW start, NEW merged,
           CollectSpare(m, l, start, merged), NEW y, y = CollectOne(m)
    PROVE  CollectSpare(y, k, start, merged)
<1>1. /\ CollectedTo(m, l, start.merged)
      /\ ~m.editor.failed => ~start.failed /\ Spared(m.editor, merged) /\ Held(m.editor)
  BY DEF CollectSpare
<1>2. CollectedTo(y, k, start.merged)
  BY <1>1, CollectDone
<1>3. PICK e, queue : e = m.editor /\ queue = m.queue
  OBVIOUS
<1>4. m = [editor |-> e, queue |-> queue]
  BY <1>1, <1>3 DEF CollectedTo
<1>5. CASE e.failed \/ queue = {}
  <2>1. y = m
    BY <1>3, <1>5 DEF CollectOne
  <2>2. QED BY <1>1, <1>2, <2>1 DEF CollectSpare
<1>6. CASE ~e.failed /\ queue # {}
  <2>1. CollectState(e, queue) /\ Spared(e, merged) /\ Held(e)
    BY <1>1, <1>3, <1>6 DEF CollectedTo
  <2>2. y = CollectOne([editor |-> e, queue |-> queue])
    BY <1>4
  <2>3. ~y.editor.failed => \E id \in queue : TakenOut(e, y.editor, id)
    BY <1>6, <2>1, <2>2, OrphanCollected
  <2>4. ASSUME ~y.editor.failed PROVE Spared(y.editor, merged) /\ Held(y.editor)
    <3>1. PICK id \in queue : TakenOut(e, y.editor, id)
      BY <2>3, <2>4
    <3>2. PICK d : d = y.editor
      OBVIOUS
    <3>3. Spared(d, merged) /\ Held(d)
      BY <2>1, <3>1, <3>2, TakenSpares
    <3>4. QED BY <3>2, <3>3
  <2>5. ~start.failed
    BY <1>1, <1>3, <1>6
  <2>6. QED BY <1>2, <2>4, <2>5 DEF CollectSpare
<1>7. QED BY <1>5, <1>6

\* Garbage collection spares what no payload writes.
LEMMA RemovalSpares ==
    ASSUME graph \in [Node -> NodeSnapshot \cup {Absent}], GraphInv(graph),
           NEW e \in Editor, NEW orphans, NEW merged,
           ~e.failed => CollectState(e, orphans) /\ Spared(e, merged) /\ Held(e),
           NEW d, d = RemoveOrphanedNodes(e, orphans)
    PROVE  ~d.failed => ~e.failed /\ Spared(d, merged)
<1> DEFINE base == [editor |-> e, queue |-> orphans]
           N == Cardinality(Node)
           n == 2 * N
<1>1. N \in Nat /\ n \in Nat
  BY NodesCounted
<1>2. d = Swept(base, n).editor
  BY DEF RemoveOrphanedNodes, Swept
<1>3. PICK g : /\ g[0] = base
               /\ \A k \in 1..n : g[k] = CollectOne(g[k - 1])
               /\ Swept(base, n) = g[n]
  <2>1. PICK b, l : b = base /\ l = n
    OBVIOUS
  <2>2. l \in Nat
    BY <1>1, <2>1
  <2> HIDE DEF base, n
  <2>3. \E g : /\ g[0] = b
               /\ \A k \in 1..l : g[k] = CollectOne(g[k - 1])
               /\ Swept(b, l) = g[l]
    BY <2>2, CollectSteps
  <2>4. QED BY <2>1, <2>3
<1> DEFINE T == {k \in 0..n : CollectSpare(g[k], k, e, merged)}
<1>4. 0 \in T
  <2>1. base = [editor |-> base.editor, queue |-> base.queue] /\ base.editor = e /\ base.queue = orphans
    OBVIOUS
  <2>2. Cardinality(Present(e.nodes)) <= N - 0
    <3>1. Cardinality(Present(e.nodes)) <= N
      BY NodesCounted
    <3> HIDE DEF N
    <3>2. QED BY <1>1, <3>1
  <2> HIDE DEF base
  <2>3. CollectedTo(base, 0, e.merged)
    BY <2>1, <2>2 DEF CollectedTo
  <2>4. CollectSpare(base, 0, e, merged)
    BY <2>1, <2>3 DEF CollectSpare
  <2> HIDE DEF n
  <2>5. QED BY <1>1, <1>3, <2>4
<1>5. ASSUME NEW k \in 1..n, k - 1 \in T PROVE k \in T
  <2>1. PICK v, l, y : v = g[k - 1] /\ l = k - 1 /\ y = g[k]
    OBVIOUS
  <2>2. CollectSpare(v, l, e, merged) /\ y = CollectOne(v) /\ k \in Nat \ {0} /\ k \in 0..n
    BY <1>1, <1>3, <1>5, <2>1
  <2> HIDE DEF n
  <2>3. CollectSpare(y, k, e, merged)
    BY <2>1, <2>2, CollectSpares
  <2>4. QED BY <2>1, <2>2, <2>3
<1>6. n \in T
  <2> HIDE DEF T, n
  <2>1. \A k \in 0..n : k \in T
    BY <1>1, <1>4, <1>5, UpTo
  <2>2. QED BY <1>1, <2>1
<1>7. QED BY <1>2, <1>3, <1>6 DEF CollectSpare

\* Merging a payload spares what neither it nor one before it writes.
LEMMA MergeSpares ==
    ASSUME graph \in [Node -> NodeSnapshot \cup {Absent}], GraphInv(graph),
           NEW p \in Payload, NEW e \in Editor, ~e.failed, GraphInv(e.nodes), EditsTell(e), Starts(e, p),
           KeepsUnwritten(e), NEW d, d = Merge(e, p), ~d.failed
    PROVE  KeepsUnwritten(d)
<1>1. PICK w : w = Walked([editor |-> e, edits |-> <<>>], p)
  OBVIOUS
<1>2. PICK m : m = EditsDone([editor |-> w.editor, orphans |-> {}], w.edits)
  OBVIOUS
<1>3. PICK c : c = RemoveOrphanedNodes(m.editor, m.orphans)
  OBVIOUS
<1>4. d = [c EXCEPT !.merged = Append(@, p)]
  BY <1>1, <1>2, <1>3 DEF Merge, Walked, EditsDone
<1>5. PICK old, more : old = e.merged /\ more = Append(old, p)
  OBVIOUS
<1>6. WalkedTo(w, p, Len(p), old) /\ w.editor \in Editor
  BY <1>1, <1>5, PayloadWalked
<1>7. EditedTo(m, w.edits, Len(w.edits), p, old)
  BY <1>2, <1>6, PayloadEdited
<1>8. /\ m.editor \in Editor
      /\ ~m.editor.failed => /\ EditState(m.editor, m.orphans, {}, p) /\ m.editor.merged = old
                             /\ CollectState(m.editor, m.orphans) /\ Held(m.editor)
  <2>1. Rest(w.edits, Len(w.edits)) = {}
    BY <1>6, AllRest DEF WalkedTo
  <2>2. /\ m.editor \in Editor
        /\ ~m.editor.failed => EditState(m.editor, m.orphans, {}, p) /\ m.editor.merged = old
    BY <1>7, <2>1 DEF EditedTo
  <2>3. QED BY <2>2, EditsEnd, HeldAfterEdits
<1>9. c \in Editor /\ (~c.failed => c.merged = m.editor.merged)
  BY <1>3, <1>8, OrphansRemoved
<1>10. ~c.failed /\ d \in Editor /\ d.nodes = c.nodes /\ d.made = c.made /\ d.merged = Append(c.merged, p)
  <2>1. c.merged \in Seq(Payload)
    BY <1>9 DEF Editor
  <2>2. Append(c.merged, p) \in Seq(Payload)
    BY <2>1
  <2>3. QED BY <1>4, <1>9, <2>2 DEF Editor
<1>11. /\ Covers(more, p)
       /\ \A n \in Node, q \in Path : WrittenBy(old, n, q) => WrittenBy(more, n, q)
  <2>1. old \in Seq(Payload)
    BY <1>5 DEF Editor
  <2>2. QED BY <1>5, <2>1, WrittenMore
<1>12. Spared(e, more)
  <2>1. Spared(e, old)
    BY <1>5, UnwrittenSpared
  <2>2. QED BY <1>11, <2>1, SparedMore
<1>13. ~w.editor.failed => Spared(w.editor, more)
  BY <1>1, <1>11, <1>12, WalkSpares
<1>14. ~m.editor.failed => Spared(m.editor, more)
  BY <1>2, <1>6, <1>11, <1>13, PayloadSpares
<1>15. ~m.editor.failed /\ Spared(c, more)
  BY <1>3, <1>8, <1>10, <1>14, RemovalSpares
<1>16. d.merged = more
  BY <1>5, <1>8, <1>9, <1>10, <1>15
<1>17. Spared(d, more)
  BY <1>10, <1>15 DEF Spared, GoneKept, GoneFrom, Has
<1>18. QED BY <1>10, <1>16, <1>17, UnwrittenSpared

\* In the middle of an editor's payloads, what none of them wrote is what it
\* was in the parent, and what was collected does not come back
\* (lazyImmutableDeepSet, _ensureNewSnapshot, _removeOrphanedNodes).
THEOREM UnwrittenAlwaysKept == Spec => []UnwrittenKept
<1>1. Init => UnwrittenKept
  BY DEF Init, UnwrittenKept
<1>2. EditorInv /\ UnwrittenKept /\ [Next]_vars => UnwrittenKept'
  <2> SUFFICES ASSUME EditorInv, UnwrittenKept, [Next]_vars PROVE UnwrittenKept'
    OBVIOUS
  <2>1. graph \in [Node -> NodeSnapshot \cup {Absent}] /\ GraphInv(graph)
    BY DEF EditorInv, TypeOK
  <2>2. CASE Open
    <3>1. PICK e : e = [nodes |-> graph, made |-> {}, edited |-> {}, merged |-> <<>>, failed |-> FALSE]
      OBVIOUS
    <3>2. editor' = {e} /\ graph' = graph /\ e.nodes = graph /\ e.made = {}
      BY <2>2, <3>1 DEF Open
    <3>3. KeepsUnwritten(e)'
      BY <3>2 DEF KeepsUnwritten, Present
    <3>4. QED BY <3>2, <3>3 DEF UnwrittenKept
  <2>3. ASSUME NEW p \in Payload, MergePayload(p) PROVE UnwrittenKept'
    <3>1. PICK e \in editor : /\ editor' = IF Merge(e, p).failed THEN {} ELSE {Merge(e, p)}
                              /\ p # <<>> /\ RootOf(p) \in Param => e.nodes[RootOf(p)] # Absent
      BY <2>3 DEF MergePayload
    <3>2. PICK d : d = Merge(e, p)
      OBVIOUS
    <3>3. /\ e \in Editor /\ ~e.failed /\ GraphInv(e.nodes) /\ EditsTell(e) /\ KeepsUnwritten(e)
          /\ Starts(e, p)
      BY <3>1, TheEditor DEF UnwrittenKept, Starts, Present, Node
    <3>4. ~d.failed => KeepsUnwritten(d)
      BY <2>1, <3>2, <3>3, MergeSpares
    <3>5. graph' = graph /\ editor' = IF d.failed THEN {} ELSE {d}
      BY <2>3, <3>1, <3>2 DEF MergePayload
    <3>6. KeepsUnwritten(d) => KeepsUnwritten(d)'
      BY <3>5 DEF KeepsUnwritten
    <3>7. QED BY <3>4, <3>5, <3>6 DEF UnwrittenKept
  <2>4. CASE Commit
    BY <2>4 DEF Commit, UnwrittenKept
  <2>5. CASE UNCHANGED vars
    BY <2>5 DEF vars, UnwrittenKept, KeepsUnwritten
  <2>6. QED BY <2>2, <2>3, <2>4, <2>5 DEF Next
<1>3. QED BY <1>1, <1>2, EditorInvariant, PTL DEF Spec

\* What a graph has at a path of a node, by the view of the graph.
LEMMA ReadOf ==
    ASSUME NEW g, NEW n \in Node, NEW q \in Path
    PROVE  Values(g[n])[2][q] = Read(View(g)[n].at[q])
<1>1. PICK f : f = [x \in Path |-> IF View(g)[n].at[x] \in Pointer THEN View(g)[n].at[x].to ELSE View(g)[n].at[x]]
  OBVIOUS
<1>2. Values(g[n]) = <<View(g)[n].leaf, f>>
  BY <1>1, ValuesOf
<1>3. Values(g[n])[2] = f
  BY <1>2
<1>4. QED BY <1>1, <1>3 DEF Read

\* A commit changes what a node has at a path only where one of its payloads
\* wrote (_mergePayloadValues and _mergeReferenceEdits).
THEOREM OnlyWhatIsWritten == Spec => OnlyWrittenChanges
<1> DEFINE Step == \A e \in editor : Commit =>
                     \A n \in Present(graph), q \in Path :
                       graph'[n] # Absent /\ Values(graph'[n])[2][q] # Values(graph[n])[2][q]
                         => \E j \in 1..Len(e.merged) : \E k \in 1..Len(e.merged[j]) :
                              Writes(e.merged[j][k], n, q)
<1>1. EditorInv /\ UnwrittenKept /\ [Next]_vars => [Step]_vars
  <2> SUFFICES ASSUME EditorInv, UnwrittenKept, NEW e \in editor, Commit,
                      NEW n \in Present(graph), NEW q \in Path, graph'[n] # Absent,
                      Values(graph'[n])[2][q] # Values(graph[n])[2][q]
               PROVE  WrittenBy(e.merged, n, q)
    BY DEF WrittenBy
  <2>1. /\ e \in Editor /\ ~e.failed /\ GraphInv(e.nodes) /\ EditsTell(e) /\ editor = {e}
        /\ KeepsUnwritten(e)
    BY TheEditor DEF UnwrittenKept
  <2>2. PICK d : d = RebuildInboundReferences(e)
    OBVIOUS
  <2>3. PICK g : g = NewGraph(d.nodes)
    OBVIOUS
  <2>4. graph' = IF d.failed THEN graph ELSE g
    BY <2>1, <2>2, <2>3 DEF Commit
  <2>5. n \in Node
    BY DEF Present
  <2>6. ~d.failed /\ graph' = g
    BY <2>4
  <2>7. Present(g) = Present(e.nodes) /\ NothingNew(View(e.nodes), View(g))
    BY <2>1, <2>2, <2>3, <2>6, Committed
  <2>8. PICK U, V, W : U = View(g) /\ V = View(e.nodes) /\ W = View(graph)
    OBVIOUS
  <2>9. n \in Present(e.nodes)
    BY <2>5, <2>6, <2>7 DEF Present
  <2>10. Read(U[n].at[q]) = Read(V[n].at[q])
    BY <2>5, <2>7, <2>8 DEF NothingNew, Read
  <2>11. Read(U[n].at[q]) # Read(W[n].at[q])
    BY <2>5, <2>6, <2>8, ReadOf
  <2>12. V[n] = e.nodes[n] /\ W[n] = graph[n]
    BY <2>5, <2>8, <2>9 DEF View, Present
  <2>13. QED BY <2>1, <2>9, <2>10, <2>11, <2>12 DEF KeepsUnwritten
<1>2. QED BY <1>1, EditorInvariant, UnwrittenAlwaysKept, PTL DEF Spec, OnlyWrittenChanges

-----------------------------------------------------------------------------
(* The two folds of saving.                                                *)

\* References are cut out of data, one after the other.
Cuts(h, g, s, base, S) ==
    /\ h[{}] = base
    /\ \A t \in SUBSET S : t # {} => \E r \in t : h[t] = CutReference(g, s, h[t \ {r}], r)

\* Cutting references out is one cut after the other, in some order.
LEMMA CutSteps ==
    ASSUME NEW base, NEW g, NEW x, NEW S, IsFiniteSet(S)
    PROVE  \E h : Cuts(h, g, x, base, S) /\ CutAll(g, x, base, S) = h[S]
<1> DEFINE c == [s \in SUBSET S |-> CHOOSE r \in s : TRUE]
           v == [r \in S |-> r]
           last(s) == CHOOSE r \in s : TRUE
           H == CHOOSE h : h = [s \in SUBSET S |->
                  IF s = {} THEN base ELSE CutReference(g, x, h[s \ {last(s)}], last(s))]
<1>1. FoldSet(LAMBDA r, at : CutReference(g, x, at, r), base, S) = H[S]
  BY DEF FoldSet, MapThenFoldSet
<1>2. Chooses(c, S)
  BY DEF Chooses
<1>3. \A h : IsFold(h, S, c, v, base, "cut", <<g, x>>) <=>
               h = [s \in SUBSET S |->
                  IF s = {} THEN base ELSE CutReference(g, x, h[s \ {last(s)}], last(s))]
  BY DEF IsFold, Turn
<1>4. IsFold(H, S, c, v, base, "cut", <<g, x>>)
  <2>1. PICK y : IsFold(y, S, c, v, base, "cut", <<g, x>>)
    <3> HIDE DEF c, v
    <3>1. QED BY <1>2, FoldDefined
  <2>2. \E h : h = [s \in SUBSET S |->
                  IF s = {} THEN base ELSE CutReference(g, x, h[s \ {last(s)}], last(s))]
    <3> HIDE DEF c, v, last
    <3>1. QED BY <1>3, <2>1
  <2>3. H = [s \in SUBSET S |->
                  IF s = {} THEN base ELSE CutReference(g, x, H[s \ {last(s)}], last(s))]
    BY <2>2
  <2> HIDE DEF H
  <2>4. QED BY <1>3, <2>3
<1> HIDE DEF H
<1>5. ASSUME NEW s \in SUBSET S, s # {}
      PROVE  c[s] \in s /\ v[c[s]] = c[s] /\ H[s] = Turn("cut", <<g, x>>, H[s \ {c[s]}], v[c[s]])
  <2> HIDE DEF c
  <2>1. c[s] \in s
    BY <1>2, <1>5 DEF Chooses
  <2>2. H[s] = Turn("cut", <<g, x>>, H[s \ {c[s]}], v[c[s]])
    BY <1>4, <1>5 DEF IsFold
  <2>3. QED BY <2>1, <2>2
<1>6. H[{}] = base
  BY <1>4 DEF IsFold
<1> HIDE DEF c, v
<1>7. Cuts(H, g, x, base, S)
  BY <1>5, <1>6 DEF Turn, Cuts
<1>8. QED BY <1>1, <1>7 DEF CutAll

\* References are put back into data, one after the other.
Puts(h, s, n, base, S) ==
    /\ h[{}] = base
    /\ \A t \in SUBSET S : t # {} => \E r \in t : h[t] = RestoreReference(s, n, h[t \ {r}], r)

\* Putting references back is one after the other, in some order.
LEMMA PutSteps ==
    ASSUME NEW base, NEW x, NEW n, NEW S, IsFiniteSet(S)
    PROVE  \E h : Puts(h, x, n, base, S) /\ PutAll(x, n, base, S) = h[S]
<1> DEFINE c == [s \in SUBSET S |-> CHOOSE r \in s : TRUE]
           v == [r \in S |-> r]
           last(s) == CHOOSE r \in s : TRUE
           H == CHOOSE h : h = [s \in SUBSET S |->
                  IF s = {} THEN base ELSE RestoreReference(x, n, h[s \ {last(s)}], last(s))]
<1>1. FoldSet(LAMBDA r, at : RestoreReference(x, n, at, r), base, S) = H[S]
  BY DEF FoldSet, MapThenFoldSet
<1>2. Chooses(c, S)
  BY DEF Chooses
<1>3. \A h : IsFold(h, S, c, v, base, "put", <<x, n>>) <=>
               h = [s \in SUBSET S |->
                  IF s = {} THEN base ELSE RestoreReference(x, n, h[s \ {last(s)}], last(s))]
  BY DEF IsFold, Turn
<1>4. IsFold(H, S, c, v, base, "put", <<x, n>>)
  <2>1. PICK y : IsFold(y, S, c, v, base, "put", <<x, n>>)
    <3> HIDE DEF c, v
    <3>1. QED BY <1>2, FoldDefined
  <2>2. \E h : h = [s \in SUBSET S |->
                  IF s = {} THEN base ELSE RestoreReference(x, n, h[s \ {last(s)}], last(s))]
    <3> HIDE DEF c, v, last
    <3>1. QED BY <1>3, <2>1
  <2>3. H = [s \in SUBSET S |->
                  IF s = {} THEN base ELSE RestoreReference(x, n, H[s \ {last(s)}], last(s))]
    BY <2>2
  <2> HIDE DEF H
  <2>4. QED BY <1>3, <2>3
<1> HIDE DEF H
<1>5. ASSUME NEW s \in SUBSET S, s # {}
      PROVE  c[s] \in s /\ v[c[s]] = c[s] /\ H[s] = Turn("put", <<x, n>>, H[s \ {c[s]}], v[c[s]])
  <2> HIDE DEF c
  <2>1. c[s] \in s
    BY <1>2, <1>5 DEF Chooses
  <2>2. H[s] = Turn("put", <<x, n>>, H[s \ {c[s]}], v[c[s]])
    BY <1>4, <1>5 DEF IsFold
  <2>3. QED BY <2>1, <2>2
<1>6. H[{}] = base
  BY <1>4 DEF IsFold
<1> HIDE DEF c, v
<1>7. Puts(H, x, n, base, S)
  BY <1>5, <1>6 DEF Turn, Puts
<1>8. QED BY <1>1, <1>7 DEF PutAll

-----------------------------------------------------------------------------
(* A node that is saved.                                                   *)

\* A node n of a graph g between merges.
Holds(g, n, s) ==
    /\ n \in Node /\ s \in NodeSnapshot /\ ~s.fresh
    /\ Kinds(s.at, n)
    /\ \A q \in Path : [id |-> n, path |-> q] \in RefLocations /\ s.at[q] # Missing => Rooted(s.at, q)
    /\ \A r \in s.outbound : r.path \in Path /\ g[r.id] # Absent /\ r.id \in Node
    /\ \A r \in s.outbound \ {Self(n)} :
          \/ r.id \in Param
          \/ /\ r.id \in Entity /\ r.id \notin Param
             /\ [id |-> n, path |-> r.path] \in RefLocations
             /\ s.at[r.path] \in Pointer /\ s.at[r.path] = [to |-> r.id, fresh |-> FALSE]
    /\ \A q \in Path : s.at[q] \in Pointer =>
          \E r \in s.outbound \ {Self(n)} : r.id \in Entity /\ r.path = q

\* Every node of a committed graph holds its references where its data has them.
LEMMA AllHold ==
    ASSUME NEW g \in [Node -> NodeSnapshot \cup {Absent}], GraphInv(g),
           \A n \in Present(g) : ~g[n].fresh,
           NEW n \in Present(g), NEW s, s = g[n]
    PROVE  Holds(g, n, s)
<1> DEFINE V == View(g)
<1>1. /\ V \in [Node -> NodeSnapshot] /\ V[n] = s /\ n \in Node
      /\ \A m \in Present(g) : V[m] = g[m]
      /\ \A m \in Node \ Present(g) : V[m] = NewSnapshot
  BY ViewTyped
<1>2. /\ EndsMatch(V) /\ ReferencesLed(V) /\ KindsKept(V) /\ DataMatches(V) /\ ListsWhole(V)
      /\ FreshAreFresh(V)
  BY DEF GraphInv
<1>3. \A m \in Node : ~V[m].fresh
  <2>1. ~NewSnapshot.fresh
    BY DEF NewSnapshot
  <2>2. QED BY <1>1, <2>1
<1> HIDE DEF V
<1>4. s \in NodeSnapshot /\ ~s.fresh
  BY <1>1
<1>5. Kinds(s.at, n)
  BY <1>1, <1>2, KindsOf
<1>6. ASSUME NEW q \in Path, [id |-> n, path |-> q] \in RefLocations, s.at[q] # Missing,
             NEW h \in Path \ {<<>>}, IsStrictPrefix(h, q)
      PROVE  s.at[h] = Here
  <2>1. PICK y : y = [id |-> n, path |-> h]
    OBVIOUS
  <2>2. y \in ListLocations /\ y.id = n /\ y.path = h
    BY <1>1, <1>6, <2>1, LocationKinds
  <2>3. ListWhole(V[y.id].at, y.path)
    BY <1>2, <2>2 DEF ListsWhole
  <2>4. QED BY <1>1, <1>6, <2>2, <2>3 DEF ListWhole
<1>7. ASSUME NEW q \in Path, s.at[q] \in Pointer
      PROVE  /\ s.at[q] = [to |-> s.at[q].to, fresh |-> FALSE]
             /\ \E r \in s.outbound \ {Self(n)} : r.id \in Entity /\ r.path = q
  <2>1. PICK v \in Pointer : v = s.at[q]
    BY <1>7
  <2>2. v.to \in Entity /\ v.to \in Node /\ v.fresh \in BOOLEAN /\ v = [to |-> v.to, fresh |-> v.fresh]
    BY DEF Pointer, Node
  <2>3. ~v.fresh
    BY <1>1, <1>2, <1>3, <2>1, <2>2 DEF FreshAreFresh
  <2>4. v.to \in Referred(V, n, q)
    BY <1>1, <1>2, <2>1 DEF DataMatches, Targets
  <2>5. [id |-> v.to, path |-> q] \in s.outbound /\ [id |-> n, path |-> q] # Self(v.to)
    BY <1>1, <2>4 DEF Referred
  <2>6. PICK r : r = [id |-> v.to, path |-> q]
    OBVIOUS
  <2>7. r \in s.outbound \ {Self(n)} /\ r.id \in Entity /\ r.path = q
    BY <2>2, <2>5, <2>6 DEF Self
  <2>8. QED BY <2>1, <2>2, <2>3, <2>7
<1>8. ASSUME NEW r \in s.outbound
      PROVE  /\ r.path \in Path /\ g[r.id] # Absent /\ r.id \in Node
             /\ \/ r.id \in Param \/ r = Self(n)
                \/ /\ r.id \in Entity /\ r.id \notin Param
                   /\ [id |-> n, path |-> r.path] \in RefLocations
                   /\ s.at[r.path] \in Pointer /\ s.at[r.path] = [to |-> r.id, fresh |-> FALSE]
  <2>1. r \in Reference
    BY <1>4 DEF NodeSnapshot
  <2>2. PICK m \in Node, q \in Path : r = [id |-> m, path |-> q]
    BY <2>1 DEF Reference
  <2>3. r.id = m /\ r.path = q /\ [id |-> m, path |-> q] \in V[n].outbound
    BY <1>1, <2>2
  <2>4. [id |-> n, path |-> q] \in V[m].inbound
    BY <1>1, <1>2, <2>3 DEF EndsMatch
  <2>5. g[m] # Absent
    <3>1. V[m].inbound # {}
      BY <2>4
    <3>2. QED BY <3>1 DEF V, View, NewSnapshot
  <2>6. \/ m \in Param \/ r = Self(n)
        \/ m \in Entity /\ [id |-> n, path |-> q] \in RefLocations
    BY <1>1, <1>2, <2>2, <2>3 DEF ReferencesLed, Self
  <2>7. ASSUME m \in Entity, r # Self(n)
        PROVE  m \notin Param /\ s.at[q] \in Pointer /\ s.at[q] = [to |-> m, fresh |-> FALSE]
    <3>1. m \in Referred(V, n, q)
      BY <2>2, <2>3, <2>7 DEF Referred, Self
    <3>2. m \in Targets(s.at[q])
      BY <1>1, <1>2, <3>1 DEF DataMatches
    <3>3. s.at[q] \in Pointer /\ s.at[q].to = m
      BY <3>2 DEF Targets
    <3>4. QED BY <1>7, <2>7, <3>3, NodeAssumption
  <2>8. QED BY <2>3, <2>5, <2>6, <2>7
<1>9. \A q \in Path : [id |-> n, path |-> q] \in RefLocations /\ s.at[q] # Missing => Rooted(s.at, q)
  BY <1>6 DEF Rooted
<1>10. QED BY <1>1, <1>4, <1>5, <1>7, <1>8, <1>9 DEF Holds

-----------------------------------------------------------------------------
(* Data that is saved and put back.                                        *)

\* A reference to an entity among T, other than all of n to itself, is at q.
At(n, T, q) == \E r \in T \ {Self(n)} : r.id \in Entity /\ r.path = q

\* A reference that is all of the data is the only one.
LEMMA WholeValue ==
    ASSUME NEW g, NEW n, NEW s, Holds(g, n, s), s.at[<<>>] \in Pointer \cup {Null},
           NEW r \in s.outbound \ {Self(n)}, r.id \notin Param
    PROVE  r.path = <<>> /\ s.at[<<>>] = [to |-> r.id, fresh |-> FALSE] /\ s.at[<<>>] \in Pointer
<1>1. /\ r.path \in Path /\ n \in Node /\ [id |-> n, path |-> r.path] \in RefLocations
      /\ s.at[r.path] = [to |-> r.id, fresh |-> FALSE] /\ s.at[r.path] \in Pointer
  BY DEF Holds
<1>2. <<>> \in Path
  BY PathAssumption
<1>3. [id |-> n, path |-> <<>>] \in RefLocations
  BY <1>2, ValueAssumption DEF Holds, Kinds
<1>4. r.path = <<>>
  <2>1. SUFFICES ASSUME r.path # <<>> PROVE FALSE
    OBVIOUS
  <2>2. IsStrictPrefix(<<>>, r.path)
    BY <1>1, <2>1, PathAssumption DEF IsStrictPrefix, IsPrefix
  <2>3. PICK q : q = <<>>
    OBVIOUS
  <2>4. [id |-> n, path |-> q] \in ListLocations
    BY <1>1, <1>2, <1>3, <2>2, <2>3, LocationKinds
  <2>5. QED BY <1>1, <1>2, <1>3, <2>3, <2>4, LocationKinds
<1>5. QED BY <1>1, <1>4

\* The data without the references in T.
CutTo(n, s, at, T) ==
    /\ at \in [Path -> Value]
    /\ \A q \in Path : at[q] = IF At(n, T, q) THEN (IF q = <<>> THEN Null ELSE Missing) ELSE s.at[q]

\* One more reference is cut out.
LEMMA CutOne ==
    ASSUME NEW g, NEW n, NEW s, Holds(g, n, s), NEW T \in SUBSET (s.outbound \ {Self(n)}),
           NEW r \in T, NEW t, t = T \ {r}, NEW at, CutTo(n, s, at, t),
           NEW d, d = CutReference(g, s, at, r)
    PROVE  CutTo(n, s, d, T)
<1>1. /\ n \in Node /\ s \in NodeSnapshot /\ Kinds(s.at, n)
      /\ r.path \in Path /\ g[r.id] # Absent
      /\ \/ r.id \in Param
         \/ r.id \in Entity /\ r.id \notin Param /\ [id |-> n, path |-> r.path] \in RefLocations
            /\ s.at[r.path] \in Pointer
  BY DEF Holds
<1>2. /\ at \in [Path -> Value]
      /\ \A q \in Path : at[q] = IF At(n, t, q) THEN (IF q = <<>> THEN Null ELSE Missing) ELSE s.at[q]
  BY DEF CutTo
<1>3. \A q : At(n, T, q) <=> At(n, t, q) \/ (r.id \in Entity /\ q = r.path)
  BY DEF At
<1>4. \A q \in Path : At(n, t, q) => /\ s.at[q] \in Pointer
                                  /\ [id |-> n, path |-> q] \in RefLocations
  BY NodeAssumption DEF Holds, At
<1>5. CASE r.id \in Param
  <2>1. r.id \notin Entity
    BY <1>5, NodeAssumption
  <2>2. d = at
    BY <1>5 DEF CutReference
  <2>3. QED BY <1>2, <1>3, <2>1, <2>2 DEF CutTo
<1>6. CASE r.id \notin Param
  <2>1. PICK v : v = IF r.path = <<>> THEN Null ELSE Missing
    OBVIOUS
  <2>2. d = DeepSet(at, s.at, r.path, v)
    BY <1>1, <1>6, <2>1 DEF CutReference
  <2>3. Kinds(at, n)
    BY <1>1, <1>2, <1>4 DEF Kinds
  <2>4. Rooted(at, r.path)
    <3>1. Rooted(s.at, r.path)
      BY <1>1, <1>6, ValueAssumption DEF Holds
    <3>2. ASSUME NEW h \in Path \ {<<>>}, IsStrictPrefix(h, r.path) PROVE at[h] = Here
      <4>1. s.at[h] = Here
        BY <3>1, <3>2 DEF Rooted
      <4>2. ~At(n, t, h)
        BY <1>4, <3>2, <4>1, ValueAssumption
      <4>3. QED BY <1>2, <3>2, <4>1, <4>2
    <3>3. QED BY <3>2 DEF Rooted
  <2>5. d = [at EXCEPT ![r.path] = v]
    <3>1. PICK q : q = r.path
      OBVIOUS
    <3>2. q \in Path /\ [id |-> n, path |-> q] \in RefLocations /\ Rooted(at, q)
      BY <1>1, <1>6, <2>4, <3>1
    <3>3. n \in Node /\ at \in [Path -> Value]
      BY <1>1, <1>2
    <3>4. PICK o : o = s.at
      OBVIOUS
    <3>5. DeepSet(at, o, q, v) = [at EXCEPT ![q] = v]
      BY <2>3, <3>2, <3>3, DeepSetReference
    <3>6. QED BY <2>2, <3>1, <3>4, <3>5
  <2>6. v \in Value
    BY <2>1 DEF Value
  <2>7. d \in [Path -> Value] /\ \A q \in Path : d[q] = IF q = r.path THEN v ELSE at[q]
    BY <1>1, <1>2, <2>5, <2>6
  <2>8. ASSUME NEW q \in Path
        PROVE  d[q] = IF At(n, T, q) THEN (IF q = <<>> THEN Null ELSE Missing) ELSE s.at[q]
    <3>1. CASE q = r.path
      BY <1>1, <1>3, <1>6, <2>1, <2>7, <3>1
    <3>2. CASE q # r.path
      BY <1>2, <1>3, <2>7, <3>2
    <3>3. QED BY <3>1, <3>2
  <2>9. QED BY <2>7, <2>8 DEF CutTo
<1>7. QED BY <1>5, <1>6

\* extractSerializableData.
LEMMA AllCut ==
    ASSUME NEW g, NEW n, NEW s, Holds(g, n, s), s = g[n], NEW d, d = ExtractSerializableData(g, n)
    PROVE  CutTo(n, s, d, s.outbound)
<1>1. s \in NodeSnapshot /\ n \in Node
  BY DEF Holds
<1>2. CutTo(n, s, s.at, {})
  BY <1>1 DEF CutTo, At, NodeSnapshot, Value
<1>3. CASE ~HasData(s) \/ s.at[<<>>] = Null
  <2>1. d = s.at
    BY <1>3 DEF ExtractSerializableData
  <2>2. \A r \in s.outbound \ {Self(n)} : r.id \notin Entity
    <3>1. SUFFICES ASSUME NEW r \in s.outbound \ {Self(n)}, r.id \in Entity PROVE FALSE
      OBVIOUS
    <3>2. r.id \notin Param /\ r.path \in Path /\ s.at[r.path] \in Pointer
      BY <3>1, NodeAssumption DEF Holds
    <3>3. HasData(s)
      BY <3>2, ValueAssumption DEF HasData
    <3>4. s.at[<<>>] \in Pointer
      BY <1>3, <3>1, <3>2, <3>3, WholeValue
    <3>5. QED BY <1>3, <3>3, <3>4, ValueAssumption
  <2>3. \A q : ~At(n, s.outbound, q)
    BY <2>2 DEF At
  <2>4. \A q : ~At(n, {}, q)
    BY DEF At
  <2>5. QED BY <1>2, <2>1, <2>3, <2>4 DEF CutTo
<1>4. CASE ~(~HasData(s) \/ s.at[<<>>] = Null)
  <2>1. PICK S : S = s.outbound \ {Self(n)}
    OBVIOUS
  <2>2. d = CutAll(g, s, s.at, S)
    <3>1. d = CutAll(g, g[n], g[n].at, g[n].outbound \ {Self(n)})
      BY <1>4 DEF ExtractSerializableData, CutAll
    <3>2. QED BY <2>1, <3>1
  <2>3. S \in SUBSET Reference /\ IsFiniteSet(S)
    BY <1>1, <2>1, FiniteReferences DEF NodeSnapshot
  <2>4. PICK h : Cuts(h, g, s, s.at, S) /\ CutAll(g, s, s.at, S) = h[S]
    BY <2>3, CutSteps
  <2> DEFINE Ok(t) == CutTo(n, s, h[t], t)
             K == {k \in Nat : \A t \in SUBSET S : Cardinality(t) = k => Ok(t)}
  <2>5. 0 \in K
    <3>1. \A t \in SUBSET S : Cardinality(t) = 0 => t = {}
      BY <2>3, Parts
    <3>2. QED BY <1>2, <2>4, <3>1 DEF Cuts
  <2>6. ASSUME NEW k \in Nat \ {0}, k - 1 \in K PROVE k \in K
    <3>1. SUFFICES ASSUME NEW T \in SUBSET S, Cardinality(T) = k PROVE Ok(T)
      OBVIOUS
    <3>2. T # {} /\ \A x \in T : Cardinality(T \ {x}) = k - 1 /\ T \ {x} \in SUBSET S
      BY <2>3, <3>1, Parts
    <3>3. PICK r \in T : h[T] = CutReference(g, s, h[T \ {r}], r)
      BY <2>4, <3>2 DEF Cuts
    <3>4. PICK t, at, c : t = T \ {r} /\ at = h[t] /\ c = h[T]
      OBVIOUS
    <3>5. CutTo(n, s, at, t)
      BY <2>6, <3>2, <3>4
    <3>6. c = CutReference(g, s, at, r) /\ T \in SUBSET (s.outbound \ {Self(n)})
      BY <2>1, <3>3, <3>4
    <3> HIDE DEF Ok, K
    <3>7. CutTo(n, s, c, T)
      BY <3>4, <3>5, <3>6, CutOne
    <3>8. QED BY <3>4, <3>7 DEF Ok
  <2>7. Ok(S)
    <3>1. Cardinality(S) \in Nat
      BY <2>3, Parts
    <3>2. Cardinality(S) \in K
      <4> HIDE DEF K
      <4>1. \A k \in Nat : k \in K
        BY <2>5, <2>6, AllNaturals
      <4>2. QED BY <3>1, <4>1
    <3>3. QED BY <3>2
  <2>8. \A q : At(n, S, q) <=> At(n, s.outbound, q)
    BY <2>1 DEF At
  <2>9. CutTo(n, s, d, S)
    BY <2>2, <2>4, <2>7
  <2>10. QED BY <2>8, <2>9 DEF CutTo
<1>5. QED BY <1>3, <1>4

-----------------------------------------------------------------------------
\* What is saved of a node.
SavedFrom(g, n, s, y) ==
    /\ y \in Serialized
    /\ y.inbound = s.inbound /\ y.outbound = s.outbound
    /\ n \in Forgotten(g) => y.defined /\ y.leaf = Missing /\ y.at = NullData
    /\ n \notin Forgotten(g) =>
          /\ y.leaf = s.leaf
          /\ y.defined <=> HasData(s)
          /\ \A q \in Path : y.at[q] = IF At(n, s.outbound, q)
                                       THEN (IF q = <<>> \/ q \in Element THEN Null ELSE Missing)
                                       ELSE s.at[q]

\* What is saved of a node is its data without its references.
LEMMA NodeSaved ==
    ASSUME NEW g, NEW n \in Present(g), NEW s, s = g[n], Holds(g, n, s), n \notin Forgotten(g),
           NEW y, y = Extract(g)[n]
    PROVE  SavedFrom(g, n, s, y)
<1>1. PICK d : d = ExtractSerializableData(g, n)
  OBVIOUS
<1>2. CutTo(n, s, d, s.outbound)
  BY <1>1, AllCut
<1> DEFINE a == [q \in Path |-> IF q \in Element /\ s.at[q] # Missing /\ d[q] = Missing
                                THEN Null ELSE d[q]]
           def == HasData(s) /\ (IsValue(s) => d[<<>>] # Missing)
<1>3. y = [defined |-> def, leaf |-> s.leaf, at |-> a, inbound |-> s.inbound, outbound |-> s.outbound]
  BY <1>1 DEF Extract
<1>4. s \in NodeSnapshot /\ <<>> \in Path
  BY PathAssumption DEF Holds
<1>5. \A q \in Path : At(n, s.outbound, q) => s.at[q] \in Pointer /\ s.at[q] # Missing
  BY NodeAssumption, ValueAssumption DEF Holds, At
<1>6. \A q \in Path : s.at[q] \in Pointer => At(n, s.outbound, q)
  BY DEF Holds, At
<1>7. \A q \in Path : d[q] = IF At(n, s.outbound, q) THEN (IF q = <<>> THEN Null ELSE Missing) ELSE s.at[q]
  BY <1>2 DEF CutTo
<1>8. ASSUME NEW q \in Path
      PROVE  a[q] = IF At(n, s.outbound, q)
                    THEN (IF q = <<>> \/ q \in Element THEN Null ELSE Missing)
                    ELSE s.at[q]
  BY <1>5, <1>7, ValueAssumption, ElementAssumption
<1>9. \A q \in Path : a[q] \in {Missing, Null, Here}
  BY <1>4, <1>6, <1>8 DEF NodeSnapshot
<1>10. a \in [Path -> {Missing, Null, Here}]
  BY <1>9
<1>11. def \in BOOLEAN /\ (def <=> HasData(s))
  <2>1. IsValue(s) => d[<<>>] # Missing
    BY <1>4, <1>7, ValueAssumption DEF IsValue
  <2>2. def \in BOOLEAN
    OBVIOUS
  <2>3. QED BY <2>1, <2>2
<1> HIDE DEF a, def
<1>12. y \in Serialized
  BY <1>3, <1>4, <1>10, <1>11 DEF Serialized, NodeSnapshot
<1>13. QED BY <1>3, <1>8, <1>11, <1>12 DEF SavedFrom

\* What is saved of an entity of which extract leaves null.
LEMMA NullSaved ==
    ASSUME NEW g, NEW n \in Present(g), NEW s, s = g[n], s \in NodeSnapshot, n \in Forgotten(g),
           NEW y, y = Extract(g)[n]
    PROVE  SavedFrom(g, n, s, y)
<1>1. <<>> \in Path /\ NullData \in [Path -> {Missing, Null, Here}] /\ NullData[<<>>] = Null
      /\ \A q \in Path \ {<<>>} : NullData[q] = Missing
  BY PathAssumption DEF NullData, NoData
<1>2. PICK z : z = [s EXCEPT !.leaf = Missing, !.at = NullData]
  OBVIOUS
<1>3. z.leaf = Missing /\ z.at = NullData /\ z.inbound = s.inbound /\ z.outbound = s.outbound
  BY <1>2 DEF NodeSnapshot
<1> DEFINE a == [q \in Path |-> IF q \in Element /\ z.at[q] # Missing /\ NullData[q] = Missing
                                THEN Null ELSE NullData[q]]
           def == HasData(z) /\ (IsValue(z) => NullData[<<>>] # Missing)
<1>4. y = [defined |-> def, leaf |-> z.leaf, at |-> a, inbound |-> z.inbound, outbound |-> z.outbound]
  BY <1>2 DEF Extract
<1>5. a = NullData
  BY <1>1, <1>3
<1>6. def
  BY <1>1, <1>3, ValueAssumption DEF HasData
<1> HIDE DEF a, def
<1>7. s.inbound \in SUBSET Reference /\ s.outbound \in SUBSET Reference
  BY DEF NodeSnapshot
<1>8. y \in Serialized
  BY <1>1, <1>3, <1>4, <1>5, <1>6, <1>7 DEF Serialized
<1>9. QED BY <1>3, <1>4, <1>5, <1>6, <1>8 DEF SavedFrom

\* The data that is left of a node without the forgotten entities.
Left(g, n, s) ==
    IF n \in Forgotten(g) THEN NullData
    ELSE [q \in Path |-> IF s.at[q] \in Pointer /\ s.at[q].to \in Forgotten(g) THEN Null ELSE s.at[q]]

\* The entities that are null in what was saved are the forgotten ones.
Nulled(g, saved) ==
    \A m \in Entity \cap Present(g) : saved[m].at[<<>>] = Null <=> m \in Forgotten(g)

\* What was saved, with the references in T.
PutTo(g, n, s, y, at, T) ==
    /\ at \in [Path -> Value]
    /\ \A q \in Path : at[q] = IF At(n, T, q) THEN Left(g, n, s)[q] ELSE y.at[q]

\* One more reference is put back.
LEMMA PutOne ==
    ASSUME NEW g, NEW n \in Present(g), NEW s, s = g[n], Holds(g, n, s), NEW y, SavedFrom(g, n, s, y),
           NEW saved, saved[n] = y, Nulled(g, saved), NEW T \in SUBSET s.outbound,
           NEW r \in T, NEW t, t = T \ {r}, NEW at, PutTo(g, n, s, y, at, t),
           NEW d, d = RestoreReference(saved, n, at, r)
    PROVE  PutTo(g, n, s, y, d, T)
<1>1. /\ n \in Node /\ s \in NodeSnapshot /\ Kinds(s.at, n)
      /\ r.path \in Path /\ <<>> \in Path /\ r.id \in Node /\ g[r.id] # Absent
      /\ \/ r.id \in Param \/ r = Self(n)
         \/ r.id \in Entity /\ r.id \notin Param /\ [id |-> n, path |-> r.path] \in RefLocations
            /\ s.at[r.path] \in Pointer /\ s.at[r.path] = [to |-> r.id, fresh |-> FALSE]
  BY PathAssumption DEF Holds
<1>2. /\ at \in [Path -> Value]
      /\ \A q \in Path : at[q] = IF At(n, t, q) THEN Left(g, n, s)[q] ELSE y.at[q]
  BY DEF PutTo
<1>3. \A q : At(n, T, q) <=> At(n, t, q) \/ (r # Self(n) /\ r.id \in Entity /\ q = r.path)
  BY DEF At
<1>4. \A q \in Path : At(n, s.outbound, q) => /\ s.at[q] \in Pointer
                                              /\ [id |-> n, path |-> q] \in RefLocations
  BY NodeAssumption DEF Holds, At
<1>5. \A q : At(n, t, q) => At(n, s.outbound, q)
  BY DEF At
<1>6. CASE r.id \in Param \/ r = Self(n)
  <2>1. r.id \notin Entity \/ r = Self(n)
    BY <1>6, NodeAssumption
  <2>2. d = at
    BY <1>6 DEF RestoreReference
  <2>3. QED BY <1>2, <1>3, <2>1, <2>2 DEF PutTo
<1>7. CASE r.id \notin Param /\ r # Self(n)
  <2>1. PICK v : v = IF saved[r.id].at[<<>>] = Null THEN Null ELSE [to |-> r.id, fresh |-> FALSE]
    OBVIOUS
  <2>2. r.id \in Entity \cap Present(g)
    BY <1>1, <1>7 DEF Present
  <2>3. n \notin Forgotten(g)
    <3>1. SUFFICES ASSUME n \in Forgotten(g) PROVE FALSE
      OBVIOUS
    <3>2. {x \in s.outbound : x.id \in Entity \cap Present(g)} = {Self(n)}
      BY <3>1 DEF Forgotten
    <3>3. QED BY <1>7, <2>2, <3>2
  <2>4. v = Left(g, n, s)[r.path] /\ v \in Value
    <3>1. s.at[r.path] \in Pointer /\ s.at[r.path] = [to |-> r.id, fresh |-> FALSE]
      BY <1>1, <1>7
    <3>2. s.at[r.path].to = r.id
      BY <3>1
    <3>3. Left(g, n, s)[r.path] = IF r.id \in Forgotten(g) THEN Null ELSE s.at[r.path]
      BY <1>1, <2>3, <3>1, <3>2 DEF Left
    <3>4. saved[r.id].at[<<>>] = Null <=> r.id \in Forgotten(g)
      BY <2>2 DEF Nulled
    <3>5. QED BY <2>1, <3>1, <3>3, <3>4 DEF Value
  <2>5. \A q \in Path : y.at[q] = IF At(n, s.outbound, q)
                                  THEN (IF q = <<>> \/ q \in Element THEN Null ELSE Missing)
                                  ELSE s.at[q]
    BY <2>3 DEF SavedFrom
  <2>6. d = [at EXCEPT ![r.path] = v]
    <3>1. CASE y.at[<<>>] = Null
      <4>1. s.at[<<>>] \in Pointer \cup {Null}
        BY <1>1, <1>4, <2>5, <3>1
      <4>2. r.path = <<>>
        <5>1. r \in s.outbound \ {Self(n)} /\ r.id \notin Param
          BY <1>7
        <5>2. QED BY <4>1, <5>1, WholeValue
      <4>3. d = [at EXCEPT ![<<>>] = v]
        BY <1>7, <2>1, <3>1 DEF RestoreReference
      <4>4. QED BY <4>2, <4>3
    <3>2. CASE y.at[<<>>] # Null
      <4>1. PICK q : q = r.path
        OBVIOUS
      <4>2. d = DeepSet(at, NoData, q, v)
        BY <1>7, <2>1, <3>2, <4>1 DEF RestoreReference
      <4>3. Kinds(at, n)
        <5>1. ASSUME NEW x \in Path, At(n, t, x)
              PROVE  at[x] \in Pointer \cup {Null} /\ [id |-> n, path |-> x] \in RefLocations
          BY <1>2, <1>4, <1>5, <2>3, <5>1 DEF Left
        <5>2. ASSUME NEW x \in Path, ~At(n, t, x), at[x] # Missing
              PROVE  \/ at[x] = s.at[x]
                     \/ at[x] = Null /\ [id |-> n, path |-> x] \in RefLocations
          BY <1>2, <1>4, <2>5, <5>2
        <5>3. QED BY <1>1, <5>1, <5>2 DEF Kinds
      <4>4. Rooted(at, q)
        <5>1. Rooted(s.at, q)
          BY <1>1, <1>7, <4>1, ValueAssumption DEF Holds
        <5>2. ASSUME NEW h \in Path \ {<<>>}, IsStrictPrefix(h, q) PROVE at[h] = Here
          <6>1. s.at[h] = Here
            BY <5>1, <5>2 DEF Rooted
          <6>2. ~At(n, s.outbound, h)
            BY <1>4, <5>2, <6>1, ValueAssumption
          <6>3. QED BY <1>2, <1>5, <2>5, <5>2, <6>1, <6>2
        <5>3. QED BY <5>2 DEF Rooted
      <4>5. q \in Path /\ [id |-> n, path |-> q] \in RefLocations
        BY <1>1, <1>7, <4>1
      <4>6. DeepSet(at, NoData, q, v) = [at EXCEPT ![q] = v]
        BY <1>1, <1>2, <4>3, <4>4, <4>5, DeepSetReference
      <4>7. QED BY <4>1, <4>2, <4>6
    <3>3. QED BY <3>1, <3>2
  <2>7. d \in [Path -> Value] /\ \A q \in Path : d[q] = IF q = r.path THEN v ELSE at[q]
    BY <1>1, <1>2, <2>4, <2>6
  <2>8. ASSUME NEW q \in Path PROVE d[q] = IF At(n, T, q) THEN Left(g, n, s)[q] ELSE y.at[q]
    <3>1. CASE q = r.path
      BY <1>3, <1>7, <2>2, <2>4, <2>7, <3>1
    <3>2. CASE q # r.path
      BY <1>2, <1>3, <2>7, <3>2
    <3>3. QED BY <3>1, <3>2
  <2>9. QED BY <2>7, <2>8 DEF PutTo
<1>8. QED BY <1>6, <1>7

\* restoreEntityReferences gives the data back.
LEMMA AllPut ==
    ASSUME NEW g, NEW n \in Present(g), NEW s, s = g[n], Holds(g, n, s), NEW y, SavedFrom(g, n, s, y),
           NEW saved, saved[n] = y, Nulled(g, saved),
           NEW d, d = IF y.defined THEN PutAll(saved, n, y.at, y.outbound) ELSE y.at
    PROVE  d = Left(g, n, s)
<1>1. /\ s \in NodeSnapshot /\ s.at \in [Path -> Value]
  BY DEF Holds, NodeSnapshot, Value
<1>2. y.at \in [Path -> {Missing, Null, Here}] /\ y.outbound = s.outbound
  BY DEF SavedFrom, Serialized
<1>3. ASSUME NEW q \in Path, ~At(n, s.outbound, q) PROVE y.at[q] = Left(g, n, s)[q]
  <2>1. CASE n \in Forgotten(g)
    BY <2>1 DEF Left, SavedFrom
  <2>2. CASE n \notin Forgotten(g)
    <3>1. y.at[q] = s.at[q]
      BY <1>3, <2>2 DEF SavedFrom
    <3>2. s.at[q] \notin Pointer
      BY <1>3 DEF Holds, At
    <3>3. QED BY <2>2, <3>1, <3>2 DEF Left
  <2>3. QED BY <2>1, <2>2
<1>4. Left(g, n, s) = [q \in Path |-> Left(g, n, s)[q]]
  BY DEF Left, NullData, NoData
<1>5. CASE ~y.defined
  <2>1. ASSUME NEW q \in Path PROVE ~At(n, s.outbound, q)
    <3>1. SUFFICES ASSUME At(n, s.outbound, q) PROVE FALSE
      OBVIOUS
    <3>2. s.at[q] \in Pointer
      BY <3>1, NodeAssumption DEF Holds, At
    <3>3. HasData(s)
      BY <3>2, ValueAssumption DEF HasData
    <3>4. QED BY <1>5, <3>3 DEF SavedFrom
  <2>2. \A q \in Path : d[q] = Left(g, n, s)[q]
    BY <1>3, <1>5, <2>1
  <2>3. d = [q \in Path |-> d[q]]
    BY <1>2, <1>5
  <2>4. PICK f : f = Left(g, n, s)
    OBVIOUS
  <2>5. QED BY <1>4, <2>2, <2>3, <2>4
<1>6. CASE y.defined
  <2>1. PICK S : S = s.outbound
    OBVIOUS
  <2>2. d = PutAll(saved, n, y.at, S)
    BY <1>2, <1>6, <2>1
  <2>3. S \in SUBSET Reference /\ IsFiniteSet(S)
    BY <1>1, <2>1, FiniteReferences DEF NodeSnapshot
  <2>4. PICK h : Puts(h, saved, n, y.at, S) /\ PutAll(saved, n, y.at, S) = h[S]
    BY <2>3, PutSteps
  <2> DEFINE Ok(t) == PutTo(g, n, s, y, h[t], t)
             K == {k \in Nat : \A t \in SUBSET S : Cardinality(t) = k => Ok(t)}
  <2>5. 0 \in K
    <3>1. \A t \in SUBSET S : Cardinality(t) = 0 => t = {}
      BY <2>3, Parts
    <3>2. PutTo(g, n, s, y, y.at, {})
      BY <1>2 DEF PutTo, At, Value
    <3>3. QED BY <2>4, <3>1, <3>2 DEF Puts
  <2>6. ASSUME NEW k \in Nat \ {0}, k - 1 \in K PROVE k \in K
    <3>1. SUFFICES ASSUME NEW T \in SUBSET S, Cardinality(T) = k PROVE Ok(T)
      OBVIOUS
    <3>2. T # {} /\ \A x \in T : Cardinality(T \ {x}) = k - 1 /\ T \ {x} \in SUBSET S
      BY <2>3, <3>1, Parts
    <3>3. PICK r \in T : h[T] = RestoreReference(saved, n, h[T \ {r}], r)
      BY <2>4, <3>2 DEF Puts
    <3>4. PICK t, at, c : t = T \ {r} /\ at = h[t] /\ c = h[T]
      OBVIOUS
    <3>5. PutTo(g, n, s, y, at, t)
      BY <2>6, <3>2, <3>4
    <3>6. c = RestoreReference(saved, n, at, r) /\ T \in SUBSET s.outbound
      BY <2>1, <3>3, <3>4
    <3> HIDE DEF Ok, K
    <3>7. PutTo(g, n, s, y, c, T)
      BY <3>4, <3>5, <3>6, PutOne
    <3>8. QED BY <3>4, <3>7 DEF Ok
  <2>7. Ok(S)
    <3>1. Cardinality(S) \in Nat
      BY <2>3, Parts
    <3>2. Cardinality(S) \in K
      <4> HIDE DEF K
      <4>1. \A k \in Nat : k \in K
        BY <2>5, <2>6, AllNaturals
      <4>2. QED BY <3>1, <4>1
    <3>3. QED BY <3>2
  <2>8. PutTo(g, n, s, y, d, S)
    BY <2>2, <2>4, <2>7
  <2>9. d = [q \in Path |-> d[q]] /\ \A q \in Path : d[q] = Left(g, n, s)[q]
    BY <1>3, <2>1, <2>8 DEF PutTo
  <2>10. PICK f : f = Left(g, n, s)
    OBVIOUS
  <2>11. QED BY <1>4, <2>9, <2>10
<1>7. QED BY <1>5, <1>6

\* A node with other data, field by field.
LEMMA WithOther ==
    ASSUME NEW s \in NodeSnapshot, ~s.fresh, NEW l, NEW d
    PROVE  /\ [s EXCEPT !.leaf = l, !.at = d] = [leaf |-> l, at |-> d, fresh |-> FALSE,
                                                inbound |-> s.inbound, outbound |-> s.outbound]
           /\ [s EXCEPT !.at = d] = [leaf |-> s.leaf, at |-> d, fresh |-> FALSE,
                                     inbound |-> s.inbound, outbound |-> s.outbound]
<1>1. s.fresh = FALSE
  BY DEF NodeSnapshot
<1>2. [s EXCEPT !.leaf = l, !.at = d] = [leaf |-> l, at |-> d, fresh |-> s.fresh,
                                         inbound |-> s.inbound, outbound |-> s.outbound]
  <2>1. PICK u : u = [leaf |-> l, at |-> s.at, fresh |-> s.fresh, inbound |-> s.inbound, outbound |-> s.outbound]
    OBVIOUS
  <2>2. [s EXCEPT !.leaf = l] = u
    BY <2>1 DEF NodeSnapshot
  <2>3. [s EXCEPT !.leaf = l, !.at = d] = [u EXCEPT !.at = d]
    BY <2>2
  <2>4. QED BY <2>1, <2>3
<1>3. [s EXCEPT !.at = d] = [leaf |-> s.leaf, at |-> d, fresh |-> s.fresh,
                             inbound |-> s.inbound, outbound |-> s.outbound]
  BY DEF NodeSnapshot
<1>4. QED BY <1>1, <1>2, <1>3

\* A graph that is saved and restored comes back but for the entities that
\* refer to all of themselves and to no other: extract finds every pointer by
\* a reference and restore puts each back, whatever merges the graph comes
\* from (operations/extract.ts, operations/restore.ts).
THEOREM SavedGraphsComeBack == Spec => []RestoresWhatWasExtracted
<1>1. EditorInv => RestoresWhatWasExtracted
  <2> SUFFICES ASSUME EditorInv PROVE RestoresWhatWasExtracted
    OBVIOUS
  <2>1. /\ graph \in [Node -> NodeSnapshot \cup {Absent}] /\ GraphInv(graph)
        /\ \A n \in Present(graph) : ~graph[n].fresh
    BY DEF EditorInv, TypeOK
  <2>2. PICK saved : saved = Extract(graph)
    OBVIOUS
  <2>3. DOMAIN saved = Present(graph) /\ saved = [n \in Present(graph) |-> saved[n]]
    BY <2>2 DEF Extract
  <2>4. ASSUME NEW n \in Present(graph)
        PROVE  Holds(graph, n, graph[n]) /\ SavedFrom(graph, n, graph[n], saved[n])
    <3>1. PICK s, y : s = graph[n] /\ y = saved[n]
      OBVIOUS
    <3>2. Holds(graph, n, s) /\ s \in NodeSnapshot
      BY <2>1, <3>1, AllHold DEF Holds
    <3>3. SavedFrom(graph, n, s, y)
      BY <2>2, <3>1, <3>2, NodeSaved, NullSaved
    <3>4. QED BY <3>1, <3>2, <3>3
  <2>5. saved \in [Present(graph) -> Serialized]
    <3>1. \A n \in Present(graph) : saved[n] \in Serialized
      BY <2>4 DEF SavedFrom
    <3>2. QED BY <2>3, <3>1
  <2>6. ~RestoreThrows(saved)
    <3>1. ASSUME NEW n \in Present(graph), NEW r \in saved[n].outbound PROVE r.id \in Present(graph)
      BY <2>4, <3>1 DEF SavedFrom, Holds, Present
    <3>2. QED BY <2>3, <3>1 DEF RestoreThrows
  <2>7. Nulled(graph, saved)
    <3>1. SUFFICES ASSUME NEW m \in Entity \cap Present(graph)
                   PROVE  saved[m].at[<<>>] = Null <=> m \in Forgotten(graph)
      BY DEF Nulled
    <3>2. CASE m \in Forgotten(graph)
      BY <2>4, <3>2, PathAssumption DEF SavedFrom, NullData, NoData
    <3>3. CASE m \notin Forgotten(graph)
      <4>1. m \in Node /\ m \notin Param /\ <<>> \in Path
        BY NodeAssumption, PathAssumption DEF Node
      <4>2. PICK q : q = <<>>
        OBVIOUS
      <4>3. [id |-> m, path |-> q] \notin RefLocations /\ [id |-> m, path |-> q] \notin ListLocations
        BY <4>1, <4>2, LocationKinds
      <4>4. graph[m].at[q] = Missing
        BY <2>4, <4>1, <4>2, <4>3 DEF Holds, Kinds
      <4>5. ~At(m, graph[m].outbound, q)
        BY <2>4, <4>2, <4>3, NodeAssumption DEF Holds, At
      <4>6. saved[m].at[q] = graph[m].at[q]
        BY <2>4, <3>3, <4>1, <4>2, <4>5 DEF SavedFrom
      <4>7. QED BY <3>3, <4>2, <4>4, <4>6, ValueAssumption
    <3>4. QED BY <3>2, <3>3
  <2>8. ASSUME NEW n \in Node PROVE Restore(saved)[n] = Remembered(graph)[n]
    <3>1. CASE n \notin Present(graph)
      BY <2>3, <2>8, <3>1 DEF Restore, Remembered, Present
    <3>2. CASE n \in Present(graph)
      <4>1. PICK s, y : s = graph[n] /\ y = saved[n]
        OBVIOUS
      <4>2. Holds(graph, n, s) /\ SavedFrom(graph, n, s, y)
        BY <2>4, <3>2, <4>1
      <4>3. PICK d : d = IF y.defined THEN PutAll(saved, n, y.at, y.outbound) ELSE y.at
        OBVIOUS
      <4>4. d = Left(graph, n, s)
        BY <2>7, <3>2, <4>1, <4>2, <4>3, AllPut
      <4>5. Restore(saved)[n] = [leaf |-> y.leaf, at |-> d, fresh |-> FALSE,
                                 inbound |-> y.inbound, outbound |-> y.outbound]
        <5>1. Restore(saved)[n] =
                [leaf     |-> saved[n].leaf,
                 at       |-> IF saved[n].defined
                              THEN FoldSet(LAMBDA r, at : RestoreReference(saved, n, at, r),
                                           saved[n].at, saved[n].outbound)
                              ELSE saved[n].at,
                 fresh    |-> FALSE,
                 inbound  |-> saved[n].inbound,
                 outbound |-> saved[n].outbound]
          BY <2>3, <2>8, <3>2 DEF Restore
        <5>2. Restore(saved)[n] =
                [leaf     |-> saved[n].leaf,
                 at       |-> IF saved[n].defined
                              THEN PutAll(saved, n, saved[n].at, saved[n].outbound) ELSE saved[n].at,
                 fresh    |-> FALSE,
                 inbound  |-> saved[n].inbound,
                 outbound |-> saved[n].outbound]
          BY <5>1 DEF PutAll
        <5>3. QED BY <4>1, <4>3, <5>2
      <4>6. s \in NodeSnapshot /\ s.fresh = FALSE /\ graph[n] # Absent
        BY <3>2, <4>2 DEF Holds, Present, NodeSnapshot
      <4>7. y.inbound = s.inbound /\ y.outbound = s.outbound
        BY <4>2 DEF SavedFrom
      <4>8. CASE n \in Forgotten(graph)
        <5>1. Remembered(graph)[n] = [s EXCEPT !.leaf = Missing, !.at = NullData]
          BY <2>8, <4>1, <4>6, <4>8 DEF Remembered
        <5>2. d = NullData /\ y.leaf = Missing
          BY <4>2, <4>4, <4>8 DEF Left, SavedFrom
        <5>3. [s EXCEPT !.leaf = Missing, !.at = NullData]
                = [leaf |-> Missing, at |-> NullData, fresh |-> FALSE,
                   inbound |-> s.inbound, outbound |-> s.outbound]
          BY <4>6, WithOther
        <5>4. QED BY <4>5, <4>7, <5>1, <5>2, <5>3
      <4>9. CASE n \notin Forgotten(graph)
        <5>1. Remembered(graph)[n] = [graph[n] EXCEPT !.at = [q \in Path |->
                 IF graph[n].at[q] \in Pointer /\ graph[n].at[q].to \in Forgotten(graph) THEN Null
                 ELSE graph[n].at[q]]]
          BY <2>8, <4>6, <4>9 DEF Remembered
        <5>2. d = [q \in Path |->
                 IF graph[n].at[q] \in Pointer /\ graph[n].at[q].to \in Forgotten(graph) THEN Null
                 ELSE graph[n].at[q]]
          BY <4>1, <4>4, <4>9 DEF Left
        <5>3. Remembered(graph)[n] = [s EXCEPT !.at = d]
          BY <4>1, <5>1, <5>2
        <5>4. y.leaf = s.leaf
          BY <4>2, <4>9 DEF SavedFrom
        <5>5. [s EXCEPT !.at = d] = [leaf |-> s.leaf, at |-> d, fresh |-> FALSE,
                                     inbound |-> s.inbound, outbound |-> s.outbound]
          BY <4>6, WithOther
        <5>6. QED BY <4>5, <4>7, <5>3, <5>4, <5>5
      <4>10. QED BY <4>8, <4>9
    <3>3. QED BY <3>1, <3>2
  <2>9. Restore(saved) = Remembered(graph)
    <3> DEFINE R == Restore(saved)
               M == Remembered(graph)
    <3>1. R = [n \in Node |-> R[n]]
      BY DEF Restore
    <3>2. M = [n \in Node |-> M[n]]
      BY DEF Remembered
    <3>3. \A n \in Node : R[n] = M[n]
      BY <2>8
    <3> HIDE DEF R, M
    <3>4. R = M
      BY <3>1, <3>2, <3>3
    <3>5. QED BY <3>4 DEF R, M
  <2>10. QED BY <2>2, <2>5, <2>6, <2>9 DEF RestoresWhatWasExtracted
<1>2. QED BY <1>1, EditorInvariant, PTL
=============================================================================
