---------------------------- MODULE FoldTheorems ----------------------------
(***************************************************************************)
(* Induction over the naturals and folds over a finite range, stated with  *)
(* sets and functions only: lemmas for the proofs about the recursive      *)
(* functions of the other modules.                                         *)
(***************************************************************************)
EXTENDS Integers, NaturalsInduction, WellFoundedInduction, TLAPS

-----------------------------------------------------------------------------
(* Induction over the naturals, in a form without operator parameters.     *)

\* The order of the naturals as a set of pairs.
LEMMA LessThanPairs == OpToRel(<, Nat) = {ss \in Nat \X Nat : ss[1] < ss[2]}
BY DEF OpToRel

\* A non-empty set of naturals has a least element.
LEMMA LeastElement ==
    ASSUME NEW T \in SUBSET Nat, T # {}
    PROVE  \E m \in T : \A k \in T : m <= k
<1>1. IsWellFoundedOn({ss \in Nat \X Nat : ss[1] < ss[2]}, Nat)
  BY NatLessThanWellFounded, LessThanPairs
<1>2. PICK m \in T : \A k \in T : <<k, m>> \notin {ss \in Nat \X Nat : ss[1] < ss[2]}
  BY <1>1, WFMin
<1>3. \A k \in T : ~ (k < m)
  BY <1>2
<1>4. QED
  BY <1>3

\* A set of naturals that holds 0 and is closed under successors up to n
\* holds everything up to n.
LEMMA UpTo ==
    ASSUME NEW n \in Nat, NEW T, 0 \in T,
           \A i \in 1..n : i - 1 \in T => i \in T
    PROVE  \A i \in 0..n : i \in T
<1> DEFINE Out == {i \in 0..n : i \notin T}
<1>1. SUFFICES ASSUME Out # {} PROVE FALSE
  OBVIOUS
<1>2. Out \in SUBSET Nat
  OBVIOUS
<1>3. PICK m \in Out : \A k \in Out : m <= k
  <2> HIDE DEF Out
  <2>1. QED BY <1>1, <1>2, LeastElement
<1>4. m \in 1..n /\ m - 1 \in 0..n /\ m - 1 \notin Out
  BY <1>3
<1>5. QED
  BY <1>3, <1>4

-----------------------------------------------------------------------------
(* Folding a sequence of functions: what the two recursive functions of    *)
(* the queue rest on.                                                      *)

\* The sequences of values that n steps lead through from s0.
FoldsOf(S, n, s0, step) ==
    {f \in [0..n -> S] : f[0] = s0 /\ \A i \in 1..n : f[i] = step[i][f[i - 1]]}

\* A start value and n steps have a sequence of intermediate values.
LEMMA FoldExists ==
    ASSUME NEW S, NEW n \in Nat, NEW s0 \in S, NEW step \in [1..n -> [S -> S]]
    PROVE  FoldsOf(S, n, s0, step) # {}
<1> DEFINE Upto(k) == {f \in [0..k -> S] :
                         f[0] = s0 /\ \A i \in 1..k : f[i] = step[i][f[i - 1]]}
           T == {k \in 0..n : Upto(k) # {}}
<1>1. 0 \in T
  <2>1. [i \in 0..0 |-> s0] \in Upto(0)
    OBVIOUS
  <2>2. QED BY <2>1
<1>2. ASSUME NEW k \in 1..n, k - 1 \in T PROVE k \in T
  <2>1. PICK f \in [0..(k - 1) -> S] :
            f[0] = s0 /\ \A i \in 1..(k - 1) : f[i] = step[i][f[i - 1]]
    BY <1>2
  <2> DEFINE g == [i \in 0..k |-> IF i = k THEN step[k][f[k - 1]] ELSE f[i]]
  <2>2. step[k] \in [S -> S] /\ f[k - 1] \in S
    BY <2>1
  <2>3. g \in [0..k -> S]
    BY <2>1, <2>2
  <2>4. g[0] = s0 /\ \A i \in 1..k : g[i] = step[i][g[i - 1]]
    BY <2>1
  <2>5. g \in Upto(k)
    BY <2>3, <2>4
  <2>6. k \in 0..n
    OBVIOUS
  <2> HIDE DEF Upto, g
  <2>7. QED BY <2>5, <2>6
<1> HIDE DEF T, Upto
<1>3. \A k \in 1..n : k - 1 \in T => k \in T
  BY <1>2
<1>4. \A k \in 0..n : k \in T
  BY <1>1, <1>3, UpTo
<1>5. n \in T
  BY <1>4
<1>6. QED
  BY <1>5 DEF T, Upto, FoldsOf

\* f and g agree at a point up to n whenever they agree just before it.
StepsAgree(n, f, g) == \A i \in 1..n : f[i - 1] = g[i - 1] => f[i] = g[i]

\* Two functions that agree at 0, and agree at a point whenever they agree
\* just before it, agree everywhere.
LEMMA FoldUnique ==
    ASSUME NEW n \in Nat, NEW f, NEW g, f[0] = g[0], StepsAgree(n, f, g)
    PROVE  \A i \in 0..n : f[i] = g[i]
<1> DEFINE T == {i \in 0..n : f[i] = g[i]}
<1>1. 0 \in T
  OBVIOUS
<1>2. \A i \in 1..n : i - 1 \in T => i \in T
  BY DEF StepsAgree
<1>3. \A i \in 0..n : i \in T
  <2> HIDE DEF T
  <2>1. QED BY <1>1, <1>2, UpTo
<1>4. QED
  BY <1>3
=============================================================================
