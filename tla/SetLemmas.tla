----------------------------- MODULE SetLemmas -----------------------------
(***************************************************************************)
(* Facts about finite sets that the proofs of several modules use: the     *)
(* least of some finite sets, the largest of some numbers, and functions   *)
(* that are defined by recursion over the subsets of a finite set, which   *)
(* is what the folds of the community modules are.                         *)
(***************************************************************************)
EXTENDS Integers, FiniteSets, FiniteSetsExt, FiniteSetTheorems, WellFoundedInduction, TLAPS

(* Among finite sets one has none of the others in it.  Applied to the     *)
(* sets that are an exception, it is induction over finite sets.           *)
LEMMA LeastSet ==
  ASSUME NEW T, T # {}, \A s \in T : IsFiniteSet(s)
  PROVE  \E x \in T : \A y \in T : y \subseteq x => y = x
  <1> DEFINE S == UNION T
             R == StrictSubsetOrdering(S)
             F == FiniteSubsetsOf(S)
  <1>1. T \subseteq F
    BY DEF FiniteSubsetsOf
  <1>2. IsWellFoundedOn(R, F)
    BY FS_StrictSubsetOrderingWellFounded
  <1> HIDE DEF R, F
  <1>3. PICK x \in T : \A y \in T : ~(<<y, x>> \in R)
    BY <1>1, <1>2, WFMin
  <1>4. ASSUME NEW y \in T, y \subseteq x, y # x
        PROVE  FALSE
    <2>1. <<y, x>> \in R
      BY <1>4 DEF R, StrictSubsetOrdering
    <2> QED
      BY <1>3, <2>1
  <1> QED
    BY <1>4

\* Some numbers below a bound have a largest.
LEMMA MaxOfNumbers ==
  ASSUME NEW n \in Nat, NEW T \in SUBSET (0 .. n), T # {}
  PROVE  Max(T) \in T /\ \A j \in T : Max(T) >= j
  <1> DEFINE Above == {j .. n : j \in T}
  <1>1. Above # {}
    OBVIOUS
  <1>2. \A s \in Above : IsFiniteSet(s)
    <2>1. \A j \in T : IsFiniteSet(j .. n)
      BY FS_Interval
    <2> QED
      BY <2>1
  <1>3. PICK s \in Above : \A r \in Above : r \subseteq s => r = s
    <2> HIDE DEF Above
    <2> QED
      BY <1>1, <1>2, LeastSet
  <1>4. PICK k \in T : s = k .. n
    BY <1>3
  <1>5. ASSUME NEW j \in T, j > k
        PROVE  FALSE
    <2>1. j .. n \subseteq k .. n /\ j .. n \in Above
      BY <1>5
    <2>2. j .. n = k .. n
      BY <1>3, <1>4, <2>1
    <2>3. k \in k .. n /\ k \notin j .. n
      BY <1>5
    <2> QED
      BY <2>2, <2>3
  <1>6. \A j \in T : k >= j
    BY <1>5
  <1> QED
    BY <1>6 DEF Max

LEMMA MaxOfIndices ==
  ASSUME NEW n \in Nat, NEW T \in SUBSET (1 .. n), T # {}
  PROVE  Max(T) \in T /\ \A j \in T : Max(T) >= j
  <1>1. T \in SUBSET (0 .. n)
    OBVIOUS
  <1> QED
    BY <1>1, MaxOfNumbers

-----------------------------------------------------------------------------
(* Folds.                                                                  *)

\* h applies F to an element of a set and to its value for the others.
FoldOn(h, D, base, F, pick) ==
  h = [s \in SUBSET D |-> IF s = {} THEN base ELSE F[<<pick[s], h[s \ {pick[s]}]>>]]

Picks(pick, D) == \A s \in SUBSET D : s # {} => pick[s] \in s

\* A fold over a subset is the fold over the set, where both are defined.
LEMMA FoldsAgree ==
  ASSUME NEW D, IsFiniteSet(D), NEW E \in SUBSET D, NEW base, NEW F, NEW pick, Picks(pick, D),
         NEW g, FoldOn(g, D, base, F, pick), NEW h, FoldOn(h, E, base, F, pick)
  PROVE  \A s \in SUBSET E : g[s] = h[s]
  <1> DEFINE Bad == {s \in SUBSET E : g[s] # h[s]}
  <1>1. ASSUME Bad # {}
        PROVE  FALSE
    <2>1. \A s \in Bad : IsFiniteSet(s)
      BY FS_Subset
    <2>2. PICK s \in Bad : \A r \in Bad : r \subseteq s => r = s
      <3> HIDE DEF Bad
      <3> QED
        BY <1>1, <2>1, LeastSet
    <2>3. /\ s \in SUBSET E /\ s \in SUBSET D
          /\ g[s] = IF s = {} THEN base ELSE F[<<pick[s], g[s \ {pick[s]}]>>]
          /\ h[s] = IF s = {} THEN base ELSE F[<<pick[s], h[s \ {pick[s]}]>>]
      BY DEF FoldOn
    <2>4. s # {}
      BY <2>2, <2>3
    <2>5. pick[s] \in s
      BY <2>3, <2>4 DEF Picks
    <2>6. s \ {pick[s]} \notin Bad
      BY <2>2, <2>5
    <2>7. g[s \ {pick[s]}] = h[s \ {pick[s]}]
      BY <2>3, <2>6
    <2> QED
      BY <2>2, <2>3, <2>7
  <1> QED
    BY <1>1

\* There is such a function, with values of the kind that F has.
LEMMA FoldExists ==
  ASSUME NEW D, IsFiniteSet(D), NEW V, NEW base \in V, NEW F \in [D \X V -> V],
         NEW pick, Picks(pick, D)
  PROVE  \E h \in [SUBSET D -> V] : FoldOn(h, D, base, F, pick)
  <1> DEFINE Of(s, h) == h \in [SUBSET s -> V] /\ FoldOn(h, s, base, F, pick)
             Bad == {s \in SUBSET D : ~ \E h : Of(s, h)}
  <1>1. ASSUME Bad # {}
        PROVE  FALSE
    <2>1. \A s \in Bad : IsFiniteSet(s)
      BY FS_Subset
    <2>2. PICK s \in Bad : \A r \in Bad : r \subseteq s => r = s
      <3> HIDE DEF Bad
      <3> QED
        BY <1>1, <2>1, LeastSet
    <2> DEFINE Part(r) == CHOOSE h : Of(r, h)
               val == [r \in (SUBSET s) \ {s} |-> Part(r)[r]]
               h == [r \in SUBSET s |-> IF r = {} THEN base ELSE F[<<pick[r], val[r \ {pick[r]}]>>]]
    <2>3. s \in SUBSET D /\ IsFiniteSet(s)
      BY <2>1
    <2>4. ASSUME NEW r \in SUBSET s, r # s
          PROVE  Of(r, Part(r))
      <3>1. r \notin Bad /\ r \in SUBSET D
        BY <2>2, <2>3, <2>4
      <3>2. \E k : Of(r, k)
        BY <3>1
      <3> HIDE DEF Of
      <3> QED
        BY <3>2
    <2> HIDE DEF Part
    <2>5. ASSUME NEW r \in SUBSET s, r # {}
          PROVE  pick[r] \in r /\ r \ {pick[r]} \in (SUBSET s) \ {s}
      BY <2>3, <2>5 DEF Picks
    <2>6. \A r \in (SUBSET s) \ {s} : val[r] \in V
      BY <2>4
    <2>7. h \in [SUBSET s -> V]
      <3>1. ASSUME NEW r \in SUBSET s, r # {}
            PROVE  F[<<pick[r], val[r \ {pick[r]}]>>] \in V
        <4>1. pick[r] \in D /\ val[r \ {pick[r]}] \in V
          BY <2>3, <2>5, <2>6, <3>1
        <4> HIDE DEF val
        <4> QED
          BY <4>1
      <3> HIDE DEF val
      <3> QED
        BY <3>1
    <2>8. ASSUME NEW r \in SUBSET s, r # s
          PROVE  val[r] = h[r]
      <3>1. Of(r, Part(r))
        BY <2>4, <2>8
      <3>2. Part(r)[r] = IF r = {} THEN base ELSE F[<<pick[r], Part(r)[r \ {pick[r]}]>>]
        BY <3>1 DEF FoldOn
      <3>3. ASSUME r # {}
            PROVE  Part(r)[r \ {pick[r]}] = val[r \ {pick[r]}]
        <4> DEFINE q == r \ {pick[r]}
        <4>1. q \in SUBSET s /\ q # s /\ q \in SUBSET r /\ r \in SUBSET D /\ IsFiniteSet(r)
          BY <2>3, <2>5, <3>3, FS_Subset
        <4>2. Of(q, Part(q))
          BY <2>4, <4>1
        <4>3. Picks(pick, r)
          BY <4>1 DEF Picks
        <4> HIDE DEF q
        <4>4. \A x \in SUBSET q : Part(r)[x] = Part(q)[x]
          BY <3>1, <4>1, <4>2, <4>3, FoldsAgree
        <4>5. Part(r)[q] = Part(q)[q] /\ val[q] = Part(q)[q]
          BY <4>1, <4>4
        <4> QED
          BY <4>5 DEF q
      <3> QED
        BY <2>8, <3>2, <3>3
    <2>9. FoldOn(h, s, base, F, pick)
      <3>1. \A r \in SUBSET s : r # {} => val[r \ {pick[r]}] = h[r \ {pick[r]}]
        BY <2>5, <2>8
      <3> HIDE DEF val
      <3>4. \A r \in SUBSET s : h[r] = IF r = {} THEN base ELSE F[<<pick[r], val[r \ {pick[r]}]>>]
        OBVIOUS
      <3>2. \A r \in SUBSET s : h[r] = IF r = {} THEN base ELSE F[<<pick[r], h[r \ {pick[r]}]>>]
        <4> HIDE DEF h
        <4> QED
          BY <3>1, <3>4
      <3>3. h = [r \in SUBSET s |-> h[r]]
        OBVIOUS
      <3> HIDE DEF h
      <3> QED
        BY <3>2, <3>3 DEF FoldOn
    <2>10. Of(s, h)
      BY <2>7, <2>9
    <2> HIDE DEF h, Of
    <2> QED
      BY <2>2, <2>10
  <1>2. D \notin Bad
    BY <1>1
  <1>3. \E h : Of(D, h)
    BY <1>2
  <1> QED
    BY <1>3
=============================================================================
