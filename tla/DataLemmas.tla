----------------------------- MODULE DataLemmas -----------------------------
(***************************************************************************)
(* What the modules need to know of sequences, of induction, and of what a *)
(* loop or a fold computes.  The lemmas on induction quantify over sets    *)
(* and functions, not over operators, so that every prover can instantiate *)
(* them: "P holds of every k" is "k \in T for every k", with T the set of  *)
(* the numbers P holds of.                                                 *)
(***************************************************************************)
EXTENDS SequencesExt, Integers, FiniteSetTheorems, SequenceTheorems,
        WellFoundedInduction, TLAPS

-----------------------------------------------------------------------------
(* Sequences. *)

\* Inserting e at position i shifts everything from i on by one.
LEMMA InsertAtFacts ==
    ASSUME NEW S, NEW s \in Seq(S), NEW i \in 1 .. Len(s) + 1, NEW e \in S
    PROVE  /\ InsertAt(s, i, e) \in Seq(S)
           /\ Len(InsertAt(s, i, e)) = Len(s) + 1
           /\ \A j \in 1 .. Len(s) + 1 :
                 InsertAt(s, i, e)[j] =
                    IF j < i THEN s[j] ELSE IF j = i THEN e ELSE s[j - 1]
<1>. DEFINE l == SubSeq(s, 1, i - 1)
            m == l \o <<e>>
            r == SubSeq(s, i, Len(s))
<1>1. /\ l \in Seq(S) /\ Len(l) = i - 1
      /\ \A j \in 1 .. i - 1 : l[j] = s[j]
  <2>1. \A j \in 1 .. i - 1 : s[j] \in S
    BY ElementOfSeq
  <2>. QED  BY <2>1, SubSeqProperties
<1>2. /\ r \in Seq(S) /\ Len(r) = Len(s) - i + 1
      /\ \A j \in 1 .. Len(s) - i + 1 : r[j] = s[i + j - 1]
  <2>1. \A j \in i .. Len(s) : s[j] \in S
    BY ElementOfSeq
  <2>. QED  BY <2>1, SubSeqProperties
<1>. HIDE DEF l, r
<1>3. /\ m \in Seq(S) /\ Len(m) = i
      /\ \A j \in 1 .. i : m[j] = IF j < i THEN l[j] ELSE e
  BY <1>1, ConcatProperties
<1>. HIDE DEF m
<1>. Len(s) \in Nat
  BY LenProperties
<1>4. /\ m \o r \in Seq(S)
      /\ Len(m \o r) = Len(s) + 1
      /\ \A j \in 1 .. Len(s) + 1 :
            (m \o r)[j] = IF j <= i THEN m[j] ELSE r[j - i]
  <2>1. Len(m) = i /\ Len(m) + Len(r) = Len(s) + 1
    BY <1>2, <1>3
  <2>2. /\ m \o r \in Seq(S)
        /\ Len(m \o r) = Len(m) + Len(r)
        /\ \A j \in 1 .. Len(m) + Len(r) :
              (m \o r)[j] = IF j <= Len(m) THEN m[j] ELSE r[j - Len(m)]
    BY <1>2, <1>3, ConcatProperties
  <2>. QED  BY <2>1, <2>2
<1>5. InsertAt(s, i, e) = m \o r
  BY DEF InsertAt, l, m, r
<1>6. \A j \in 1 .. Len(s) + 1 :
        (m \o r)[j] = IF j < i THEN s[j] ELSE IF j = i THEN e ELSE s[j - 1]
  BY <1>1, <1>2, <1>3, <1>4
<1>. QED  BY <1>4, <1>5, <1>6

\* Removing position i shifts everything behind it by one.
LEMMA RemoveAtFacts ==
    ASSUME NEW S, NEW s \in Seq(S), NEW i \in 1 .. Len(s)
    PROVE  /\ RemoveAt(s, i) \in Seq(S)
           /\ Len(RemoveAt(s, i)) = Len(s) - 1
           /\ \A j \in 1 .. Len(s) - 1 :
                 RemoveAt(s, i)[j] = IF j < i THEN s[j] ELSE s[j + 1]
<1>. DEFINE l == SubSeq(s, 1, i - 1)
            r == SubSeq(s, i + 1, Len(s))
<1>1. /\ l \in Seq(S) /\ Len(l) = i - 1
      /\ \A j \in 1 .. i - 1 : l[j] = s[j]
  <2>1. \A j \in 1 .. i - 1 : s[j] \in S
    BY ElementOfSeq
  <2>. QED  BY <2>1, SubSeqProperties
<1>2. /\ r \in Seq(S) /\ Len(r) = Len(s) - i
      /\ \A j \in 1 .. Len(s) - i : r[j] = s[i + j]
  <2>1. \A j \in i + 1 .. Len(s) : s[j] \in S
    BY ElementOfSeq
  <2>. QED  BY <2>1, SubSeqProperties
<1>. HIDE DEF l, r
<1>. Len(s) \in Nat
  BY LenProperties
<1>3. /\ l \o r \in Seq(S)
      /\ Len(l \o r) = Len(l) + Len(r)
      /\ \A j \in 1 .. Len(l) + Len(r) :
            (l \o r)[j] = IF j <= Len(l) THEN l[j] ELSE r[j - Len(l)]
  BY <1>1, <1>2, ConcatProperties
<1>4. RemoveAt(s, i) = l \o r
  BY DEF RemoveAt, l, r
<1>5. Len(l) + Len(r) = Len(s) - 1
  BY <1>1, <1>2
<1>6. ASSUME NEW j \in 1 .. Len(s) - 1
      PROVE  (l \o r)[j] = IF j < i THEN s[j] ELSE s[j + 1]
  <2>1. CASE j < i
    BY <2>1, <1>1, <1>3, <1>5
  <2>2. CASE ~(j < i)
    <3>1. j - Len(l) \in 1 .. Len(s) - i /\ ~(j <= Len(l))
      BY <2>2, <1>1
    <3>2. (l \o r)[j] = r[j - Len(l)]
      BY <3>1, <1>3, <1>5
    <3>. QED  BY <3>1, <3>2, <2>2, <1>1, <1>2
  <2>. QED  BY <2>1, <2>2
<1>. QED  BY <1>3, <1>4, <1>5, <1>6

-----------------------------------------------------------------------------
(* Numbers. *)

\* A non-empty set of naturals has a least element, and Min is it.
LEMMA MinNat ==
    ASSUME NEW S \in SUBSET Nat, S # {}
    PROVE  Min(S) \in S /\ \A y \in S : Min(S) <= y
<1>. DEFINE R == {ss \in Nat \X Nat : ss[1] < ss[2]}
<1>1. R = OpToRel(<, Nat)
  BY DEF OpToRel
<1>2. IsWellFoundedOn(R, Nat)
  BY <1>1, NatLessThanWellFounded
<1>3. PICK x \in S : \A y \in S : ~(<<y, x>> \in R)
  <2>. HIDE DEF R
  <2>. QED  BY <1>2, WFMin
<1>4. \A y \in S : x <= y
  <2>. SUFFICES ASSUME NEW y \in S, y < x
                PROVE  FALSE
    OBVIOUS
  <2>1. <<y, x>> \in R
    OBVIOUS
  <2>. QED  BY <2>1, <1>3
<1>. QED  BY <1>4 DEF Min

\* A set that has 0 and the successor of each of its members below n has every
\* number up to n.
LEMMA NatInduct ==
    ASSUME NEW n \in Nat, NEW T, 0 \in T,
           \A k \in 0 .. n - 1 : k \in T => k + 1 \in T
    PROVE  \A k \in 0 .. n : k \in T
<1>. DEFINE C == {k \in 0 .. n : k \notin T}
<1>. SUFFICES ASSUME C # {}
              PROVE  FALSE
  OBVIOUS
<1>1. C \in SUBSET Nat
  OBVIOUS
<1>2. Min(C) \in C /\ \A y \in C : Min(C) <= y
  BY <1>1, MinNat
<1>. DEFINE m == Min(C)
<1>3. m \in 0 .. n /\ m \notin T /\ m # 0
  BY <1>2
<1>4. m - 1 \in 0 .. n - 1 /\ m - 1 \notin C
  <2>. HIDE DEF C
  <2>. QED  BY <1>2, <1>3
<1>5. m - 1 \in T
  BY <1>4
<1>6. (m - 1) + 1 \in T /\ (m - 1) + 1 = m
  <2>. HIDE DEF m
  <2>. QED  BY <1>3, <1>4, <1>5
<1>. QED  BY <1>3, <1>6

\* The greatest element of a finite non-empty set of naturals.
LEMMA MaxNat ==
    ASSUME NEW n \in Nat, NEW S \in SUBSET (0 .. n), S # {}
    PROVE  Max(S) \in S /\ \A y \in S : y <= Max(S)
<1>. DEFINE U == {b \in Nat : \A y \in S : y <= b}
<1>1. U \in SUBSET Nat /\ n \in U
  OBVIOUS
<1>2. Min(U) \in U /\ \A b \in U : Min(U) <= b
  BY <1>1, MinNat
<1>3. Min(U) \in S
  <2>. SUFFICES ASSUME Min(U) \notin S
                PROVE  FALSE
    OBVIOUS
  <2>. DEFINE m == Min(U)
  <2>1. m \in Nat /\ \A y \in S : y <= m /\ y # m /\ y \in Nat
    BY <1>2
  <2>2. m - 1 \in Nat /\ \A y \in S : y <= m - 1
    <3>1. PICK y \in S : TRUE
      OBVIOUS
    <3>. HIDE DEF m
    <3>. QED  BY <2>1, <3>1
  <2>3. m - 1 \in U
    BY <2>2
  <2>4. m <= m - 1
    <3>. HIDE DEF U
    <3>. QED  BY <1>2, <2>3
  <2>. HIDE DEF m
  <2>. QED  BY <2>1, <2>4
<1>4. \A y \in S : y <= Min(U)
  BY <1>2
<1>. HIDE DEF U
<1>. QED  BY <1>3, <1>4 DEF Max

-----------------------------------------------------------------------------
(* Loops: a function that is defined at k from its value at k - 1.  R[k] is *)
(* a set the value after k rounds is known to be in.                        *)

LoopOf(g, n, base, step) ==
    g = [k \in 0 .. n |-> IF k = 0 THEN base ELSE step[<<k, g[k - 1]>>]]

LoopWithin(n, R, base, step) ==
    base \in R[0] /\ \A k \in 1 .. n : \A v \in R[k - 1] : step[<<k, v>>] \in R[k]

\* There is a function that takes the state of the loop through its n rounds.
LEMMA LoopExists ==
    ASSUME NEW n \in Nat, NEW R, NEW base, NEW step, LoopWithin(n, R, base, step)
    PROVE  \E g : LoopOf(g, n, base, step) /\ \A k \in 0 .. n : g[k] \in R[k]
<1>. DEFINE V == UNION {R[k] : k \in 0 .. n}
            Good(g, m) ==
              /\ g \in [0 .. m -> V]
              /\ \A k \in 0 .. m : /\ g[k] \in R[k]
                                    /\ g[k] = IF k = 0 THEN base ELSE step[<<k, g[k - 1]>>]
            T == {m \in 0 .. n : \E g : Good(g, m)}
<1>. base \in R[0] /\ \A k \in 1 .. n : \A v \in R[k - 1] : step[<<k, v>>] \in R[k]
  BY DEF LoopWithin
<1>0. \A k \in 0 .. n : R[k] \subseteq V
  OBVIOUS
<1>. HIDE DEF V
<1>1. 0 \in T
  <2>. DEFINE g == [k \in 0 .. 0 |-> base]
  <2>1. Good(g, 0) /\ 0 \in 0 .. n
    BY <1>0
  <2>. HIDE DEF Good, g
  <2>. QED  BY <2>1
<1>2. ASSUME NEW m \in 0 .. n - 1, m \in T
      PROVE  m + 1 \in T
  <2>1. PICK h : Good(h, m)
    BY <1>2
  <2>. DEFINE new == step[<<m + 1, h[m]>>]
              g == [k \in 0 .. m + 1 |-> IF k = m + 1 THEN new ELSE h[k]]
  <2>2. /\ m \in Nat /\ m + 1 \in 1 .. n /\ m + 1 \in 0 .. n /\ (m + 1) - 1 = m
        /\ m \in 0 .. m
    OBVIOUS
  <2>3. new \in R[m + 1] /\ new \in V
    <3>1. h[m] \in R[m]
      BY <2>1, <2>2, Zenon
    <3>2. \A v \in R[m] : step[<<m + 1, v>>] \in R[m + 1]
      BY <2>2
    <3>. QED  BY <1>0, <2>2, <3>1, <3>2
  <2>4. \A k \in 0 .. m + 1 : k = m + 1 \/ k \in 0 .. m
    BY <2>2
  <2>5. g \in [0 .. m + 1 -> V]
    <3>. HIDE DEF new
    <3>. QED  BY <2>1, <2>3, <2>4
  <2>6. ASSUME NEW k \in 0 .. m + 1
        PROVE  /\ g[k] \in R[k]
               /\ g[k] = IF k = 0 THEN base ELSE step[<<k, g[k - 1]>>]
    <3>1. CASE k = m + 1
      <4>1. m \in 0 .. m + 1 /\ m # m + 1 /\ k - 1 = m /\ k # 0
        BY <2>2, <3>1
      <4>2. g[m] = h[m] /\ g[k] = new
        BY <4>1, <3>1
      <4>. HIDE DEF g
      <4>. QED  BY <2>3, <4>1, <4>2, <3>1
    <3>2. CASE k \in 0 .. m
      <4>1. k # m + 1 /\ (k # 0 => k - 1 \in 0 .. m + 1 /\ k - 1 # m + 1)
        BY <2>2, <3>2
      <4>2. g[k] = h[k] /\ (k # 0 => g[k - 1] = h[k - 1])
        BY <4>1
      <4>3. h[k] \in R[k] /\ h[k] = IF k = 0 THEN base ELSE step[<<k, h[k - 1]>>]
        BY <2>1, <3>2
      <4>. HIDE DEF g
      <4>. QED  BY <4>2, <4>3
    <3>. QED  BY <3>1, <3>2, <2>4
  <2>7. Good(g, m + 1)
    <3>. HIDE DEF g
    <3>. QED  BY <2>5, <2>6
  <2>. HIDE DEF Good
  <2>. QED  BY <2>2, <2>7
<1>3. n \in T
  <2>. HIDE DEF T
  <2>1. \A k \in 0 .. n : k \in T
    BY <1>1, <1>2, NatInduct
  <2>. QED  BY <2>1
<1>4. PICK g : Good(g, n)
  BY <1>3
<1>5. LoopOf(g, n, base, step)
  BY <1>4 DEF LoopOf
<1>. QED  BY <1>4, <1>5

-----------------------------------------------------------------------------
(* Folds over a finite set, which take its elements in the order pick says. *)

\* A property of the empty set that a set has when it has it without any one of
\* its elements holds of every finite set.
LEMMA SubsetInduct ==
    ASSUME NEW S, IsFiniteSet(S), NEW T, {} \in T,
           \A s \in SUBSET S : s # {} /\ (\A x \in s : s \ {x} \in T) => s \in T
    PROVE  \A s \in SUBSET S : s \in T
<1>. DEFINE n == Cardinality(S)
            U == {m \in 0 .. n : \A s \in SUBSET S : Cardinality(s) = m => s \in T}
<1>1. n \in Nat /\ \A s \in SUBSET S : IsFiniteSet(s) /\ Cardinality(s) \in 0 .. n
  <2>. SUFFICES ASSUME NEW s \in SUBSET S
                PROVE  n \in Nat /\ IsFiniteSet(s) /\ Cardinality(s) \in 0 .. n
    BY FS_CardinalityType
  <2>1. IsFiniteSet(s) /\ Cardinality(s) <= n
    BY FS_Subset
  <2>2. n \in Nat /\ Cardinality(s) \in Nat
    BY <2>1, FS_CardinalityType
  <2>. HIDE DEF n
  <2>. QED  BY <2>1, <2>2
<1>2. 0 \in U
  <2>1. \A s \in SUBSET S : Cardinality(s) = 0 => s = {}
    BY <1>1, FS_EmptySet
  <2>2. 0 \in 0 .. n
    <3>. HIDE DEF n
    <3>. QED  BY <1>1
  <2>. QED  BY <2>1, <2>2
<1>3. ASSUME NEW m \in 0 .. n - 1, m \in U
      PROVE  m + 1 \in U
  <2>1. m \in Nat /\ m + 1 \in 0 .. n
    <3>. HIDE DEF n, U
    <3>. QED  BY <1>1
  <2>2. ASSUME NEW s \in SUBSET S, Cardinality(s) = m + 1
        PROVE  s \in T
    <3>1. s # {}
      BY <1>1, <2>1, <2>2, FS_EmptySet
    <3>2. ASSUME NEW x \in s
          PROVE  s \ {x} \in T
      <4>1. Cardinality(s \ {x}) = Cardinality(s) - 1
        BY <1>1, FS_RemoveElement
      <4>2. Cardinality(s \ {x}) = m /\ s \ {x} \in SUBSET S
        BY <2>1, <2>2, <4>1
      <4>. QED  BY <1>3, <4>2
    <3>. QED  BY <3>1, <3>2
  <2>. QED  BY <2>1, <2>2
<1>4. \A m \in 0 .. n : m \in U
  <2>. HIDE DEF U, n
  <2>. QED  BY <1>1, <1>2, <1>3, NatInduct
<1>. QED  BY <1>1, <1>4

FoldOf(g, S, base, pick, step) ==
    g = [s \in SUBSET S |-> IF s = {} THEN base ELSE step[<<pick[s], g[s \ {pick[s]}]>>]]

\* R[s] is a set the result for s is known to be in.
FoldWithin(S, R, base, pick, step) ==
    /\ base \in R[{}]
    /\ \A s \in SUBSET S : s # {} =>
          pick[s] \in s /\ \A v \in R[s \ {pick[s]}] : step[<<pick[s], v>>] \in R[s]

\* There is a function like the one MapThenFoldSet defines on the subsets of S.
LEMMA FoldExists ==
    ASSUME NEW S, IsFiniteSet(S), NEW R, NEW base, NEW pick, NEW step,
           FoldWithin(S, R, base, pick, step)
    PROVE  \E g : FoldOf(g, S, base, pick, step) /\ \A s \in SUBSET S : g[s] \in R[s]
<1>. DEFINE D(m) == {s \in SUBSET S : Cardinality(s) <= m}
            n == Cardinality(S)
            val(g, s) == IF s = {} THEN base ELSE step[<<pick[s], g[s \ {pick[s]}]>>]
            V == UNION {R[s] : s \in SUBSET S}
            Good(g, m) ==
              g \in [D(m) -> V] /\ \A s \in D(m) : g[s] \in R[s] /\ g[s] = val(g, s)
            T == {m \in 0 .. n : \E g : Good(g, m)}
<1>. /\ base \in R[{}]
     /\ \A s \in SUBSET S : s # {} =>
           pick[s] \in s /\ \A v \in R[s \ {pick[s]}] : step[<<pick[s], v>>] \in R[s]
  BY DEF FoldWithin
<1>1. n \in Nat /\ \A s \in SUBSET S : IsFiniteSet(s) /\ Cardinality(s) \in 0 .. n
  <2>. SUFFICES ASSUME NEW s \in SUBSET S
                PROVE  n \in Nat /\ IsFiniteSet(s) /\ Cardinality(s) \in 0 .. n
    BY FS_CardinalityType
  <2>1. IsFiniteSet(s) /\ Cardinality(s) <= n
    BY FS_Subset
  <2>2. n \in Nat /\ Cardinality(s) \in Nat
    BY <2>1, FS_CardinalityType
  <2>. HIDE DEF n
  <2>. QED  BY <2>1, <2>2
<1>2. \A s \in SUBSET S : s # {} =>
         /\ pick[s] \in S /\ s \ {pick[s]} \in SUBSET S
         /\ Cardinality(s \ {pick[s]}) = Cardinality(s) - 1
  BY <1>1, FS_RemoveElement
<1>0. \A s \in SUBSET S : R[s] \subseteq V
  OBVIOUS
<1>. HIDE DEF n, V
<1>3. 0 \in T
  <2>. DEFINE g == [s \in D(0) |-> base]
  <2>1. \A s \in D(0) : s = {}
    BY <1>1, FS_EmptySet
  <2>2. base \in V /\ 0 \in 0 .. n
    BY <1>0, <1>1
  <2>3. \A s \in D(0) : g[s] = base /\ base \in R[s] /\ base = val(g, s)
    <3>. SUFFICES ASSUME NEW s \in D(0)
                  PROVE  g[s] = base /\ base \in R[s] /\ base = val(g, s)
      OBVIOUS
    <3>1. s = {}
      BY <2>1
    <3>. QED  BY <3>1
  <2>4. g \in [D(0) -> V]
    <3>. HIDE DEF D
    <3>. QED  BY <2>2
  <2>5. Good(g, 0)
    <3>. HIDE DEF val, g, D
    <3>. QED  BY <2>3, <2>4
  <2>. HIDE DEF Good, g
  <2>. QED  BY <2>2, <2>5
<1>4. ASSUME NEW m \in 0 .. n - 1, m \in T
      PROVE  m + 1 \in T
  <2>1. PICK h : Good(h, m)
    BY <1>4
  <2>. DEFINE g == [s \in D(m + 1) |-> IF s \in D(m) THEN h[s] ELSE val(h, s)]
  <2>2. m \in Nat /\ m + 1 \in 0 .. n
    BY <1>1
  <2>3. \A s \in D(m + 1) : s # {} => s \ {pick[s]} \in D(m) /\ s \ {pick[s]} \in D(m + 1)
    BY <1>1, <1>2, <2>2
  <2>4. \A s \in D(m) : s \in D(m + 1)
    BY <1>1, <2>2
  <2>5. \A s \in D(m + 1) : val(h, s) \in R[s]
    BY <1>2, <2>1, <2>3
  <2>6. g \in [D(m + 1) -> V]
    <3>. HIDE DEF val
    <3>. QED  BY <1>0, <2>1, <2>5
  <2>7. ASSUME NEW s \in D(m + 1)
        PROVE  g[s] \in R[s] /\ g[s] = val(g, s)
    <3>1. g[s] = val(h, s)
      BY <2>1
    <3>2. s # {} => g[s \ {pick[s]}] = h[s \ {pick[s]}]
      BY <2>3
    <3>3. val(g, s) = val(h, s)
      BY <3>2
    <3>. QED  BY <2>5, <3>1, <3>3
  <2>8. Good(g, m + 1)
    BY <2>6, <2>7
  <2>. HIDE DEF Good, g
  <2>. QED  BY <2>2, <2>8
<1>5. n \in T
  <2>. HIDE DEF T
  <2>1. \A m \in 0 .. n : m \in T
    BY <1>1, <1>3, <1>4, NatInduct
  <2>. QED  BY <1>1, <2>1
<1>6. PICK g : Good(g, n)
  BY <1>5
<1>7. D(n) = SUBSET S
  BY <1>1
<1>8. FoldOf(g, S, base, pick, step) /\ \A s \in SUBSET S : g[s] \in R[s]
  BY <1>6, <1>7 DEF FoldOf
<1>. QED  BY <1>8

-----------------------------------------------------------------------------
(* Cardinalities. *)

\* If match relates everything in S to something in T, and nothing in T to two of S,
\* then S has no more elements than T.
LEMMA MatchBound ==
    ASSUME NEW S, NEW T, IsFiniteSet(T), NEW match,
           \A s \in S : \E t \in T : <<s, t>> \in match,
           \A s, r \in S : \A t \in T : <<s, t>> \in match /\ <<r, t>> \in match => s = r
    PROVE  IsFiniteSet(S) /\ Cardinality(S) <= Cardinality(T)
<1>. DEFINE F == [s \in S |-> CHOOSE t \in T : <<s, t>> \in match]
<1>1. \A s \in S : F[s] \in T /\ <<s, F[s]>> \in match
  OBVIOUS
<1>2. F \in [S -> T]
  BY <1>1
<1>. HIDE DEF F
<1>3. \A s, r \in S : F[s] = F[r] => s = r
  BY <1>1
<1>4. F \in Injection(S, T)
  BY <1>2, <1>3 DEF Injection, IsInjective
<1>. QED  BY <1>4, FS_Injection

-----------------------------------------------------------------------------
(* Division with remainder by P. *)

LEMMA DivMod ==
    ASSUME NEW P \in Nat \ {0}, NEW a \in Nat
    PROVE  /\ a \div P \in Nat /\ a % P \in Nat /\ a % P < P
           /\ a % P \in 0 .. P - 1
           /\ a = (a \div P) * P + (a % P)
<1>1. /\ a \div P \in Nat /\ a % P \in Nat /\ a % P < P
      /\ a = (a \div P) * P + (a % P)
  OBVIOUS
<1>. QED  BY <1>1

LEMMA DivUnique ==
    ASSUME NEW P \in Nat \ {0}, NEW p \in Nat, NEW q \in Nat,
           NEW x \in 0 .. P - 1, NEW y \in 0 .. P - 1, p * P + x = q * P + y
    PROVE  p = q /\ x = y
<1>1. ASSUME NEW i \in Nat, NEW j \in Nat, i < j
      PROVE  j * P >= i * P + P
  <2>1. \E d \in Nat : j = i + 1 + d
    <3>1. j - i - 1 \in Nat /\ j = i + 1 + (j - i - 1)
      BY <1>1
    <3>. QED  BY <3>1
  <2>2. PICK d \in Nat : j = i + 1 + d
    BY <2>1
  <2>3. j * P = i * P + P + d * P
    BY <2>2
  <2>4. d * P \in Nat /\ i * P \in Nat
    OBVIOUS
  <2>. QED  BY <2>3, <2>4
<1>2. p * P \in Nat /\ q * P \in Nat /\ x \in Nat /\ y \in Nat /\ x < P /\ y < P
  OBVIOUS
<1>3. ~(p < q)
  <2>. SUFFICES ASSUME p < q PROVE FALSE
    OBVIOUS
  <2>1. q * P >= p * P + P
    BY <1>1
  <2>. QED  BY <1>2, <2>1
<1>4. ~(q < p)
  <2>. SUFFICES ASSUME q < p PROVE FALSE
    OBVIOUS
  <2>1. p * P >= q * P + P
    BY <1>1
  <2>. QED  BY <1>2, <2>1
<1>. QED  BY <1>2, <1>3, <1>4

LEMMA DivMonotone ==
    ASSUME NEW P \in Nat \ {0}, NEW a \in Nat, NEW b \in Nat, a <= b
    PROVE  a \div P <= b \div P
<1>. DEFINE p == a \div P
            q == b \div P
            x == a % P
            y == b % P
<1>1. /\ p \in Nat /\ x \in Nat /\ x < P /\ a = p * P + x
      /\ q \in Nat /\ y \in Nat /\ y < P /\ b = q * P + y
  BY DivMod
<1>. HIDE DEF p, q, x, y
<1>2. SUFFICES ASSUME q < p
               PROVE  FALSE
  BY <1>1 DEF p, q
<1>3. PICK d \in Nat : p = q + 1 + d
  <2>1. p - q - 1 \in Nat /\ p = q + 1 + (p - q - 1)
    BY <1>1, <1>2
  <2>. QED  BY <2>1
<1>4. p * P = q * P + P + d * P
  BY <1>1, <1>3
<1>5. d * P \in Nat /\ q * P \in Nat
  BY <1>1
<1>. QED  BY <1>1, <1>4, <1>5

=============================================================================
