----------------------------- MODULE WordLemmas -----------------------------
(***************************************************************************)
(* Powers of two, sums over sets, and bits: what Words computes, for every *)
(* width of a word.                                                        *)
(***************************************************************************)
EXTENDS Words, DataLemmas

-----------------------------------------------------------------------------
(* Powers of two. *)

PowTable(g, n) == g = [k \in 0 .. n |-> IF k = 0 THEN 1 ELSE 2 * g[k - 1]]

LEMMA PowTableExists ==
    ASSUME NEW n \in Nat
    PROVE  \E g : PowTable(g, n)
<1>. DEFINE R == [k \in Nat |-> Nat]
            step == [kv \in Nat \X Nat |-> 2 * kv[2]]
<1>1. \A k \in 1 .. n : \A v \in Nat : step[<<k, v>>] = 2 * v /\ 2 * v \in Nat
  OBVIOUS
<1>2. \A k \in 0 .. n : R[k] = Nat
  OBVIOUS
<1>. HIDE DEF R, step
<1>3. LoopWithin(n, R, 1, step)
  <2>1. \A k \in 1 .. n : k - 1 \in 0 .. n /\ k \in 0 .. n /\ 0 \in 0 .. n
    OBVIOUS
  <2>2. 0 \in 0 .. n
    OBVIOUS
  <2>. QED  BY <1>1, <1>2, <2>1, <2>2 DEF LoopWithin
<1>4. PICK g : LoopOf(g, n, 1, step) /\ \A k \in 0 .. n : g[k] \in R[k]
  BY <1>3, LoopExists
<1>5. \A k \in 0 .. n : k # 0 => step[<<k, g[k - 1]>>] = 2 * g[k - 1]
  <2>1. \A k \in 0 .. n : k # 0 => k \in 1 .. n /\ k - 1 \in 0 .. n
    OBVIOUS
  <2>. QED  BY <1>1, <1>2, <1>4, <2>1
<1>6. g = [k \in 0 .. n |-> IF k = 0 THEN 1 ELSE 2 * g[k - 1]]
  BY <1>4, <1>5 DEF LoopOf
<1>. QED  BY <1>6 DEF PowTable

LEMMA PowTableUnique ==
    ASSUME NEW n \in Nat, NEW m \in 0 .. n, NEW g, NEW h, PowTable(g, n), PowTable(h, m)
    PROVE  \A k \in 0 .. m : g[k] = h[k]
<1>. DEFINE T == {k \in 0 .. m : g[k] = h[k]}
<1>1. /\ m \in Nat /\ 0 \in 0 .. m /\ 0 \in 0 .. n
      /\ \A k \in 0 .. m - 1 : /\ k \in 0 .. m /\ k + 1 \in 0 .. m /\ k + 1 \in 0 .. n
                                /\ k + 1 # 0 /\ (k + 1) - 1 = k
  OBVIOUS
<1>2. 0 \in T
  BY <1>1 DEF PowTable
<1>3. ASSUME NEW k \in 0 .. m - 1, k \in T
      PROVE  k + 1 \in T
  <2>1. g[k + 1] = 2 * g[k] /\ h[k + 1] = 2 * h[k]
    BY <1>1 DEF PowTable
  <2>. QED  BY <1>1, <1>3, <2>1
<1>. HIDE DEF T
<1>4. \A k \in 0 .. m : k \in T
  BY <1>1, <1>2, <1>3, NatInduct
<1>. QED  BY <1>4 DEF T

LEMMA PowDef == Pow2 = [n \in Nat |-> IF n = 0 THEN 1 ELSE 2 * Pow2[n - 1]]
<1>. DEFINE G(n) == CHOOSE g : PowTable(g, n)
            f == [n \in Nat |-> G(n)[n]]
<1>1. \A n \in Nat : PowTable(G(n), n)
  BY PowTableExists
<1>. HIDE DEF G
<1>2. ASSUME NEW n \in Nat
      PROVE  f[n] = IF n = 0 THEN 1 ELSE 2 * f[n - 1]
  <2>1. f[n] = G(n)[n] /\ n \in 0 .. n
    OBVIOUS
  <2>2. CASE n = 0
    BY <1>1, <2>1, <2>2 DEF PowTable
  <2>3. CASE n # 0
    <3>1. n - 1 \in Nat /\ n - 1 \in 0 .. n - 1 /\ n - 1 \in 0 .. n
      BY <2>3
    <3>2. G(n)[n] = 2 * G(n)[n - 1]
      BY <1>1, <2>1, <2>3 DEF PowTable
    <3>3. G(n)[n - 1] = G(n - 1)[n - 1]
      BY <1>1, <3>1, PowTableUnique
    <3>4. f[n - 1] = G(n - 1)[n - 1]
      BY <3>1
    <3>. QED  BY <2>1, <2>3, <3>2, <3>3, <3>4
  <2>. QED  BY <2>2, <2>3
<1>3. f = [n \in Nat |-> IF n = 0 THEN 1 ELSE 2 * f[n - 1]]
  <2>1. f = [n \in Nat |-> f[n]]
    OBVIOUS
  <2>. HIDE DEF f
  <2>. QED  BY <1>2, <2>1
<1>. HIDE DEF f
<1>4. \E g : g = [n \in Nat |-> IF n = 0 THEN 1 ELSE 2 * g[n - 1]]
  BY <1>3
<1>. QED  BY <1>4 DEF Pow2

LEMMA PowFacts ==
    /\ Pow2[0] = 1
    /\ \A n \in Nat : Pow2[n] \in Nat \ {0} /\ Pow2[n + 1] = 2 * Pow2[n]
<1>1. /\ Pow2[0] = 1 /\ \A n \in Nat : Pow2[n + 1] = 2 * Pow2[n]
  <2>1. ASSUME NEW n \in Nat
        PROVE  Pow2[n] = IF n = 0 THEN 1 ELSE 2 * Pow2[n - 1]
    BY PowDef, Zenon
  <2>2. Pow2[0] = 1
    BY <2>1
  <2>3. ASSUME NEW n \in Nat
        PROVE  Pow2[n + 1] = 2 * Pow2[n]
    <3>1. n + 1 \in Nat /\ n + 1 # 0 /\ (n + 1) - 1 = n
      OBVIOUS
    <3>. QED  BY <2>1, <3>1
  <2>. QED  BY <2>2, <2>3
<1>2. ASSUME NEW n \in Nat
      PROVE  Pow2[n] \in Nat \ {0}
  <2>. DEFINE T == {k \in 0 .. n : Pow2[k] \in Nat \ {0}}
  <2>1. 0 \in T
    BY <1>1
  <2>2. ASSUME NEW k \in 0 .. n - 1, k \in T
        PROVE  k + 1 \in T
    <3>1. k \in Nat /\ k + 1 \in 0 .. n
      OBVIOUS
    <3>. QED  BY <1>1, <2>2, <3>1
  <2>. HIDE DEF T
  <2>3. \A k \in 0 .. n : k \in T
    BY <2>1, <2>2, NatInduct
  <2>. QED  BY <2>3 DEF T
<1>. QED  BY <1>1, <1>2

LEMMA PowAdd ==
    ASSUME NEW a \in Nat, NEW b \in Nat
    PROVE  Pow2[a + b] = Pow2[a] * Pow2[b]
<1>. DEFINE T == {k \in 0 .. b : Pow2[a + k] = Pow2[a] * Pow2[k]}
<1>1. 0 \in T
  BY PowFacts
<1>2. ASSUME NEW k \in 0 .. b - 1, k \in T
      PROVE  k + 1 \in T
  <2>1. k \in Nat /\ a + k \in Nat /\ (a + k) + 1 = a + (k + 1) /\ k + 1 \in 0 .. b
    OBVIOUS
  <2>2. Pow2[a + (k + 1)] = 2 * Pow2[a + k] /\ Pow2[k + 1] = 2 * Pow2[k]
    BY <2>1, PowFacts
  <2>3. Pow2[a + k] = Pow2[a] * Pow2[k] /\ Pow2[a] \in Nat /\ Pow2[k] \in Nat
    BY <1>2, <2>1, PowFacts
  <2>4. \A p, q \in Nat : 2 * (p * q) = p * (2 * q)
    OBVIOUS
  <2>. QED  BY <2>1, <2>2, <2>3, <2>4
<1>. HIDE DEF T
<1>3. \A k \in 0 .. b : k \in T
  BY <1>1, <1>2, NatInduct
<1>. QED  BY <1>3 DEF T

LEMMA PowMonotone ==
    ASSUME NEW a \in Nat, NEW b \in Nat, a <= b
    PROVE  /\ Pow2[b] = Pow2[a] * Pow2[b - a]
           /\ Pow2[a] <= Pow2[b]
<1>1. b - a \in Nat /\ a + (b - a) = b
  OBVIOUS
<1>2. Pow2[b] = Pow2[a] * Pow2[b - a]
  BY <1>1, PowAdd
<1>3. Pow2[a] \in Nat \ {0} /\ Pow2[b - a] \in Nat \ {0}
  BY <1>1, PowFacts
<1>4. \A p, q \in Nat \ {0} : p <= p * q
  <2>. SUFFICES ASSUME NEW p \in Nat \ {0}, NEW q \in Nat \ {0}
                PROVE  p <= p * q
    OBVIOUS
  <2>1. p * q = p + p * (q - 1) /\ q - 1 \in Nat
    OBVIOUS
  <2>2. \A r \in Nat : p * r \in Nat
    OBVIOUS
  <2>. QED  BY <2>1, <2>2
<1>. QED  BY <1>2, <1>3, <1>4

\* The modulus of words is even, and no byte is larger than a word.
LEMMA ModulusFacts ==
    /\ WordBits \in Nat /\ WordBits >= 4 /\ ByteBits \in Nat /\ ByteBits >= 1
    /\ WordBits = 4 * ByteBits
    /\ Modulus \in Nat /\ Modulus >= 16 /\ Words = 0 .. Modulus - 1
    /\ Modulus = 2 * Pow2[WordBits - 1] /\ Modulus \div 2 = Pow2[WordBits - 1]
    /\ Pow2[WordBits - 1] \in Nat \ {0}
<1>1. /\ WordBits \in Nat /\ WordBits >= 4 /\ ByteBits \in Nat /\ ByteBits >= 1
      /\ WordBits = 4 * ByteBits
  BY WordBitsAssumption DEF ByteBits
<1>2. WordBits - 1 \in Nat /\ (WordBits - 1) + 1 = WordBits
  BY <1>1
<1>3. Modulus = 2 * Pow2[WordBits - 1] /\ Pow2[WordBits - 1] \in Nat \ {0}
  BY <1>2, PowFacts DEF Modulus
<1>4. Pow2[4] = 16
  <2>1. Pow2[0 + 1] = 2 /\ Pow2[1 + 1] = 2 * Pow2[1] /\ Pow2[2 + 1] = 2 * Pow2[2]
        /\ Pow2[3 + 1] = 2 * Pow2[3]
    BY PowFacts
  <2>. QED  BY <2>1
<1>5. Modulus >= 16
  BY <1>1, <1>4, PowMonotone, PowFacts DEF Modulus
<1>. QED  BY <1>1, <1>3, <1>5 DEF Words

-----------------------------------------------------------------------------
(* Sums over finite sets. *)

TotalTable(g, f, S) ==
    g = [s \in SUBSET S |-> IF s = {} THEN 0
                            ELSE f[CHOOSE x \in s : TRUE] + g[s \ {CHOOSE x \in s : TRUE}]]

LEMMA TotalTableExists ==
    ASSUME NEW S, IsFiniteSet(S), NEW f, \A x \in S : f[x] \in Int
    PROVE  \E g : TotalTable(g, f, S) /\ \A s \in SUBSET S : g[s] \in Int
<1>. DEFINE R == [s \in SUBSET S |-> Int]
            pick == [s \in SUBSET S |-> CHOOSE x \in s : TRUE]
            step == [xv \in S \X Int |-> f[xv[1]] + xv[2]]
<1>1. \A s \in SUBSET S : /\ pick[s] = CHOOSE x \in s : TRUE
                          /\ s # {} => pick[s] \in s
                          /\ s \ {pick[s]} \in SUBSET S
  OBVIOUS
<1>2. \A x \in S : \A v \in Int : step[<<x, v>>] = f[x] + v /\ step[<<x, v>>] \in Int
  OBVIOUS
<1>3. \A s \in SUBSET S : R[s] = Int
  OBVIOUS
<1>. HIDE DEF R, pick, step
<1>4. FoldWithin(S, R, 0, pick, step)
  <2>1. {} \in SUBSET S /\ 0 \in Int
    OBVIOUS
  <2>. QED  BY <1>1, <1>2, <1>3, <2>1 DEF FoldWithin
<1>5. PICK g : FoldOf(g, S, 0, pick, step) /\ \A s \in SUBSET S : g[s] \in R[s]
  BY <1>4, FoldExists
<1>6. \A s \in SUBSET S : s # {} =>
         step[<<pick[s], g[s \ {pick[s]}]>>]
           = f[CHOOSE x \in s : TRUE] + g[s \ {CHOOSE x \in s : TRUE}]
  <2>. SUFFICES ASSUME NEW s \in SUBSET S, s # {}
                PROVE  step[<<pick[s], g[s \ {pick[s]}]>>] = f[pick[s]] + g[s \ {pick[s]}]
    BY <1>1
  <2>1. pick[s] \in S /\ g[s \ {pick[s]}] \in Int
    BY <1>1, <1>3, <1>5
  <2>. QED  BY <1>2, <2>1
<1>7. g = [s \in SUBSET S |-> IF s = {} THEN 0
                              ELSE f[CHOOSE x \in s : TRUE] + g[s \ {CHOOSE x \in s : TRUE}]]
  BY <1>5, <1>6 DEF FoldOf
<1>8. TotalTable(g, f, S)
  BY <1>7 DEF TotalTable
<1>9. \A s \in SUBSET S : g[s] \in Int
  BY <1>3, <1>5
<1>. QED  BY <1>8, <1>9

LEMMA TotalIsTable ==
    ASSUME NEW S, IsFiniteSet(S), NEW f, \A x \in S : f[x] \in Int
    PROVE  \E g : TotalTable(g, f, S) /\ Total(f, S) = g[S]
<1>. DEFINE g == CHOOSE h : TotalTable(h, f, S)
<1>1. Total(f, S) = g[S]
  BY DEF Total, MapThenSumSet, MapThenFoldSet, TotalTable
<1>2. TotalTable(g, f, S)
  BY TotalTableExists
<1>. QED  BY <1>1, <1>2

\* The table of a set holds the totals of its subsets.
LEMMA TableTotals ==
    ASSUME NEW S, IsFiniteSet(S), NEW f, \A x \in S : f[x] \in Int,
           NEW g, TotalTable(g, f, S), NEW t \in SUBSET S
    PROVE  g[t] = Total(f, t)
<1>1. IsFiniteSet(t) /\ \A x \in t : f[x] \in Int
  BY FS_Subset
<1>2. PICK h : TotalTable(h, f, t) /\ Total(f, t) = h[t]
  BY <1>1, TotalIsTable
<1>. DEFINE T == {s \in SUBSET t : g[s] = h[s]}
<1>3. {} \in T
  BY <1>2 DEF TotalTable
<1>4. ASSUME NEW s \in SUBSET t, s # {}, \A x \in s : s \ {x} \in T
      PROVE  s \in T
  <2>. DEFINE x == CHOOSE y \in s : TRUE
  <2>1. x \in s /\ s \in SUBSET S
    BY <1>4
  <2>2. g[s] = f[x] + g[s \ {x}]
    BY <1>4, <2>1 DEF TotalTable
  <2>3. h[s] = f[x] + h[s \ {x}]
    BY <1>2, <1>4 DEF TotalTable
  <2>. HIDE DEF x
  <2>4. g[s \ {x}] = h[s \ {x}]
    BY <1>4, <2>1
  <2>. QED  BY <2>2, <2>3, <2>4
<1>. HIDE DEF T
<1>5. t \in T
  BY <1>1, <1>3, <1>4, SubsetInduct
<1>. QED  BY <1>2, <1>5 DEF T

\* A total does not depend on the order of its terms.
LEMMA TotalFacts ==
    ASSUME NEW S, IsFiniteSet(S), NEW f, \A x \in S : f[x] \in Int
    PROVE  /\ Total(f, S) \in Int
           /\ S = {} => Total(f, S) = 0
           /\ \A x \in S : Total(f, S) = f[x] + Total(f, S \ {x})
<1>1. PICK g : TotalTable(g, f, S) /\ \A s \in SUBSET S : g[s] \in Int
  BY TotalTableExists
<1>2. \A s \in SUBSET S : g[s] = Total(f, s)
  BY <1>1, TableTotals
<1>. DEFINE T == {s \in SUBSET S : \A x \in s : g[s] = f[x] + g[s \ {x}]}
<1>3. {} \in T
  OBVIOUS
<1>4. ASSUME NEW s \in SUBSET S, s # {}, \A x \in s : s \ {x} \in T
      PROVE  s \in T
  <2>. DEFINE y == CHOOSE z \in s : TRUE
  <2>1. y \in s
    BY <1>4
  <2>2. g[s] = f[y] + g[s \ {y}]
    BY <1>1, <1>4 DEF TotalTable
  <2>. HIDE DEF y
  <2>3. ASSUME NEW x \in s, x # y
        PROVE  g[s] = f[x] + g[s \ {x}]
    <3>1. x \in s \ {y} /\ y \in s \ {x} /\ (s \ {y}) \ {x} = (s \ {x}) \ {y}
      BY <2>1, <2>3
    <3>2. g[s \ {y}] = f[x] + g[(s \ {y}) \ {x}]
      BY <1>4, <2>1, <3>1
    <3>3. g[s \ {x}] = f[y] + g[(s \ {y}) \ {x}]
      BY <1>4, <3>1
    <3>4. f[x] \in Int /\ f[y] \in Int /\ g[(s \ {y}) \ {x}] \in Int
      BY <1>1, <2>1
    <3>. QED  BY <2>2, <3>2, <3>3, <3>4
  <2>. QED  BY <2>1, <2>2, <2>3
<1>. HIDE DEF T
<1>5. \A s \in SUBSET S : s \in T
  BY <1>3, <1>4, SubsetInduct
<1>6. \A x \in S : g[S] = f[x] + g[S \ {x}]
  BY <1>5 DEF T
<1>7. S = {} => g[S] = 0
  BY <1>1 DEF TotalTable
<1>. QED  BY <1>1, <1>2, <1>6, <1>7

LEMMA TotalUnion ==
    ASSUME NEW A, NEW B, IsFiniteSet(A), IsFiniteSet(B), A \cap B = {},
           NEW f, \A x \in A \cup B : f[x] \in Int
    PROVE  Total(f, A \cup B) = Total(f, A) + Total(f, B)
<1>. DEFINE T == {s \in SUBSET B : Total(f, A \cup s) = Total(f, A) + Total(f, s)}
<1>1. ASSUME NEW s \in SUBSET B
      PROVE  /\ Total(f, s) \in Int /\ Total(f, A \cup s) \in Int
             /\ s = {} => Total(f, s) = 0
             /\ \A x \in s : /\ Total(f, s) = f[x] + Total(f, s \ {x})
                             /\ Total(f, A \cup s) = f[x] + Total(f, (A \cup s) \ {x})
  <2>1. IsFiniteSet(s) /\ IsFiniteSet(A \cup s)
    BY FS_Subset, FS_Union
  <2>2. (\A x \in s : f[x] \in Int) /\ (\A x \in A \cup s : f[x] \in Int)
    OBVIOUS
  <2>. QED  BY <2>1, <2>2, TotalFacts
<1>2. Total(f, A) \in Int
  BY TotalFacts
<1>3. {} \in T
  <2>1. A \cup {} = A /\ {} \in SUBSET B
    OBVIOUS
  <2>2. Total(f, {}) = 0
    BY <1>1, <2>1
  <2>. QED  BY <1>2, <2>1, <2>2
<1>4. ASSUME NEW s \in SUBSET B, s # {}, \A x \in s : s \ {x} \in T
      PROVE  s \in T
  <2>1. PICK x \in s : TRUE
    BY <1>4
  <2>2. (A \cup s) \ {x} = A \cup (s \ {x}) /\ s \ {x} \in SUBSET B /\ x \in B
    BY <1>4
  <2>3. Total(f, A \cup (s \ {x})) = Total(f, A) + Total(f, s \ {x})
    BY <1>4
  <2>4. /\ Total(f, s) = f[x] + Total(f, s \ {x})
        /\ Total(f, A \cup s) = f[x] + Total(f, A \cup (s \ {x}))
    BY <1>1, <2>2
  <2>5. f[x] \in Int /\ Total(f, s \ {x}) \in Int
    BY <1>1, <2>2
  <2>. QED  BY <1>2, <2>3, <2>4, <2>5
<1>. HIDE DEF T
<1>5. \A s \in SUBSET B : s \in T
  BY <1>3, <1>4, SubsetInduct
<1>. QED  BY <1>5 DEF T

LEMMA TotalSame ==
    ASSUME NEW S, IsFiniteSet(S), NEW f, NEW g, \A x \in S : f[x] = g[x] /\ f[x] \in Int
    PROVE  Total(f, S) = Total(g, S)
<1>. DEFINE T == {s \in SUBSET S : Total(f, s) = Total(g, s)}
<1>1. ASSUME NEW s \in SUBSET S
      PROVE  /\ s = {} => Total(f, s) = 0 /\ Total(g, s) = 0
             /\ \A x \in s : /\ Total(f, s) = f[x] + Total(f, s \ {x})
                             /\ Total(g, s) = g[x] + Total(g, s \ {x})
  <2>1. IsFiniteSet(s) /\ (\A x \in s : f[x] \in Int) /\ (\A x \in s : g[x] \in Int)
    BY FS_Subset
  <2>. QED  BY <2>1, TotalFacts
<1>2. {} \in T
  BY <1>1
<1>3. ASSUME NEW s \in SUBSET S, s # {}, \A x \in s : s \ {x} \in T
      PROVE  s \in T
  <2>1. PICK x \in s : TRUE
    BY <1>3
  <2>2. Total(f, s \ {x}) = Total(g, s \ {x}) /\ f[x] = g[x]
    BY <1>3
  <2>. QED  BY <1>1, <2>2
<1>. HIDE DEF T
<1>4. \A s \in SUBSET S : s \in T
  BY <1>2, <1>3, SubsetInduct
<1>. QED  BY <1>4 DEF T

-----------------------------------------------------------------------------
(* Sets of bits and the numbers they stand for. *)

LEMMA BitPositions ==
    ASSUME NEW n \in Nat, NEW s \in SUBSET (0 .. n - 1)
    PROVE  /\ IsFiniteSet(s)
           /\ \A i \in s : i \in Nat /\ Pow2[i] \in Nat
<1>1. IsFiniteSet(0 .. n - 1)
  BY FS_Interval
<1>2. \A i \in s : i \in Nat
  OBVIOUS
<1>3. IsFiniteSet(s)
  BY <1>1, FS_Subset
<1>. QED  BY <1>2, <1>3, PowFacts

LEMMA ValueFacts ==
    ASSUME NEW n \in Nat, NEW s \in SUBSET (0 .. n - 1)
    PROVE  /\ ValueOf(s) \in 0 .. Pow2[n] - 1
           /\ s = {} => ValueOf(s) = 0
           /\ \A i \in s : ValueOf(s) = Pow2[i] + ValueOf(s \ {i})
<1>1. ASSUME NEW m \in Nat, NEW t \in SUBSET (0 .. m - 1)
      PROVE  /\ ValueOf(t) \in Int
             /\ t = {} => ValueOf(t) = 0
             /\ \A i \in t : ValueOf(t) = Pow2[i] + ValueOf(t \ {i})
  <2>1. IsFiniteSet(t) /\ \A i \in t : i \in Nat /\ Pow2[i] \in Nat
    BY BitPositions, Zenon
  <2>2. \A i \in t : Pow2[i] \in Int
    BY <2>1
  <2>. QED  BY <2>1, <2>2, TotalFacts DEF ValueOf
<1>. DEFINE T == {k \in 0 .. n : \A t \in SUBSET (0 .. k - 1) : ValueOf(t) \in 0 .. Pow2[k] - 1}
<1>2. 0 \in T
  <2>1. ASSUME NEW t \in SUBSET (0 .. 0 - 1)
        PROVE  ValueOf(t) \in 0 .. Pow2[0] - 1
    <3>1. t = {} /\ Pow2[0] = 1
      BY PowFacts
    <3>2. ValueOf(t) = 0
      BY <1>1, <3>1
    <3>. QED  BY <3>1, <3>2
  <2>. QED  BY <2>1
<1>3. ASSUME NEW k \in 0 .. n - 1, k \in T
      PROVE  k + 1 \in T
  <2>1. k \in Nat /\ k + 1 \in 0 .. n /\ k + 1 \in Nat
    OBVIOUS
  <2>2. Pow2[k] \in Nat \ {0} /\ Pow2[k + 1] = 2 * Pow2[k]
    BY <2>1, PowFacts
  <2>3. ASSUME NEW t \in SUBSET (0 .. (k + 1) - 1)
        PROVE  ValueOf(t) \in 0 .. Pow2[k + 1] - 1
    <3>1. t \ {k} \in SUBSET (0 .. k - 1)
      BY <2>1
    <3>2. ValueOf(t \ {k}) \in 0 .. Pow2[k] - 1
      BY <1>3, <3>1
    <3>3. CASE k \in t
      <4>1. ValueOf(t) = Pow2[k] + ValueOf(t \ {k})
        BY <1>1, <2>1, <3>3
      <4>. QED  BY <2>2, <3>2, <4>1
    <3>4. CASE k \notin t
      <4>1. ValueOf(t) = ValueOf(t \ {k})
        <5>1. t \ {k} = t
          BY <3>4
        <5>. QED  BY <5>1
      <4>. QED  BY <2>2, <3>2, <4>1
    <3>. QED  BY <3>3, <3>4
  <2>. QED  BY <2>1, <2>3
<1>. HIDE DEF T
<1>4. \A k \in 0 .. n : k \in T
  BY <1>2, <1>3, NatInduct
<1>5. ValueOf(s) \in 0 .. Pow2[n] - 1
  BY <1>4 DEF T
<1>. QED  BY <1>1, <1>5

LEMMA ValueUnion ==
    ASSUME NEW n \in Nat, NEW s \in SUBSET (0 .. n - 1), NEW t \in SUBSET (0 .. n - 1),
           s \cap t = {}
    PROVE  ValueOf(s \cup t) = ValueOf(s) + ValueOf(t)
<1>1. /\ IsFiniteSet(s) /\ \A i \in s : i \in Nat /\ Pow2[i] \in Nat
      /\ IsFiniteSet(t) /\ \A i \in t : i \in Nat /\ Pow2[i] \in Nat
  BY BitPositions, Zenon
<1>2. \A i \in s \cup t : Pow2[i] \in Int
  BY <1>1
<1>. QED  BY <1>1, <1>2, TotalUnion DEF ValueOf

\* Different sets of bits stand for different numbers.
LEMMA ValueInjective ==
    ASSUME NEW n \in Nat, NEW s \in SUBSET (0 .. n - 1), NEW t \in SUBSET (0 .. n - 1),
           ValueOf(s) = ValueOf(t)
    PROVE  s = t
<1>. DEFINE T == {k \in 0 .. n : \A a, b \in SUBSET (0 .. k - 1) : ValueOf(a) = ValueOf(b) => a = b}
<1>1. 0 \in T
  <2>1. 0 .. 0 - 1 = {} /\ 0 \in 0 .. n
    OBVIOUS
  <2>2. \A a, b \in SUBSET (0 .. 0 - 1) : ValueOf(a) = ValueOf(b) => a = b
    BY <2>1
  <2>. QED  BY <2>1, <2>2
<1>2. ASSUME NEW k \in 0 .. n - 1, k \in T
      PROVE  k + 1 \in T
  <2>1. k \in Nat /\ k + 1 \in 0 .. n /\ k + 1 \in Nat
    OBVIOUS
  <2>2. ASSUME NEW a \in SUBSET (0 .. (k + 1) - 1)
        PROVE  /\ a \ {k} \in SUBSET (0 .. k - 1)
               /\ ValueOf(a \ {k}) \in 0 .. Pow2[k] - 1
               /\ k \in a => ValueOf(a) = Pow2[k] + ValueOf(a \ {k})
               /\ k \notin a => ValueOf(a) = ValueOf(a \ {k})
    <3>1. a \ {k} \in SUBSET (0 .. k - 1)
      BY <2>1
    <3>2. ValueOf(a \ {k}) \in 0 .. Pow2[k] - 1 /\ Pow2[k] \in Nat
      BY <2>1, <3>1, ValueFacts, PowFacts
    <3>3. CASE k \in a
      BY <2>1, <3>1, <3>2, <3>3, ValueFacts
    <3>4. CASE k \notin a
      <4>1. a \ {k} = a
        BY <3>4
      <4>. QED  BY <3>1, <3>2, <3>4, <4>1
    <3>. QED  BY <3>3, <3>4
  <2>3. ASSUME NEW a \in SUBSET (0 .. (k + 1) - 1), NEW b \in SUBSET (0 .. (k + 1) - 1),
               ValueOf(a) = ValueOf(b)
        PROVE  a = b
    <3>1. Pow2[k] \in Nat
      BY <2>1, PowFacts
    <3>2. k \in a <=> k \in b
      <4>1. /\ ValueOf(a \ {k}) >= 0 /\ ValueOf(a \ {k}) < Pow2[k] /\ ValueOf(a \ {k}) \in Int
            /\ ValueOf(b \ {k}) >= 0 /\ ValueOf(b \ {k}) < Pow2[k] /\ ValueOf(b \ {k}) \in Int
        BY <2>2, <3>1
      <4>2. /\ k \in a => ValueOf(a) >= Pow2[k]
            /\ k \notin a => ValueOf(a) < Pow2[k]
            /\ k \in b => ValueOf(b) >= Pow2[k]
            /\ k \notin b => ValueOf(b) < Pow2[k]
            /\ ValueOf(a) \in Int
        BY <2>2, <3>1, <4>1
      <4>. QED  BY <2>3, <3>1, <4>2
    <3>3. ValueOf(a \ {k}) = ValueOf(b \ {k})
      BY <2>2, <2>3, <3>1, <3>2
    <3>4. a \ {k} = b \ {k}
      BY <1>2, <2>2, <3>3
    <3>. QED  BY <3>2, <3>4
  <2>. QED  BY <2>1, <2>3
<1>. HIDE DEF T
<1>3. \A k \in 0 .. n : k \in T
  BY <1>1, <1>2, NatInduct
<1>. QED  BY <1>3 DEF T

LEMMA ModStep ==
    ASSUME NEW v \in Nat, NEW k \in Nat
    PROVE  v % Pow2[k + 1] = IF (v \div Pow2[k]) % 2 = 1 THEN Pow2[k] + (v % Pow2[k]) ELSE v % Pow2[k]
<1>. DEFINE P == Pow2[k]
            q == v \div P
            r == v % P
            b == q % 2
            Q == 2 * P
<1>1. P \in Nat \ {0} /\ Pow2[k + 1] = Q /\ Q \in Nat \ {0} /\ Q = 2 * P
  BY PowFacts
<1>. HIDE DEF P, Q
<1>2. q \in Nat /\ r \in Nat /\ r < P /\ v = q * P + r
  BY <1>1, DivMod
<1>. HIDE DEF q, r
<1>3. q \div 2 \in Nat /\ b \in {0, 1} /\ q = 2 * (q \div 2) + b
  BY <1>2
<1>. HIDE DEF b
<1>4. v = (q \div 2) * Q + (b * P + r)
  <2>1. \A h \in Nat : (2 * h + b) * P = h * Q + b * P
    BY <1>1, <1>3
  <2>. QED  BY <1>1, <1>2, <1>3, <2>1
<1>5. b * P + r \in 0 .. Q - 1
  BY <1>1, <1>2, <1>3
<1>6. v \div Q \in Nat /\ (v % Q) \in 0 .. Q - 1 /\ v = (v \div Q) * Q + (v % Q)
  BY <1>1, DivMod
<1>7. v % Q = b * P + r
  <2>. DEFINE p == v \div Q
              x == v % Q
              h == q \div 2
              y == b * P + r
  <2>1. /\ p \in Nat /\ h \in Nat /\ x \in 0 .. Q - 1 /\ y \in 0 .. Q - 1
        /\ h * Q + y = p * Q + x
    BY <1>3, <1>4, <1>5, <1>6
  <2>. HIDE DEF p, x, h, y
  <2>2. x = y
    BY <1>1, <2>1, DivUnique
  <2>. QED  BY <2>2 DEF x, y
<1>8. b * P = IF b = 1 THEN P ELSE 0
  BY <1>1, <1>3
<1>. QED  BY <1>1, <1>2, <1>3, <1>7, <1>8 DEF P, q, r, b

\* The lowest n bits of v stand for v modulo 2^n ...
LEMMA BitsValue ==
    ASSUME NEW v \in Nat, NEW n \in Nat
    PROVE  /\ BitsOf(v, n) \in SUBSET (0 .. n - 1)
           /\ ValueOf(BitsOf(v, n)) = v % Pow2[n]
<1>. DEFINE T == {k \in 0 .. n : ValueOf(BitsOf(v, k)) = v % Pow2[k]}
<1>1. \A k \in Nat : BitsOf(v, k) \in SUBSET (0 .. k - 1)
  BY DEF BitsOf
<1>2. 0 \in T
  <2>1. BitsOf(v, 0) = {} /\ 0 \in Nat /\ 0 \in 0 .. n
    BY DEF BitsOf
  <2>2. ValueOf(BitsOf(v, 0)) = 0
    BY <1>1, <2>1, ValueFacts
  <2>3. v % Pow2[0] = 0
    BY PowFacts
  <2>. QED  BY <2>1, <2>2, <2>3
<1>3. ASSUME NEW k \in 0 .. n - 1, k \in T
      PROVE  k + 1 \in T
  <2>1. k \in Nat /\ k + 1 \in 0 .. n /\ k + 1 \in Nat
    OBVIOUS
  <2>2. BitsOf(v, k + 1) \ {k} = BitsOf(v, k)
    BY <2>1 DEF BitsOf
  <2>3. k \in BitsOf(v, k + 1) <=> (v \div Pow2[k]) % 2 = 1
    BY <2>1 DEF BitsOf
  <2>4. ValueOf(BitsOf(v, k)) = v % Pow2[k]
    BY <1>3
  <2>5. CASE k \in BitsOf(v, k + 1)
    <3>1. ValueOf(BitsOf(v, k + 1)) = Pow2[k] + ValueOf(BitsOf(v, k + 1) \ {k})
      BY <1>1, <2>1, <2>5, ValueFacts
    <3>2. v % Pow2[k + 1] = Pow2[k] + (v % Pow2[k])
      BY <2>1, <2>3, <2>5, ModStep
    <3>. QED  BY <2>1, <2>2, <2>4, <3>1, <3>2
  <2>6. CASE k \notin BitsOf(v, k + 1)
    <3>1. BitsOf(v, k + 1) = BitsOf(v, k)
      BY <2>2, <2>6
    <3>. QED  BY <2>1, <2>3, <2>4, <2>6, <3>1, ModStep
  <2>. QED  BY <2>5, <2>6
<1>. HIDE DEF T
<1>4. \A k \in 0 .. n : k \in T
  BY <1>2, <1>3, NatInduct
<1>. QED  BY <1>1, <1>4 DEF T

\* ... and the number a set of bits stands for has these bits.
LEMMA ValueBits ==
    ASSUME NEW n \in Nat, NEW s \in SUBSET (0 .. n - 1)
    PROVE  BitsOf(ValueOf(s), n) = s
<1>1. ValueOf(s) \in 0 .. Pow2[n] - 1 /\ Pow2[n] \in Nat
  BY ValueFacts, PowFacts
<1>2. ValueOf(s) \in Nat /\ ValueOf(s) % Pow2[n] = ValueOf(s)
  BY <1>1
<1>3. /\ BitsOf(ValueOf(s), n) \in SUBSET (0 .. n - 1)
      /\ ValueOf(BitsOf(ValueOf(s), n)) = ValueOf(s)
  BY <1>2, BitsValue
<1>. QED  BY <1>3, ValueInjective

LEMMA FieldFacts ==
    ASSUME NEW w, NEW i, NEW len \in Nat
    PROVE  Field(w, i, len) \in 0 .. Pow2[len] - 1
<1>1. {j \in 0 .. len - 1 : i + j \in w} \in SUBSET (0 .. len - 1)
  OBVIOUS
<1>. QED  BY <1>1, ValueFacts DEF Field

-----------------------------------------------------------------------------
(* Words. *)

\* Division of any integer: the remainder and the quotient that go with it are unique.
LEMMA ModUnique ==
    ASSUME NEW P \in Nat \ {0}, NEW v \in Int, NEW q \in Int, NEW r \in 0 .. P - 1, v = q * P + r
    PROVE  v % P = r /\ v \div P = q
<1>. DEFINE p == v \div P
            x == v % P
<1>1. p \in Int /\ x \in 0 .. P - 1 /\ v = p * P + x
  OBVIOUS
<1>. HIDE DEF p, x
<1>2. PICK k \in Nat : k + p \in Nat /\ k + q \in Nat
  <2>1. \A i, j \in Int : \E k \in Nat : k + i \in Nat /\ k + j \in Nat
    <3>. SUFFICES ASSUME NEW i \in Int, NEW j \in Int
                  PROVE  \E k \in Nat : k + i \in Nat /\ k + j \in Nat
      OBVIOUS
    <3>. DEFINE k == (IF i < 0 THEN -i ELSE 0) + (IF j < 0 THEN -j ELSE 0)
    <3>1. k \in Nat /\ k + i \in Nat /\ k + j \in Nat
      OBVIOUS
    <3>. QED  BY <3>1
  <2>. QED  BY <1>1, <2>1
<1>3. (k + p) * P + x = (k + q) * P + r
  <2>1. (k + p) * P = k * P + p * P /\ (k + q) * P = k * P + q * P
    BY <1>1
  <2>2. k * P \in Int /\ p * P \in Int /\ q * P \in Int
    BY <1>1
  <2>. QED  BY <1>1, <2>1, <2>2
<1>4. k + p = k + q /\ x = r
  <2>. DEFINE i == k + p
              j == k + q
  <2>1. i \in Nat /\ j \in Nat /\ i * P + x = j * P + r
    BY <1>2, <1>3
  <2>. HIDE DEF i, j
  <2>2. i = j /\ x = r
    BY <1>1, <2>1, DivUnique
  <2>. QED  BY <2>2 DEF i, j
<1>5. p = q
  BY <1>1, <1>4
<1>. QED  BY <1>4, <1>5 DEF p, x

LEMMA DigitBound ==
    ASSUME NEW P \in Nat \ {0}, NEW B \in Nat \ {0}, NEW b \in 0 .. B - 1, NEW r \in 0 .. P - 1
    PROVE  b * P + r \in 0 .. P * B - 1
<1>. DEFINE d == B - 1 - b
<1>1. d \in Nat /\ b \in Nat /\ B = b + 1 + d
  OBVIOUS
<1>. HIDE DEF d
<1>2. P * B = b * P + P + d * P
  BY <1>1
<1>3. b * P \in Nat /\ d * P \in Nat
  BY <1>1
<1>. QED  BY <1>2, <1>3

LEMMA WrapFacts ==
    /\ \A v \in Int : Wrap(v) \in Words
    /\ \A v \in Words : Wrap(v) = v
    /\ \A v \in Int : v < 0 /\ -Modulus <= v => Wrap(v) = v + Modulus
    /\ \A v \in Int : v < -Modulus /\ -(2 * Modulus) <= v => Wrap(v) = v + 2 * Modulus
    /\ \A v \in Int : Modulus <= v /\ v < 2 * Modulus => Wrap(v) = v - Modulus
<1>1. Modulus \in Nat \ {0} /\ Words = 0 .. Modulus - 1
  BY ModulusFacts
<1>2. \A v \in Int : Wrap(v) = v % Modulus
  BY DEF Wrap
<1>3. \A v \in Int : v % Modulus \in 0 .. Modulus - 1
  BY <1>1
<1>4. ASSUME NEW v \in Int, NEW k \in {-2, -1, 0, 1}, NEW w \in 0 .. Modulus - 1, v = k * Modulus + w
      PROVE  v % Modulus = w
  <2>1. k \in Int
    OBVIOUS
  <2>. QED  BY <1>1, <1>4, <2>1, ModUnique
<1>5. ASSUME NEW v \in Int, NEW w \in 0 .. Modulus - 1,
             v = w - 2 * Modulus \/ v = w - Modulus \/ v = w \/ v = w + Modulus
      PROVE  Wrap(v) = w
  <2>1. \E k \in {-2, -1, 0, 1} : v = k * Modulus + w
    <3>1. \/ v = (-2) * Modulus + w \/ v = (-1) * Modulus + w \/ v = 0 * Modulus + w
          \/ v = 1 * Modulus + w
      BY <1>1, <1>5
    <3>. QED  BY <3>1
  <2>2. v % Modulus = w
    BY <1>4, <2>1
  <2>. QED  BY <1>2, <2>2
<1>6. ASSUME NEW v \in Int, v < 0, -Modulus <= v
      PROVE  Wrap(v) = v + Modulus
  <2>. DEFINE w == v + Modulus
  <2>1. w \in 0 .. Modulus - 1 /\ v = w - Modulus
    BY <1>1, <1>6
  <2>. HIDE DEF w
  <2>2. Wrap(v) = w
    BY <1>5, <2>1
  <2>. QED  BY <2>2 DEF w
<1>7. ASSUME NEW v \in Int, v < -Modulus, -(2 * Modulus) <= v
      PROVE  Wrap(v) = v + 2 * Modulus
  <2>. DEFINE w == v + 2 * Modulus
  <2>1. w \in 0 .. Modulus - 1 /\ v = w - 2 * Modulus
    BY <1>1, <1>7
  <2>. HIDE DEF w
  <2>2. Wrap(v) = w
    BY <1>5, <2>1
  <2>. QED  BY <2>2 DEF w
<1>8. ASSUME NEW v \in Int, Modulus <= v, v < 2 * Modulus
      PROVE  Wrap(v) = v - Modulus
  <2>. DEFINE w == v - Modulus
  <2>1. w \in 0 .. Modulus - 1 /\ v = w + Modulus
    BY <1>1, <1>8
  <2>. HIDE DEF w
  <2>2. Wrap(v) = w
    BY <1>5, <2>1
  <2>. QED  BY <2>2 DEF w
<1>9. \A v \in Words : v \in Int /\ Wrap(v) = v
  BY <1>1, <1>5
<1>. QED  BY <1>1, <1>2, <1>3, <1>6, <1>7, <1>8, <1>9

LEMMA BitsOfWord ==
    ASSUME NEW v \in Words
    PROVE  ValueOf(BitsOf(v, WordBits)) = v
<1>1. v \in Nat /\ v % Modulus = v /\ WordBits \in Nat
  BY ModulusFacts, WrapFacts DEF Wrap
<1>2. v % Pow2[WordBits] = v
  BY <1>1 DEF Modulus
<1>. QED  BY <1>1, <1>2, BitsValue

LEMMA LogicTypes ==
    /\ \A s \in SUBSET (0 .. WordBits - 1) : ValueOf(s) \in Words /\ BitsOf(ValueOf(s), WordBits) = s
    /\ \A a, b : And(a, b) \in Words /\ Or(a, b) \in Words /\ Xor(a, b) \in Words
<1>1. ASSUME NEW s \in SUBSET (0 .. WordBits - 1)
      PROVE  ValueOf(s) \in Words /\ BitsOf(ValueOf(s), WordBits) = s
  BY ModulusFacts, ValueFacts, ValueBits DEF Words, Modulus
<1>2. \A a : BitsOf(a, WordBits) \in SUBSET (0 .. WordBits - 1)
  BY DEF BitsOf
<1>3. ASSUME NEW a, NEW b
      PROVE  And(a, b) \in Words /\ Or(a, b) \in Words
  BY <1>1, <1>2 DEF And, Or
<1>4. \A a, b : Xor(a, b) \in Words
  BY <1>3 DEF Xor
<1>. QED  BY <1>1, <1>3, <1>4

LEMMA FlipFacts ==
    ASSUME NEW v \in Words
    PROVE  Flip(v) \in Words /\ BitsOf(Flip(v), WordBits) = (0 .. WordBits - 1) \ BitsOf(v, WordBits)
<1>. DEFINE all == 0 .. WordBits - 1
            s == BitsOf(v, WordBits)
            t == all \ s
<1>1. s \in SUBSET all /\ t \in SUBSET all /\ s \cap t = {} /\ s \cup t = all /\ WordBits \in Nat
  BY ModulusFacts DEF BitsOf
<1>2. ValueOf(all) = Modulus - 1
  <2>. DEFINE m == Modulus - 1
  <2>1. m \in Words /\ m \in Nat
    BY ModulusFacts
  <2>2. \A k \in all : (m \div Pow2[k]) % 2 = 1
    <3>. SUFFICES ASSUME NEW k \in all
                  PROVE  (m \div Pow2[k]) % 2 = 1
      OBVIOUS
    <3>. DEFINE h == Pow2[WordBits - (k + 1)]
    <3>1. k \in Nat /\ k + 1 \in Nat /\ WordBits - (k + 1) \in Nat /\ k + 1 <= WordBits
      BY <1>1
    <3>2. Modulus = Pow2[k + 1] * h /\ Pow2[k + 1] = 2 * Pow2[k]
      BY <1>1, <3>1, PowMonotone, PowFacts DEF Modulus
    <3>3. h \in Nat \ {0} /\ Pow2[k] \in Nat \ {0}
      BY <3>1, PowFacts
    <3>. HIDE DEF h
    <3>4. \A P \in Nat \ {0} : (2 * P) * h - 1 = (2 * h - 1) * P + (P - 1)
      BY <3>3
    <3>5. m = (2 * h - 1) * Pow2[k] + (Pow2[k] - 1)
      BY <3>2, <3>3, <3>4
    <3>6. m \div Pow2[k] = 2 * h - 1
      <4>1. Pow2[k] - 1 \in 0 .. Pow2[k] - 1 /\ 2 * h - 1 \in Int /\ m \in Int
        BY <2>1, <3>3
      <4>. QED  BY <3>3, <3>5, <4>1, ModUnique
    <3>. QED  BY <3>3, <3>6
  <2>3. BitsOf(m, WordBits) = all
    BY <2>2 DEF BitsOf
  <2>. QED  BY <2>1, <2>3, BitsOfWord
<1>. HIDE DEF all, s, t
<1>3. ValueOf(all) = ValueOf(s) + ValueOf(t) /\ ValueOf(t) \in Words /\ BitsOf(ValueOf(t), WordBits) = t
  BY <1>1, ValueUnion, LogicTypes DEF all
<1>4. ValueOf(s) = v
  BY BitsOfWord DEF s
<1>5. Flip(v) = ValueOf(t)
  BY <1>2, <1>3, <1>4, ModulusFacts DEF Flip
<1>. QED  BY <1>3, <1>5 DEF all, s, t

LEMMA MaskFacts ==
    ASSUME NEW v \in Words
    PROVE  And(v, Modulus - 1) = v /\ And(v, 0) = 0
<1>1. 0 \in Words /\ Flip(0) = Modulus - 1
  BY ModulusFacts DEF Flip
<1>2. BitsOf(0, WordBits) = {}
  <2>1. {} \in SUBSET (0 .. WordBits - 1) /\ WordBits \in Nat
    BY ModulusFacts
  <2>. QED  BY <2>1, ValueFacts, ValueBits
<1>3. BitsOf(Modulus - 1, WordBits) = 0 .. WordBits - 1
  BY <1>1, <1>2, FlipFacts
<1>4. BitsOf(v, WordBits) \cap (0 .. WordBits - 1) = BitsOf(v, WordBits)
  BY DEF BitsOf
<1>5. ValueOf({}) = 0
  BY ModulusFacts, ValueFacts
<1>. QED  BY <1>2, <1>3, <1>4, <1>5, BitsOfWord DEF And

\* The operations the processor makes of and, or and complement, bit by bit.
LEMMA LogicBits ==
    ASSUME NEW a \in Words, NEW b \in Words
    PROVE  LET A == BitsOf(a, WordBits)
               B == BitsOf(b, WordBits)
           IN  /\ And(Flip(a), b) = ValueOf(B \ A)
               /\ Xor(a, b) = ValueOf((A \ B) \cup (B \ A))
<1>. DEFINE A == BitsOf(a, WordBits)
            B == BitsOf(b, WordBits)
            all == 0 .. WordBits - 1
<1>1. A \in SUBSET all /\ B \in SUBSET all
  BY DEF BitsOf
<1>2. BitsOf(Flip(a), WordBits) = all \ A /\ BitsOf(Flip(b), WordBits) = all \ B
  BY FlipFacts
<1>. HIDE DEF A, B, all
<1>3. (all \ A) \cap B = B \ A /\ A \cap (all \ B) = A \ B
  BY <1>1
<1>4. And(Flip(a), b) = ValueOf(B \ A) /\ And(a, Flip(b)) = ValueOf(A \ B)
  BY <1>2, <1>3 DEF And, A, B, all
<1>5. BitsOf(And(Flip(a), b), WordBits) = B \ A /\ BitsOf(And(a, Flip(b)), WordBits) = A \ B
  BY <1>1, <1>4, LogicTypes DEF all
<1>. QED  BY <1>4, <1>5 DEF Xor, Or, A, B

LEMMA DivPowFacts ==
    ASSUME NEW v \in Words, NEW n \in Nat
    PROVE  /\ RightBy(v, n) \in Words /\ LeftBy(v, n) \in Words /\ SignedRightBy(v, n) \in Words
           /\ Signed(v) \in Int
<1>1. v \in Nat /\ v < Modulus /\ Modulus \in Nat /\ Modulus \div 2 \in Nat /\ Pow2[n] \in Nat \ {0}
  <2>1. v \in Nat /\ v < Modulus /\ Modulus \in Nat /\ Modulus \div 2 \in Nat
    BY ModulusFacts
  <2>. QED  BY <2>1, PowFacts
<1>2. v \div Pow2[n] \in 0 .. v
  <2>. DEFINE q == v \div Pow2[n]
              r == v % Pow2[n]
  <2>1. q \in Nat /\ r \in Nat /\ v = q * Pow2[n] + r
    BY <1>1, DivMod
  <2>. HIDE DEF q, r
  <2>2. q <= q * Pow2[n]
    <3>1. Pow2[n] - 1 \in Nat /\ q * Pow2[n] = q + q * (Pow2[n] - 1)
      BY <1>1, <2>1
    <3>2. q * (Pow2[n] - 1) \in Nat
      BY <2>1, <3>1
    <3>. QED  BY <2>1, <3>1, <3>2
  <2>3. q * Pow2[n] \in Nat
    BY <1>1, <2>1
  <2>4. q \in 0 .. v
    BY <1>1, <2>1, <2>2, <2>3
  <2>. QED  BY <2>4 DEF q
<1>3. RightBy(v, n) \in Words
  BY <1>1, <1>2, ModulusFacts DEF RightBy
<1>4. Signed(v) \in Int
  BY <1>1 DEF Signed
<1>5. v * Pow2[n] \in Int /\ Signed(v) \div Pow2[n] \in Int
  BY <1>1, <1>4
<1>. QED  BY <1>3, <1>4, <1>5, WrapFacts DEF LeftBy, SignedRightBy

LEMMA RotateFacts ==
    ASSUME NEW v \in Words, NEW n \in Nat, n <= WordBits
    PROVE  /\ Or(RightBy(v, n), LeftBy(v, WordBits - n))
                = (v \div Pow2[n]) + (v % Pow2[n]) * Pow2[WordBits - n]
           /\ (v \div Pow2[n]) + (v % Pow2[n]) * Pow2[WordBits - n] \in Words
<1>. DEFINE m == WordBits - n
            P == Pow2[n]
            Q == Pow2[m]
            R == v \div P
            r == v % P
            A == BitsOf(R, WordBits)
            B == BitsOf(r * Q, WordBits)
<1>1. m \in Nat /\ WordBits \in Nat /\ m <= WordBits
  BY ModulusFacts
<1>2. P \in Nat \ {0} /\ Q \in Nat \ {0} /\ Modulus = P * Q
  BY <1>1, PowMonotone, PowFacts DEF Modulus
<1>3. v \in Nat /\ v < Modulus
  BY ModulusFacts
<1>. HIDE DEF P, Q
<1>4. R \in Nat /\ r \in Nat /\ r < P /\ v = R * P + r
  BY <1>2, <1>3, DivMod
<1>. HIDE DEF R, r
<1>5. R < Q
  <2>. SUFFICES ASSUME R >= Q
                PROVE  FALSE
    BY <1>2, <1>4
  <2>1. R - Q \in Nat /\ R * P = P * Q + (R - Q) * P
    BY <1>2, <1>4
  <2>2. (R - Q) * P \in Nat /\ R * P \in Nat
    BY <1>2, <1>4, <2>1
  <2>3. P * Q \in Nat
    BY <1>2
  <2>. QED  BY <1>2, <1>3, <1>4, <2>1, <2>2, <2>3
<1>6. r * Q \in 0 .. Modulus - 1
  <2>1. r \in 0 .. P - 1 /\ 0 \in 0 .. Q - 1 /\ r * Q \in Int
    BY <1>2, <1>4
  <2>2. r * Q + 0 \in 0 .. Q * P - 1
    BY <1>2, <2>1, DigitBound
  <2>3. Q * P = P * Q
    BY <1>2
  <2>. QED  BY <1>2, <2>1, <2>2, <2>3
<1>7. LeftBy(v, m) = r * Q
  <2>1. v * Q = R * Modulus + r * Q
    <3>1. v * Q = R * (P * Q) + r * Q
      BY <1>2, <1>4
    <3>. QED  BY <1>2, <3>1
  <2>2. v * Q \in Int /\ R \in Int
    BY <1>2, <1>3, <1>4
  <2>3. Modulus \in Nat \ {0}
    BY ModulusFacts
  <2>4. (v * Q) % Modulus = r * Q
    BY <1>6, <2>1, <2>2, <2>3, ModUnique
  <2>. QED  BY <2>4 DEF LeftBy, Wrap, Q
<1>8. RightBy(v, n) = R
  BY DEF RightBy, R, P
<1>9. A \in SUBSET (0 .. m - 1)
  <2>. SUFFICES ASSUME NEW i \in 0 .. WordBits - 1, m <= i
                PROVE  (R \div Pow2[i]) % 2 # 1
    BY <1>1 DEF BitsOf
  <2>1. i \in Nat /\ Q <= Pow2[i] /\ Pow2[i] \in Nat \ {0}
    <3>1. i \in Nat
      BY <1>1
    <3>2. Q <= Pow2[i]
      BY <1>1, <3>1, PowMonotone DEF Q
    <3>. QED  BY <3>1, <3>2, PowFacts
  <2>2. R = 0 * Pow2[i] + R /\ R \in 0 .. Pow2[i] - 1
    BY <1>2, <1>4, <1>5, <2>1
  <2>3. R \div Pow2[i] = 0
    BY <1>4, <2>1, <2>2, ModUnique
  <2>. QED  BY <2>3
<1>10. B \cap (0 .. m - 1) = {}
  <2>. SUFFICES ASSUME NEW i \in 0 .. m - 1
                PROVE  ((r * Q) \div Pow2[i]) % 2 # 1
    BY <1>1 DEF BitsOf
  <2>. DEFINE t == Pow2[m - (i + 1)]
  <2>1. i \in Nat /\ i + 1 \in Nat /\ i + 1 <= m /\ m - (i + 1) \in Nat
    BY <1>1
  <2>2. Q = Pow2[i + 1] * t /\ Pow2[i + 1] = 2 * Pow2[i]
    BY <1>1, <2>1, PowMonotone, PowFacts DEF Q
  <2>3. t \in Nat /\ Pow2[i] \in Nat \ {0}
    BY <2>1, PowFacts
  <2>. HIDE DEF t
  <2>4. r * Q = (2 * (r * t)) * Pow2[i] + 0
    <3>1. \A p \in Nat : r * ((2 * p) * t) = (2 * (r * t)) * p
      BY <1>4, <2>3
    <3>2. r * Q \in Int
      BY <1>2, <1>4
    <3>3. r * Q = (2 * (r * t)) * Pow2[i]
      BY <2>2, <2>3, <3>1
    <3>. QED  BY <3>2, <3>3
  <2>5. r * t \in Nat /\ 2 * (r * t) \in Int /\ 0 \in 0 .. Pow2[i] - 1 /\ r * Q \in Int
    BY <1>2, <1>4, <2>3
  <2>6. (r * Q) \div Pow2[i] = 2 * (r * t)
    BY <2>3, <2>4, <2>5, ModUnique
  <2>. QED  BY <2>5, <2>6
<1>11. A \in SUBSET (0 .. WordBits - 1) /\ B \in SUBSET (0 .. WordBits - 1) /\ A \cap B = {}
  <2>1. A \in SUBSET (0 .. WordBits - 1) /\ B \in SUBSET (0 .. WordBits - 1)
    BY DEF BitsOf
  <2>. HIDE DEF A, B
  <2>. QED  BY <1>9, <1>10, <2>1
<1>12. R \in Words /\ r * Q \in Words
  <2>1. R <= v
    <3>1. P - 1 \in Nat /\ R * P = R + R * (P - 1)
      BY <1>2, <1>4
    <3>2. R * (P - 1) \in Nat
      BY <1>4, <3>1
    <3>. QED  BY <1>4, <3>1, <3>2
  <2>. QED  BY <1>3, <1>4, <1>6, <2>1, ModulusFacts
<1>13. ValueOf(A) = R /\ ValueOf(B) = r * Q
  BY <1>12, BitsOfWord
<1>14. ValueOf(A \cup B) = R + r * Q
  BY <1>1, <1>11, <1>13, ValueUnion
<1>15. Or(RightBy(v, n), LeftBy(v, m)) = ValueOf(A \cup B)
  BY <1>7, <1>8 DEF Or
<1>16. ValueOf(A \cup B) \in Words
  <2>1. A \cup B \in SUBSET (0 .. WordBits - 1)
    BY <1>11
  <2>. QED  BY <2>1, LogicTypes
<1>. QED  BY <1>14, <1>15, <1>16 DEF R, r, Q, P

\* Bytes joined make a number of as many bytes.
LEMMA JoinedBytes ==
    ASSUME NEW n \in Nat, NEW byte \in [0 .. n - 1 -> Bytes]
    PROVE  Total([k \in 0 .. n - 1 |-> byte[k] * Pow2[k * ByteBits]], 0 .. n - 1)
             \in 0 .. Pow2[n * ByteBits] - 1
<1>. DEFINE f == [k \in 0 .. n - 1 |-> byte[k] * Pow2[k * ByteBits]]
            T == {k \in 0 .. n : Total(f, 0 .. k - 1) \in 0 .. Pow2[k * ByteBits] - 1}
<1>1. ByteBits \in Nat
  BY ModulusFacts
<1>2. \A k \in Nat : k * ByteBits \in Nat /\ Pow2[k * ByteBits] \in Nat \ {0}
  BY <1>1, PowFacts
<1>3. ASSUME NEW k \in 0 .. n - 1
      PROVE  f[k] = byte[k] * Pow2[k * ByteBits] /\ byte[k] \in 0 .. Pow2[ByteBits] - 1 /\ f[k] \in Int
  <2>1. f[k] = byte[k] * Pow2[k * ByteBits] /\ byte[k] \in Bytes /\ k \in Nat
    OBVIOUS
  <2>2. Pow2[ByteBits] \in Nat
    BY <1>1, PowFacts
  <2>3. byte[k] \in 0 .. Pow2[ByteBits] - 1 /\ byte[k] \in Int
    BY <2>1, <2>2 DEF Bytes
  <2>. HIDE DEF f
  <2>. QED  BY <1>2, <2>1, <2>3
<1>. HIDE DEF f
<1>4. ASSUME NEW k \in 0 .. n
      PROVE  /\ IsFiniteSet(0 .. k - 1) /\ \A j \in 0 .. k - 1 : f[j] \in Int
             /\ Total(f, 0 .. k - 1) \in Int
             /\ k = 0 => Total(f, 0 .. k - 1) = 0
             /\ \A x \in 0 .. k - 1 : Total(f, 0 .. k - 1) = f[x] + Total(f, (0 .. k - 1) \ {x})
  <2>1. IsFiniteSet(0 .. k - 1)
    BY FS_Interval
  <2>2. \A j \in 0 .. k - 1 : f[j] \in Int
    BY <1>3
  <2>3. k = 0 => 0 .. k - 1 = {}
    OBVIOUS
  <2>. QED  BY <2>1, <2>2, <2>3, TotalFacts
<1>5. 0 \in T
  <2>1. 0 \in 0 .. n /\ 0 * ByteBits = 0
    BY <1>1
  <2>2. Total(f, 0 .. 0 - 1) = 0
    BY <1>4, <2>1
  <2>. QED  BY <2>1, <2>2, PowFacts
<1>6. ASSUME NEW k \in 0 .. n - 1, k \in T
      PROVE  k + 1 \in T
  <2>. DEFINE P == Pow2[k * ByteBits]
              B == Pow2[ByteBits]
  <2>1. /\ k \in Nat /\ k + 1 \in 0 .. n /\ k \in 0 .. (k + 1) - 1
        /\ (0 .. (k + 1) - 1) \ {k} = 0 .. k - 1
    OBVIOUS
  <2>2. Total(f, 0 .. (k + 1) - 1) = f[k] + Total(f, 0 .. k - 1)
    BY <1>4, <2>1
  <2>3. Total(f, 0 .. k - 1) \in 0 .. P - 1
    BY <1>6
  <2>4. Pow2[(k + 1) * ByteBits] = P * B /\ P \in Nat \ {0} /\ B \in Nat \ {0}
    <3>. DEFINE a == k * ByteBits
    <3>1. (k + 1) * ByteBits = a + ByteBits /\ a \in Nat
      BY <1>1
    <3>. HIDE DEF a
    <3>2. Pow2[a + ByteBits] = Pow2[a] * Pow2[ByteBits]
      BY <1>1, <3>1, PowAdd
    <3>. QED  BY <1>1, <3>1, <3>2, PowFacts DEF a
  <2>5. f[k] = byte[k] * P /\ byte[k] \in 0 .. B - 1
    BY <1>3
  <2>. HIDE DEF P, B
  <2>8. byte[k] * P + Total(f, 0 .. k - 1) \in 0 .. P * B - 1
    BY <2>3, <2>4, <2>5, DigitBound
  <2>. QED  BY <2>1, <2>2, <2>4, <2>5, <2>8
<1>. HIDE DEF T
<1>7. \A k \in 0 .. n : k \in T
  BY <1>5, <1>6, NatInduct
<1>8. n \in 0 .. n
  OBVIOUS
<1>. QED  BY <1>7, <1>8 DEF T, f

LEMMA ByteFacts ==
    /\ 0 \in Bytes
    /\ \A v \in Int, i \in Nat : ByteAt(v, i) \in Bytes
<1>1. ByteBits \in Nat /\ Pow2[ByteBits] \in Nat \ {0}
  BY ModulusFacts, PowFacts
<1>2. ASSUME NEW v \in Int, NEW i \in Nat
      PROVE  ByteAt(v, i) \in Bytes
  <2>1. i * ByteBits \in Nat /\ Pow2[i * ByteBits] \in Nat \ {0}
    BY <1>1, PowFacts
  <2>2. v \div Pow2[i * ByteBits] \in Int
    BY <2>1
  <2>. QED  BY <1>1, <2>2 DEF ByteAt, Bytes
<1>3. 0 \in Bytes
  BY <1>1 DEF Bytes
<1>. QED  BY <1>2, <1>3

\* The powers of the widths of the small fields, and the remainder of a small number.
LEMMA SmallPowers == Pow2[1] = 2 /\ Pow2[2] = 4 /\ Pow2[3] = 8 /\ Pow2[4] = 16 /\ Pow2[5] = 32
<1>. DEFINE q(k) == Pow2[k]
<1>1. \A n \in Nat : Pow2[n + 1] = 2 * Pow2[n]
  BY PowFacts
<1>2. Pow2[0 + 1] = 2 * Pow2[0] /\ Pow2[1 + 1] = 2 * Pow2[1] /\ Pow2[2 + 1] = 2 * Pow2[2]
      /\ Pow2[3 + 1] = 2 * Pow2[3] /\ Pow2[4 + 1] = 2 * Pow2[4]
  BY <1>1
<1>3. Pow2[0] = 1
  BY PowFacts
<1>. QED  BY <1>2, <1>3

LEMMA SmallMod ==
    ASSUME NEW P \in Nat \ {0}, NEW u \in 0 .. P - 1
    PROVE  u % P = u /\ u \div P = 0
<1>1. u = 0 * P + u /\ u \in Int /\ 0 \in Int
  OBVIOUS
<1>. QED  BY <1>1, ModUnique
=============================================================================
