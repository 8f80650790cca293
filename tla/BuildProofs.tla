---------------------------- MODULE BuildProofs ----------------------------
(***************************************************************************)
(* What is proved about a build, for every set of programs: its tables fit *)
(* together, the two counts of scopes agree, and an object file that is    *)
(* read is the object that was written.                                    *)
(***************************************************************************)
EXTENDS Build, WordLemmas

-----------------------------------------------------------------------------
(* Sequences of whatever they hold. *)

IsSequence(s) == \E S : s \in Seq(S)

LEMMA SequenceFacts ==
    ASSUME NEW s, IsSequence(s)
    PROVE  /\ s \in Seq(ToSet(s)) /\ Len(s) \in Nat /\ DOMAIN s = 1 .. Len(s)
           /\ s \in [1 .. Len(s) -> ToSet(s)]
<1>1. PICK S : s \in Seq(S)
  BY DEF IsSequence
<1>2. Len(s) \in Nat /\ DOMAIN s = 1 .. Len(s) /\ s \in [1 .. Len(s) -> S]
  BY <1>1, LenProperties
<1>3. s \in [1 .. Len(s) -> ToSet(s)]
  BY <1>2 DEF ToSet
<1>4. s \in Seq(ToSet(s))
  BY <1>2, <1>3, SeqDef
<1>. QED  BY <1>2, <1>3, <1>4

\* A function from the numbers up to n is a sequence of length n.
LEMMA SequenceOf ==
    ASSUME NEW s, NEW n \in Nat, NEW S, s \in [1 .. n -> S]
    PROVE  s \in Seq(S) /\ IsSequence(s) /\ Len(s) = n
<1>1. s \in Seq(S)
  BY SeqDef
<1>2. Len(s) \in Nat /\ DOMAIN s = 1 .. Len(s)
  BY <1>1, LenProperties
<1>3. Len(s) = n
  <2>. DEFINE m == Len(s)
  <2>1. m \in Nat /\ 1 .. m = 1 .. n
    BY <1>2
  <2>. HIDE DEF m
  <2>2. m = n
    BY <2>1
  <2>. QED  BY <2>2 DEF m
<1>. QED  BY <1>1, <1>3 DEF IsSequence

\* Two sequences of the same length and elements are one.
LEMMA SequencesEqual ==
    ASSUME NEW s, NEW t, IsSequence(s), IsSequence(t), Len(s) = Len(t),
           \A k \in 1 .. Len(s) : s[k] = t[k]
    PROVE  s = t
<1>. DEFINE S == ToSet(s) \cup ToSet(t)
<1>1. s \in Seq(S) /\ t \in Seq(S)
  <2>1. s \in Seq(ToSet(s)) /\ t \in Seq(ToSet(t))
    BY SequenceFacts
  <2>. HIDE DEF S
  <2>2. ToSet(s) \subseteq S /\ ToSet(t) \subseteq S
    BY DEF S
  <2>. QED  BY <2>1, <2>2, SeqMonotonic
<1>. HIDE DEF S
<1>. QED  BY <1>1, SeqEqual

LEMMA EmptySequence == IsSequence(<<>>) /\ Len(<<>>) = 0
<1>1. <<>> \in Seq({}) /\ Len(<<>>) = 0
  BY EmptySeq
<1>. QED  BY <1>1 DEF IsSequence

\* A sequence with one element more.
LEMMA AppendedSequence ==
    ASSUME NEW s, IsSequence(s), NEW x
    PROVE  /\ IsSequence(Append(s, x)) /\ Len(Append(s, x)) = Len(s) + 1
           /\ \A k \in 1 .. Len(s) : Append(s, x)[k] = s[k]
           /\ Append(s, x)[Len(s) + 1] = x
           /\ \A y \in ToSet(Append(s, x)) : y = x \/ y \in ToSet(s)
<1>. DEFINE S == ToSet(s) \cup {x}
            a == Append(s, x)
<1>1. s \in Seq(ToSet(s)) /\ Len(s) \in Nat /\ DOMAIN s = 1 .. Len(s)
  BY SequenceFacts
<1>2. s \in Seq(S) /\ x \in S
  BY <1>1, SeqMonotonic
<1>. HIDE DEF S
<1>3. /\ a \in Seq(S) /\ Len(a) = Len(s) + 1
      /\ \A k \in 1 .. Len(s) : a[k] = s[k]
      /\ a[Len(s) + 1] = x
  BY <1>2, AppendProperties
<1>4. DOMAIN a = 1 .. Len(s) + 1
  BY <1>3, LenProperties
<1>. HIDE DEF a
<1>5. ASSUME NEW y \in ToSet(a) PROVE y = x \/ y \in ToSet(s)
  <2>1. PICK k \in 1 .. Len(s) + 1 : y = a[k]
    BY <1>4 DEF ToSet
  <2>2. CASE k = Len(s) + 1
    BY <1>3, <2>1, <2>2
  <2>3. CASE k # Len(s) + 1
    <3>1. k \in 1 .. Len(s)
      BY <1>1, <2>3
    <3>. QED  BY <1>1, <1>3, <2>1, <3>1 DEF ToSet
  <2>. QED  BY <2>2, <2>3
<1>. QED  BY <1>3, <1>5 DEF IsSequence, a

\* One sequence after another.
LEMMA JoinedSequence ==
    ASSUME NEW s, NEW t, IsSequence(s), IsSequence(t)
    PROVE  /\ IsSequence(s \o t) /\ Len(s \o t) = Len(s) + Len(t)
           /\ \A k \in 1 .. Len(s) + Len(t) :
                 (s \o t)[k] = IF k <= Len(s) THEN s[k] ELSE t[k - Len(s)]
<1>. DEFINE S == ToSet(s) \cup ToSet(t)
<1>1. s \in Seq(S) /\ t \in Seq(S)
  <2>1. s \in Seq(ToSet(s)) /\ t \in Seq(ToSet(t))
    BY SequenceFacts
  <2>2. ToSet(s) \subseteq S /\ ToSet(t) \subseteq S
    OBVIOUS
  <2>. HIDE DEF S
  <2>. QED  BY <2>1, <2>2, SeqMonotonic
<1>. HIDE DEF S
<1>2. /\ s \o t \in Seq(S) /\ Len(s \o t) = Len(s) + Len(t)
      /\ \A k \in 1 .. Len(s) + Len(t) :
                 (s \o t)[k] = IF k <= Len(s) THEN s[k] ELSE t[k - Len(s)]
  BY <1>1, ConcatProperties
<1>. QED  BY <1>2 DEF IsSequence

\* A part of a sequence, within its bounds.
LEMMA PartOfSequence ==
    ASSUME NEW s, IsSequence(s), NEW m \in Nat \ {0}, NEW n \in Nat, n <= Len(s), m <= n + 1
    PROVE  /\ IsSequence(SubSeq(s, m, n)) /\ Len(SubSeq(s, m, n)) = n - m + 1
           /\ \A k \in 1 .. n - m + 1 : SubSeq(s, m, n)[k] = s[m + k - 1]
<1>1. s \in Seq(ToSet(s)) /\ Len(s) \in Nat /\ DOMAIN s = 1 .. Len(s)
  BY SequenceFacts
<1>2. \A i \in m .. n : s[i] \in ToSet(s)
  BY <1>1 DEF ToSet
<1>3. /\ SubSeq(s, m, n) \in Seq(ToSet(s))
      /\ Len(SubSeq(s, m, n)) = IF m <= n THEN n - m + 1 ELSE 0
      /\ \A i \in 1 .. n - m + 1 : SubSeq(s, m, n)[i] = s[m + i - 1]
  BY <1>2, SubSeqProperties
<1>4. Len(SubSeq(s, m, n)) = n - m + 1
  BY <1>3
<1>. QED  BY <1>3, <1>4 DEF IsSequence

-----------------------------------------------------------------------------
(* The folds of the assembler.  Each runs through a sequence from its first *)
(* element to its last.                                                     *)

\* The greatest number up to n is n.
LEMMA MaxTop ==
    ASSUME NEW n \in Nat, NEW s \in SUBSET (1 .. n), n \in s
    PROVE  Max(s) = n /\ s # {}
<1>1. s \in SUBSET (0 .. n) /\ s # {}
  BY n \in Nat
<1>2. Max(s) \in s /\ \A y \in s : y <= Max(s)
  BY <1>1, MaxNat
<1>3. Max(s) \in 1 .. n /\ n <= Max(s)
  BY <1>2
<1>. QED  BY <1>1, <1>3

\* Splitting a list.
SplitStep(parts, t, sep) ==
    IF t = sep THEN Append(parts, <<>>) ELSE [parts EXCEPT ![Len(parts)] = Append(@, t)]

SplitFold(ts, sep) ==
    FoldLeft(LAMBDA parts, t : SplitStep(parts, t, sep), <<<<>>>>, ts)

SplitTable(g, sep, ts) ==
    g = [s \in SUBSET DOMAIN ts |-> IF s = {} THEN <<<<>>>>
                                    ELSE SplitStep(g[s \ {Max(s)}], ts[Max(s)], sep)]

\* Splitting at separators: the fold has a value after each token, made from the one before.
LEMMA SplitTableExists ==
    ASSUME NEW ts, IsSequence(ts), NEW sep
    PROVE  \E g : SplitTable(g, sep, ts)
<1>. DEFINE n == Len(ts)
            Val(g, s) == IF s = {} THEN <<<<>>>> ELSE SplitStep(g[s \ {Max(s)}], ts[Max(s)], sep)
            Good(g, m) == g = [s \in SUBSET (1 .. m) |-> Val(g, s)]
            T == {m \in 0 .. n : \E g : Good(g, m)}
<1>1. n \in Nat /\ DOMAIN ts = 1 .. n
  BY SequenceFacts
<1>2. 0 \in T
  <2>. DEFINE g == [s \in SUBSET (1 .. 0) |-> <<<<>>>>]
  <2>1. \A s \in SUBSET (1 .. 0) : s = {}
    OBVIOUS
  <2>2. Good(g, 0)
    BY <2>1, Zenon
  <2>3. \E f : Good(f, 0)
    BY <2>2, Zenon
  <2>. HIDE DEF Good
  <2>. QED  BY <1>1, <2>3
<1>3. ASSUME NEW m \in 0 .. n - 1, m \in T PROVE m + 1 \in T
  <2>1. PICK g : Good(g, m)
    BY <1>3
  <2>. DEFINE h == [s \in SUBSET (1 .. m + 1) |->
                      IF m + 1 \in s THEN SplitStep(g[s \ {m + 1}], ts[m + 1], sep) ELSE g[s]]
  <2>0. m \in Nat /\ m + 1 \in 0 .. n /\ m + 1 \notin 1 .. m /\ 1 .. m \subseteq 1 .. m + 1
        /\ (1 .. m + 1) \ {m + 1} = 1 .. m
    BY <1>1
  <2>2. ASSUME NEW s \in SUBSET (1 .. m) PROVE h[s] = g[s]
    <3>1. s \in SUBSET (1 .. m + 1) /\ m + 1 \notin s
      BY <2>0
    <3>. QED  BY <3>1, Zenon
  <2>3. ASSUME NEW s \in SUBSET (1 .. m + 1) PROVE h[s] = Val(h, s)
    <3>1. CASE m + 1 \in s
      <4>1. Max(s) = m + 1 /\ s # {}
        BY <2>0, <3>1, MaxTop
      <4>2. s \ {m + 1} \in SUBSET (1 .. m)
        BY <2>0
      <4>3. h[s] = SplitStep(g[s \ {m + 1}], ts[m + 1], sep)
        BY <3>1, Zenon
      <4>4. h[s \ {m + 1}] = g[s \ {m + 1}]
        BY <2>2, <4>2, Zenon
      <4>. HIDE DEF h
      <4>. QED  BY <4>1, <4>3, <4>4, Zenon
    <3>2. CASE m + 1 \notin s
      <4>1. s \in SUBSET (1 .. m)
        BY <2>0, <3>2
      <4>2. h[s] = g[s]
        BY <2>2, <4>1
      <4>3. g[s] = Val(g, s)
        BY <2>1, <4>1, Zenon
      <4>4. s \ {Max(s)} \in SUBSET (1 .. m)
        BY <4>1
      <4>5. h[s \ {Max(s)}] = g[s \ {Max(s)}]
        BY <2>2, <4>4, Zenon
      <4>. HIDE DEF h
      <4>. QED  BY <4>2, <4>3, <4>5, Zenon
    <3>. QED  BY <3>1, <3>2
  <2>4. h = [s \in SUBSET (1 .. m + 1) |-> h[s]]
    BY Zenon
  <2>. HIDE DEF h
  <2>5. Good(h, m + 1)
    BY <2>3, <2>4, Zenon
  <2>. QED  BY <2>0, <2>5
<1>. HIDE DEF T
<1>4. n \in T
  <2>1. n \in 0 .. n
    BY <1>1
  <2>2. \A k \in 0 .. n : k \in T
    <3>. HIDE DEF n
    <3>. QED  BY <1>1, <1>2, <1>3, NatInduct
  <2>. QED  BY <2>1, <2>2
<1>5. \E f : Good(f, n)
  <2>. HIDE DEF Good
  <2>. QED  BY <1>4, Zenon DEF T
<1>. QED  BY <1>1, <1>5, Zenon DEF SplitTable

\* A split as a run: one state after each token.
LEMMA SplitRun ==
    ASSUME NEW ts, IsSequence(ts), NEW sep
    PROVE  \E h : /\ h[0] = <<<<>>>>
                  /\ \A k \in 0 .. Len(ts) - 1 : h[k + 1] = SplitStep(h[k], ts[k + 1], sep)
                  /\ SplitFold(ts, sep) = h[Len(ts)]
<1>. DEFINE n == Len(ts)
            g == CHOOSE f : SplitTable(f, sep, ts)
            h == [k \in 0 .. n |-> g[1 .. k]]
<1>1. SplitFold(ts, sep) = g[DOMAIN ts]
  BY Zenon DEF SplitFold, FoldLeft, MapThenFoldSet, SplitTable, SplitStep
<1>2. n \in Nat /\ DOMAIN ts = 1 .. n
  BY SequenceFacts
<1>3. SplitTable(g, sep, ts)
  BY SplitTableExists, Zenon
<1>. HIDE DEF g
<1>4. h[0] = <<<<>>>>
  <2>1. 1 .. 0 = {} /\ {} \in SUBSET (1 .. n) /\ 0 \in 0 .. n
    BY <1>2
  <2>2. h[0] = g[1 .. 0]
    BY <2>1, Zenon
  <2>. QED  BY <1>2, <1>3, <2>1, <2>2, Zenon DEF SplitTable
<1>5. ASSUME NEW k \in 0 .. n - 1 PROVE h[k + 1] = SplitStep(h[k], ts[k + 1], sep)
  <2>1. /\ k \in Nat /\ k + 1 \in Nat /\ k + 1 \in 1 .. k + 1 /\ 1 .. k + 1 \subseteq 1 .. n
        /\ (1 .. k + 1) \ {k + 1} = 1 .. k /\ k \in 0 .. n /\ k + 1 \in 0 .. n
    BY <1>2
  <2>2. Max(1 .. k + 1) = k + 1 /\ 1 .. k + 1 # {}
    BY <2>1, MaxTop
  <2>3. g[1 .. k + 1] = SplitStep(g[(1 .. k + 1) \ {k + 1}], ts[k + 1], sep)
    BY <1>2, <1>3, <2>1, <2>2, Zenon DEF SplitTable
  <2>4. h[k + 1] = g[1 .. k + 1] /\ h[k] = g[1 .. k]
    BY <2>1, Zenon
  <2>. QED  BY <2>1, <2>3, <2>4, Zenon
<1>6. SplitFold(ts, sep) = h[Len(ts)]
  <2>1. n \in 0 .. n
    BY <1>2
  <2>2. h[n] = g[1 .. n]
    BY <2>1, Zenon
  <2>. QED  BY <1>1, <1>2, <2>2
<1>. QED  BY <1>4, <1>5, <1>6

\* The scopes open after some tokens.
ScopeStep(acc, t) ==
    CASE t = ".scope" -> [open |-> Append(acc.open, acc.n), n |-> acc.n + 1]
      [] t = ".scend" -> [acc EXCEPT !.open = Front(@)]
      [] OTHER -> acc

ScopeFold(ts) == FoldLeft(ScopeStep, [open |-> <<>>, n |-> 0], ts)

ScopeTable(g, ts) ==
    g = [s \in SUBSET DOMAIN ts |-> IF s = {} THEN [open |-> <<>>, n |-> 0]
                                    ELSE ScopeStep(g[s \ {Max(s)}], ts[Max(s)])]

\* The scopes open in front of each token.
LEMMA ScopeTableExists ==
    ASSUME NEW ts, IsSequence(ts)
    PROVE  \E g : ScopeTable(g, ts)
<1>. DEFINE n == Len(ts)
            Val(g, s) == IF s = {} THEN [open |-> <<>>, n |-> 0] ELSE ScopeStep(g[s \ {Max(s)}], ts[Max(s)])
            Good(g, m) == g = [s \in SUBSET (1 .. m) |-> Val(g, s)]
            T == {m \in 0 .. n : \E g : Good(g, m)}
<1>1. n \in Nat /\ DOMAIN ts = 1 .. n
  BY SequenceFacts
<1>2. 0 \in T
  <2>. DEFINE g == [s \in SUBSET (1 .. 0) |-> [open |-> <<>>, n |-> 0]]
  <2>1. \A s \in SUBSET (1 .. 0) : s = {}
    OBVIOUS
  <2>2. Good(g, 0)
    BY <2>1, Zenon
  <2>3. \E f : Good(f, 0)
    BY <2>2, Zenon
  <2>. HIDE DEF Good
  <2>. QED  BY <1>1, <2>3
<1>3. ASSUME NEW m \in 0 .. n - 1, m \in T PROVE m + 1 \in T
  <2>1. PICK g : Good(g, m)
    BY <1>3
  <2>. DEFINE h == [s \in SUBSET (1 .. m + 1) |->
                      IF m + 1 \in s THEN ScopeStep(g[s \ {m + 1}], ts[m + 1]) ELSE g[s]]
  <2>0. m \in Nat /\ m + 1 \in 0 .. n /\ m + 1 \notin 1 .. m /\ 1 .. m \subseteq 1 .. m + 1
        /\ (1 .. m + 1) \ {m + 1} = 1 .. m
    BY <1>1
  <2>2. ASSUME NEW s \in SUBSET (1 .. m) PROVE h[s] = g[s]
    <3>1. s \in SUBSET (1 .. m + 1) /\ m + 1 \notin s
      BY <2>0
    <3>. QED  BY <3>1, Zenon
  <2>3. ASSUME NEW s \in SUBSET (1 .. m + 1) PROVE h[s] = Val(h, s)
    <3>1. CASE m + 1 \in s
      <4>1. Max(s) = m + 1 /\ s # {}
        BY <2>0, <3>1, MaxTop
      <4>2. s \ {m + 1} \in SUBSET (1 .. m)
        BY <2>0
      <4>3. h[s] = ScopeStep(g[s \ {m + 1}], ts[m + 1])
        BY <3>1, Zenon
      <4>4. h[s \ {m + 1}] = g[s \ {m + 1}]
        BY <2>2, <4>2, Zenon
      <4>. HIDE DEF h
      <4>. QED  BY <4>1, <4>3, <4>4, Zenon
    <3>2. CASE m + 1 \notin s
      <4>1. s \in SUBSET (1 .. m)
        BY <2>0, <3>2
      <4>2. h[s] = g[s]
        BY <2>2, <4>1
      <4>3. g[s] = Val(g, s)
        BY <2>1, <4>1, Zenon
      <4>4. s \ {Max(s)} \in SUBSET (1 .. m)
        BY <4>1
      <4>5. h[s \ {Max(s)}] = g[s \ {Max(s)}]
        BY <2>2, <4>4, Zenon
      <4>. HIDE DEF h
      <4>. QED  BY <4>2, <4>3, <4>5, Zenon
    <3>. QED  BY <3>1, <3>2
  <2>4. h = [s \in SUBSET (1 .. m + 1) |-> h[s]]
    BY Zenon
  <2>. HIDE DEF h
  <2>5. Good(h, m + 1)
    BY <2>3, <2>4, Zenon
  <2>. QED  BY <2>0, <2>5
<1>. HIDE DEF T
<1>4. n \in T
  <2>1. n \in 0 .. n
    BY <1>1
  <2>2. \A k \in 0 .. n : k \in T
    <3>. HIDE DEF n
    <3>. QED  BY <1>1, <1>2, <1>3, NatInduct
  <2>. QED  BY <2>1, <2>2
<1>5. \E f : Good(f, n)
  <2>. HIDE DEF Good
  <2>. QED  BY <1>4, Zenon DEF T
<1>. QED  BY <1>1, <1>5, Zenon DEF ScopeTable

\* The open scopes as a run: those behind a token follow from those in front of it.
LEMMA ScopeRun ==
    ASSUME NEW ts, IsSequence(ts)
    PROVE  \E h : /\ h[0] = [open |-> <<>>, n |-> 0]
                  /\ \A k \in 0 .. Len(ts) - 1 : h[k + 1] = ScopeStep(h[k], ts[k + 1])
                  /\ ScopeFold(ts) = h[Len(ts)]
<1>. DEFINE n == Len(ts)
            g == CHOOSE f : ScopeTable(f, ts)
            h == [k \in 0 .. n |-> g[1 .. k]]
<1>1. ScopeFold(ts) = g[DOMAIN ts]
  BY Zenon DEF ScopeFold, FoldLeft, MapThenFoldSet, ScopeTable, ScopeStep
<1>2. n \in Nat /\ DOMAIN ts = 1 .. n
  BY SequenceFacts
<1>3. ScopeTable(g, ts)
  BY ScopeTableExists, Zenon
<1>. HIDE DEF g
<1>4. h[0] = [open |-> <<>>, n |-> 0]
  <2>1. 1 .. 0 = {} /\ {} \in SUBSET (1 .. n) /\ 0 \in 0 .. n
    BY <1>2
  <2>2. h[0] = g[1 .. 0]
    BY <2>1, Zenon
  <2>. QED  BY <1>2, <1>3, <2>1, <2>2, Zenon DEF ScopeTable
<1>5. ASSUME NEW k \in 0 .. n - 1 PROVE h[k + 1] = ScopeStep(h[k], ts[k + 1])
  <2>1. /\ k \in Nat /\ k + 1 \in Nat /\ k + 1 \in 1 .. k + 1 /\ 1 .. k + 1 \subseteq 1 .. n
        /\ (1 .. k + 1) \ {k + 1} = 1 .. k /\ k \in 0 .. n /\ k + 1 \in 0 .. n
    BY <1>2
  <2>2. Max(1 .. k + 1) = k + 1 /\ 1 .. k + 1 # {}
    BY <2>1, MaxTop
  <2>3. g[1 .. k + 1] = ScopeStep(g[(1 .. k + 1) \ {k + 1}], ts[k + 1])
    BY <1>2, <1>3, <2>1, <2>2, Zenon DEF ScopeTable
  <2>4. h[k + 1] = g[1 .. k + 1] /\ h[k] = g[1 .. k]
    BY <2>1, Zenon
  <2>. QED  BY <2>1, <2>3, <2>4, Zenon
<1>6. ScopeFold(ts) = h[Len(ts)]
  <2>1. n \in 0 .. n
    BY <1>2
  <2>2. h[n] = g[1 .. n]
    BY <2>1, Zenon
  <2>. QED  BY <1>1, <1>2, <2>2
<1>. QED  BY <1>4, <1>5, <1>6

\* Settling the references of an object.
FillStep(o, rel) == FillOne(o, rel)
FillFold(o, ts) == FoldLeft(FillOne, o, ts)

FillTable(g, o, ts) ==
    g = [s \in SUBSET DOMAIN ts |-> IF s = {} THEN o
                                    ELSE FillStep(g[s \ {Max(s)}], ts[Max(s)])]

\* The object after each of its references is settled.
LEMMA FillTableExists ==
    ASSUME NEW ts, IsSequence(ts), NEW o
    PROVE  \E g : FillTable(g, o, ts)
<1>. DEFINE n == Len(ts)
            Val(g, s) == IF s = {} THEN o ELSE FillStep(g[s \ {Max(s)}], ts[Max(s)])
            Good(g, m) == g = [s \in SUBSET (1 .. m) |-> Val(g, s)]
            T == {m \in 0 .. n : \E g : Good(g, m)}
<1>1. n \in Nat /\ DOMAIN ts = 1 .. n
  BY SequenceFacts
<1>2. 0 \in T
  <2>. DEFINE g == [s \in SUBSET (1 .. 0) |-> o]
  <2>1. \A s \in SUBSET (1 .. 0) : s = {}
    OBVIOUS
  <2>2. Good(g, 0)
    BY <2>1, Zenon
  <2>3. \E f : Good(f, 0)
    BY <2>2, Zenon
  <2>. HIDE DEF Good
  <2>. QED  BY <1>1, <2>3
<1>3. ASSUME NEW m \in 0 .. n - 1, m \in T PROVE m + 1 \in T
  <2>1. PICK g : Good(g, m)
    BY <1>3
  <2>. DEFINE h == [s \in SUBSET (1 .. m + 1) |->
                      IF m + 1 \in s THEN FillStep(g[s \ {m + 1}], ts[m + 1]) ELSE g[s]]
  <2>0. m \in Nat /\ m + 1 \in 0 .. n /\ m + 1 \notin 1 .. m /\ 1 .. m \subseteq 1 .. m + 1
        /\ (1 .. m + 1) \ {m + 1} = 1 .. m
    BY <1>1
  <2>2. ASSUME NEW s \in SUBSET (1 .. m) PROVE h[s] = g[s]
    <3>1. s \in SUBSET (1 .. m + 1) /\ m + 1 \notin s
      BY <2>0
    <3>. QED  BY <3>1, Zenon
  <2>3. ASSUME NEW s \in SUBSET (1 .. m + 1) PROVE h[s] = Val(h, s)
    <3>1. CASE m + 1 \in s
      <4>1. Max(s) = m + 1 /\ s # {}
        BY <2>0, <3>1, MaxTop
      <4>2. s \ {m + 1} \in SUBSET (1 .. m)
        BY <2>0
      <4>3. h[s] = FillStep(g[s \ {m + 1}], ts[m + 1])
        BY <3>1, Zenon
      <4>4. h[s \ {m + 1}] = g[s \ {m + 1}]
        BY <2>2, <4>2, Zenon
      <4>. HIDE DEF h
      <4>. QED  BY <4>1, <4>3, <4>4, Zenon
    <3>2. CASE m + 1 \notin s
      <4>1. s \in SUBSET (1 .. m)
        BY <2>0, <3>2
      <4>2. h[s] = g[s]
        BY <2>2, <4>1
      <4>3. g[s] = Val(g, s)
        BY <2>1, <4>1, Zenon
      <4>4. s \ {Max(s)} \in SUBSET (1 .. m)
        BY <4>1
      <4>5. h[s \ {Max(s)}] = g[s \ {Max(s)}]
        BY <2>2, <4>4, Zenon
      <4>. HIDE DEF h
      <4>. QED  BY <4>2, <4>3, <4>5, Zenon
    <3>. QED  BY <3>1, <3>2
  <2>4. h = [s \in SUBSET (1 .. m + 1) |-> h[s]]
    BY Zenon
  <2>. HIDE DEF h
  <2>5. Good(h, m + 1)
    BY <2>3, <2>4, Zenon
  <2>. QED  BY <2>0, <2>5
<1>. HIDE DEF T
<1>4. n \in T
  <2>1. n \in 0 .. n
    BY <1>1
  <2>2. \A k \in 0 .. n : k \in T
    <3>. HIDE DEF n
    <3>. QED  BY <1>1, <1>2, <1>3, NatInduct
  <2>. QED  BY <2>1, <2>2
<1>5. \E f : Good(f, n)
  <2>. HIDE DEF Good
  <2>. QED  BY <1>4, Zenon DEF T
<1>. QED  BY <1>1, <1>5, Zenon DEF FillTable

\* Settling the references as a run: one object after each of them.
LEMMA FillRun ==
    ASSUME NEW ts, IsSequence(ts), NEW o
    PROVE  \E h : /\ h[0] = o
                  /\ \A k \in 0 .. Len(ts) - 1 : h[k + 1] = FillStep(h[k], ts[k + 1])
                  /\ FillFold(o, ts) = h[Len(ts)]
<1>. DEFINE n == Len(ts)
            g == CHOOSE f : FillTable(f, o, ts)
            h == [k \in 0 .. n |-> g[1 .. k]]
<1>1. FillFold(o, ts) = g[DOMAIN ts]
  BY Zenon DEF FillFold, FoldLeft, MapThenFoldSet, FillTable, FillStep
<1>2. n \in Nat /\ DOMAIN ts = 1 .. n
  BY SequenceFacts
<1>3. FillTable(g, o, ts)
  BY FillTableExists, Zenon
<1>. HIDE DEF g
<1>4. h[0] = o
  <2>1. 1 .. 0 = {} /\ {} \in SUBSET (1 .. n) /\ 0 \in 0 .. n
    BY <1>2
  <2>2. h[0] = g[1 .. 0]
    BY <2>1, Zenon
  <2>. QED  BY <1>2, <1>3, <2>1, <2>2, Zenon DEF FillTable
<1>5. ASSUME NEW k \in 0 .. n - 1 PROVE h[k + 1] = FillStep(h[k], ts[k + 1])
  <2>1. /\ k \in Nat /\ k + 1 \in Nat /\ k + 1 \in 1 .. k + 1 /\ 1 .. k + 1 \subseteq 1 .. n
        /\ (1 .. k + 1) \ {k + 1} = 1 .. k /\ k \in 0 .. n /\ k + 1 \in 0 .. n
    BY <1>2
  <2>2. Max(1 .. k + 1) = k + 1 /\ 1 .. k + 1 # {}
    BY <2>1, MaxTop
  <2>3. g[1 .. k + 1] = FillStep(g[(1 .. k + 1) \ {k + 1}], ts[k + 1])
    BY <1>2, <1>3, <2>1, <2>2, Zenon DEF FillTable
  <2>4. h[k + 1] = g[1 .. k + 1] /\ h[k] = g[1 .. k]
    BY <2>1, Zenon
  <2>. QED  BY <2>1, <2>3, <2>4, Zenon
<1>6. FillFold(o, ts) = h[Len(ts)]
  <2>1. n \in 0 .. n
    BY <1>2
  <2>2. h[n] = g[1 .. n]
    BY <2>1, Zenon
  <2>. QED  BY <1>1, <1>2, <2>2
<1>. QED  BY <1>4, <1>5, <1>6

-----------------------------------------------------------------------------
(* Sequences one after the other. *)

LEMMA SingleSequence ==
    ASSUME NEW x
    PROVE  IsSequence(<<x>>) /\ Len(<<x>>) = 1 /\ <<x>>[1] = x
<1>1. <<x>> \in Seq({x}) /\ Len(<<x>>) = 1 /\ <<x>>[1] = x
  OBVIOUS
<1>. QED  BY <1>1, Zenon DEF IsSequence

FlatTable(f, seqs, m) ==
    f = [i \in 1 .. m |-> IF i = 1 THEN seqs[i] ELSE f[i - 1] \o seqs[i]]

\* Each prefix of a list of sequences, one after the other.
LEMMA FlatTableExists ==
    ASSUME NEW seqs, IsSequence(seqs)
    PROVE  \E f : FlatTable(f, seqs, Len(seqs))
<1>. DEFINE n == Len(seqs)
            T == {m \in 0 .. n : \E f : FlatTable(f, seqs, m)}
<1>1. n \in Nat
  BY SequenceFacts
<1>2. 0 \in T
  <2>. DEFINE f == [i \in 1 .. 0 |-> seqs[i]]
  <2>1. \A i \in 1 .. 0 : FALSE
    OBVIOUS
  <2>2. FlatTable(f, seqs, 0)
    BY <2>1, Zenon DEF FlatTable
  <2>3. \E g : FlatTable(g, seqs, 0)
    BY <2>2, Zenon
  <2>. QED  BY <1>1, <2>3
<1>3. ASSUME NEW m \in 0 .. n - 1, m \in T PROVE m + 1 \in T
  <2>1. PICK f : FlatTable(f, seqs, m)
    BY <1>3, Zenon
  <2>. DEFINE Val(g, i) == IF i = 1 THEN seqs[i] ELSE g[i - 1] \o seqs[i]
              h == [i \in 1 .. m + 1 |-> IF i = m + 1 THEN Val(f, i) ELSE f[i]]
  <2>2. m + 1 \in 0 .. n /\ \A i \in 1 .. m + 1 : i # m + 1 => i \in 1 .. m
    BY <1>1
  <2>3. \A i \in 1 .. m : i \in 1 .. m + 1 /\ i # m + 1
    BY <1>1
  <2>4. \A i \in 1 .. m : h[i] = f[i]
    BY <2>3, Zenon
  <2>5. \A i \in 1 .. m + 1 : i # 1 => i - 1 \in 1 .. m
    BY <1>1
  <2>6. ASSUME NEW i \in 1 .. m + 1 PROVE h[i] = Val(h, i)
    <3>1. h[i] = Val(f, i)
      <4>1. CASE i = m + 1
        BY <4>1, Zenon
      <4>2. CASE i # m + 1
        <5>1. i \in 1 .. m /\ h[i] = f[i]
          BY <2>2, <2>4, <4>2
        <5>2. f[i] = Val(f, i)
          BY <2>1, <5>1, Zenon DEF FlatTable
        <5>. QED  BY <5>1, <5>2, Zenon
      <4>. QED  BY <4>1, <4>2
    <3>2. i = 1 \/ h[i - 1] = f[i - 1]
      BY <2>4, <2>5, Zenon
    <3>. HIDE DEF h
    <3>. QED  BY <3>1, <3>2, Zenon
  <2>7. h = [i \in 1 .. m + 1 |-> h[i]]
    BY Zenon
  <2>. HIDE DEF h
  <2>8. FlatTable(h, seqs, m + 1)
    BY <2>6, <2>7, Zenon DEF FlatTable
  <2>. QED  BY <2>2, <2>8, Zenon
<1>. HIDE DEF T
<1>4. n \in T
  <2>1. n \in 0 .. n
    BY <1>1
  <2>2. \A k \in 0 .. n : k \in T
    <3>. HIDE DEF n
    <3>. QED  BY <1>1, <1>2, <1>3, NatInduct
  <2>. QED  BY <2>1, <2>2
<1>. QED  BY <1>4, Zenon DEF T

\* Each prefix of the whole is one sequence more than the one before it.
LEMMA FlattenRun ==
    ASSUME NEW seqs, IsSequence(seqs)
    PROVE  \E h : /\ h[0] = <<>>
                  /\ \A k \in 0 .. Len(seqs) - 1 :
                        h[k + 1] = IF k = 0 THEN seqs[k + 1] ELSE h[k] \o seqs[k + 1]
                  /\ FlattenSeq(seqs) = h[Len(seqs)]
<1>. DEFINE n == Len(seqs)
            f == CHOOSE g : FlatTable(g, seqs, n)
            h == [k \in 0 .. n |-> IF k = 0 THEN <<>> ELSE f[k]]
<1>1. n \in Nat /\ 0 \in 0 .. n /\ n \in 0 .. n
  BY SequenceFacts
<1>2. FlatTable(f, seqs, n)
  BY FlatTableExists, Zenon
<1>3. h[0] = <<>>
  BY <1>1, Zenon
<1>4. ASSUME NEW k \in 0 .. n - 1
      PROVE  h[k + 1] = IF k = 0 THEN seqs[k + 1] ELSE h[k] \o seqs[k + 1]
  <2>1. k + 1 \in 0 .. n /\ k + 1 \in 1 .. n /\ k \in 0 .. n /\ k + 1 # 0 /\ (k + 1) - 1 = k
        /\ (k + 1 = 1 <=> k = 0)
    BY <1>1
  <2>2. h[k + 1] = f[k + 1]
    BY <2>1, Zenon
  <2>3. f[k + 1] = IF k = 0 THEN seqs[k + 1] ELSE f[k] \o seqs[k + 1]
    <3>. HIDE DEF f
    <3>1. f[k + 1] = IF k + 1 = 1 THEN seqs[k + 1] ELSE f[(k + 1) - 1] \o seqs[k + 1]
      BY <1>2, <2>1, Zenon DEF FlatTable
    <3>. QED  BY <3>1, <2>1
  <2>4. k # 0 => h[k] = f[k]
    BY <2>1, Zenon
  <2>. HIDE DEF f, h
  <2>. QED  BY <2>2, <2>3, <2>4
<1>5. FlattenSeq(seqs) = h[n]
  <2>1. CASE n = 0
    <3>1. IsSequence(<<>>) /\ Len(<<>>) = 0 /\ \A k \in 1 .. 0 : FALSE
      BY EmptySequence
    <3>2. seqs = <<>>
      BY <2>1, <3>1, SequencesEqual
    <3>3. FlattenSeq(seqs) = seqs
      BY <2>1, Zenon DEF FlattenSeq
    <3>. QED  BY <1>3, <2>1, <3>2, <3>3
  <2>2. CASE n # 0
    <3>1. FlattenSeq(seqs) = f[n]
      BY <2>2, Zenon DEF FlattenSeq, FlatTable
    <3>2. h[n] = f[n]
      BY <1>1, <2>2, Zenon
    <3>. QED  BY <3>1, <3>2
  <2>. QED  BY <2>1, <2>2
<1>. QED  BY <1>3, <1>4, <1>5

LEMMA FlattenedSequence ==
    ASSUME NEW seqs, IsSequence(seqs), \A k \in 1 .. Len(seqs) : IsSequence(seqs[k])
    PROVE  IsSequence(FlattenSeq(seqs))
<1>. DEFINE n == Len(seqs)
<1>1. PICK h : /\ h[0] = <<>>
               /\ \A k \in 0 .. n - 1 :
                        h[k + 1] = IF k = 0 THEN seqs[k + 1] ELSE h[k] \o seqs[k + 1]
               /\ FlattenSeq(seqs) = h[n]
  BY FlattenRun
<1>. DEFINE T == {m \in 0 .. n : IsSequence(h[m])}
<1>2. n \in Nat /\ n \in 0 .. n /\ 0 \in 0 .. n
  BY SequenceFacts
<1>3. 0 \in T
  BY <1>1, <1>2, EmptySequence
<1>4. ASSUME NEW m \in 0 .. n - 1, m \in T PROVE m + 1 \in T
  <2>1. m + 1 \in 0 .. n /\ m + 1 \in 1 .. n
    BY <1>2
  <2>2. h[m + 1] = IF m = 0 THEN seqs[m + 1] ELSE h[m] \o seqs[m + 1]
    BY <1>1
  <2>3. IsSequence(h[m]) /\ IsSequence(seqs[m + 1])
    BY <1>4, <2>1
  <2>. HIDE DEF n
  <2>4. IsSequence(h[m] \o seqs[m + 1])
    BY <2>3, JoinedSequence
  <2>5. IsSequence(h[m + 1])
    BY <2>2, <2>3, <2>4
  <2>. QED  BY <2>1, <2>5
<1>5. n \in T
  <2>. HIDE DEF n, T
  <2>1. \A k \in 0 .. n : k \in T
    BY <1>2, <1>3, <1>4, NatInduct
  <2>. QED  BY <2>1, <1>2
<1>. QED  BY <1>1, <1>5

\* The parts of a list are a sequence.
LEMMA SplitSequence ==
    ASSUME NEW ts, IsSequence(ts), NEW sep
    PROVE  IsSequence(SplitAt(ts, sep))
<1>. DEFINE n == Len(ts)
            parts == SplitFold(ts, sep)
<1>1. PICK h : /\ h[0] = <<<<>>>>
               /\ \A k \in 0 .. n - 1 : h[k + 1] = SplitStep(h[k], ts[k + 1], sep)
               /\ SplitFold(ts, sep) = h[n]
  BY SplitRun
<1>. DEFINE Good(m) == IsSequence(h[m]) /\ Len(h[m]) >= 1
            T == {m \in 0 .. n : Good(m)}
<1>2. n \in Nat /\ n \in 0 .. n /\ 0 \in 0 .. n
  BY SequenceFacts
<1>3. 0 \in T
  <2>1. IsSequence(<<<<>>>>) /\ Len(<<<<>>>>) = 1
    BY SingleSequence, Zenon
  <2>2. Good(0)
    <3>1. h[0] = <<<<>>>>
      BY <1>1
    <3>2. 1 >= 1
      OBVIOUS
    <3>. QED  BY <2>1, <3>1, <3>2, Zenon
  <2>. HIDE DEF Good
  <2>. QED  BY <1>2, <2>2
<1>4. ASSUME NEW m \in 0 .. n - 1, m \in T PROVE m + 1 \in T
  <2>. DEFINE s == h[m]
  <2>1. m + 1 \in 0 .. n /\ IsSequence(s) /\ Len(s) >= 1
    BY <1>2, <1>4
  <2>2. h[m + 1] = SplitStep(s, ts[m + 1], sep)
    BY <1>1
  <2>3. CASE ts[m + 1] = sep
    <3>1. h[m + 1] = Append(s, <<>>)
      BY <2>2, <2>3 DEF SplitStep
    <3>. HIDE DEF s
    <3>2. IsSequence(Append(s, <<>>)) /\ Len(Append(s, <<>>)) = Len(s) + 1 /\ Len(s) \in Nat
      BY <2>1, AppendedSequence, SequenceFacts
    <3>3. Good(m + 1)
      BY <3>1, <3>2
    <3>. QED  BY <2>1, <3>3
  <2>4. CASE ts[m + 1] # sep
    <3>1. h[m + 1] = [s EXCEPT ![Len(s)] = Append(@, ts[m + 1])]
      BY <2>2, <2>4, Zenon DEF SplitStep
    <3>. DEFINE e == Append(s[Len(s)], ts[m + 1])
                r == [s EXCEPT ![Len(s)] = e]
    <3>. HIDE DEF s, e
    <3>2. DOMAIN s = 1 .. Len(s) /\ Len(s) \in Nat
      BY <2>1, SequenceFacts
    <3>. DEFINE S == ToSet(s) \cup {e}
    <3>3. r \in [1 .. Len(s) -> S]
      BY <2>1, <3>2, SequenceFacts
    <3>4. IsSequence(r) /\ Len(r) = Len(s)
      <4>. HIDE DEF S, r
      <4>. QED  BY <3>2, <3>3, SequenceOf
    <3>5. h[m + 1] = r
      BY <3>1 DEF e
    <3>6. Good(m + 1)
      BY <2>1, <3>4, <3>5
    <3>. QED  BY <2>1, <3>6
  <2>. QED  BY <2>3, <2>4
<1>5. Good(n)
  <2>. HIDE DEF n, T
  <2>1. \A k \in 0 .. n : k \in T
    BY <1>2, <1>3, <1>4, NatInduct
  <2>. QED  BY <2>1, <1>2 DEF T
<1>6. IsSequence(parts) /\ Len(parts) >= 1
  BY <1>1, <1>5
<1>7. SplitAt(ts, sep) = IF Last(parts) = <<>> THEN Front(parts) ELSE parts
  BY Zenon DEF SplitAt, SplitFold, SplitStep
<1>. HIDE DEF parts
<1>8. IsSequence(Front(parts))
  <2>1. Len(parts) \in Nat /\ Len(parts) - 1 \in Nat /\ 1 <= (Len(parts) - 1) + 1
    BY <1>6, SequenceFacts
  <2>2. IsSequence(SubSeq(parts, 1, Len(parts) - 1))
    <3>. DEFINE k == Len(parts) - 1
    <3>1. k \in Nat /\ k <= Len(parts) /\ 1 <= k + 1
      BY <2>1
    <3>. HIDE DEF k
    <3>2. IsSequence(SubSeq(parts, 1, k))
      BY <1>6, <3>1, PartOfSequence
    <3>. QED  BY <3>2 DEF k
  <2>. QED  BY <2>2 DEF Front
<1>. QED  BY <1>6, <1>7, <1>8

-----------------------------------------------------------------------------
(* Expressions. *)

Value4(t) == IF t \in Literal THEN NumberOf[t] ELSE 0
GoesOn(ts, j) == Token(ts, j + 1) \in Operators /\ Token(ts, j + 2) \notin {NL, ","}
Ends(ts, k) == {n \in 0 .. Len(ts) : k + 2 * n < Len(ts) /\ ~GoesOn(ts, k + 2 * n)}
ValueTable(v, ts, k, count) ==
    v = [n \in 0 .. count |-> IF n = 0 THEN Value4(ts[k])
                              ELSE Apply(ts[(k + 2 * n) - 1], v[n - 1], Value4(ts[k + 2 * n]))]
EndOf(ts, k, count) ==
    IF Token(ts, k + 2 * count + 1) \in Operators THEN k + 2 * count + 1 ELSE k + 2 * count

\* What Expression answers: nothing, or a value and where it ends.
LEMMA ExpressionDef ==
    ASSUME NEW ts, NEW k
    PROVE  Expression(ts, k) =
             IF Ends(ts, k) = {} THEN {}
             ELSE {[val |-> (CHOOSE v : ValueTable(v, ts, k, Min(Ends(ts, k))))[Min(Ends(ts, k))],
                    end |-> EndOf(ts, k, Min(Ends(ts, k)))]}
  BY Zenon DEF Expression, Ends, GoesOn, Value4, ValueTable, EndOf

LEMMA ValueIsNat ==
    ASSUME NEW t
    PROVE  Value4(t) \in Nat
  BY TokensAssumption DEF Value4, Literal

\* Each operator makes an integer of two.
LEMMA ApplyIsInt ==
    ASSUME NEW op \in Operators, NEW a \in Int, NEW b \in Nat
    PROVE  Apply(op, a, b) \in Int
<1>1. CASE op = "+"
  BY <1>1 DEF Apply
<1>2. CASE op = "-"
  BY <1>2 DEF Apply
<1>3. CASE op = "*"
  BY <1>3 DEF Apply
<1>. QED  BY <1>1, <1>2, <1>3 DEF Operators

\* Where the operators of an expression are.
LEMMA ExpressionShape ==
    ASSUME NEW ts, IsSequence(ts), NEW k \in Nat \ {0}, Ends(ts, k) # {},
           NEW count, count = Min(Ends(ts, k))
    PROVE  /\ count \in Nat /\ k + 2 * count \in k .. Len(ts) - 1
           /\ \A n \in 1 .. count : ts[(k + 2 * n) - 1] \in Operators
           /\ EndOf(ts, k, count) \in k .. Len(ts)
           /\ \A j \in k + 1 .. EndOf(ts, k, count) : ts[j] \in Operators \/ ts[j - 1] \in Operators
<1>1. Len(ts) \in Nat /\ DOMAIN ts = 1 .. Len(ts)
  BY SequenceFacts
<1>2. Ends(ts, k) \in SUBSET Nat
  BY <1>1 DEF Ends
<1>3. count \in Ends(ts, k) /\ \A y \in Ends(ts, k) : count <= y
  BY <1>2, MinNat
<1>4. count \in 0 .. Len(ts) /\ k + 2 * count < Len(ts)
  BY <1>3 DEF Ends
<1>5. ASSUME NEW n \in 1 .. count PROVE ts[(k + 2 * n) - 1] \in Operators
  <2>1. n - 1 \in 0 .. Len(ts) /\ k + 2 * (n - 1) < Len(ts) /\ ~(count <= n - 1)
    BY <1>1, <1>4
  <2>2. n - 1 \notin Ends(ts, k)
    BY <1>3, <2>1
  <2>3. GoesOn(ts, k + 2 * (n - 1))
    BY <2>1, <2>2 DEF Ends
  <2>4. k + 2 * (n - 1) + 1 = (k + 2 * n) - 1 /\ (k + 2 * n) - 1 \in 1 .. Len(ts)
    BY <1>1, <1>4
  <2>. QED  BY <1>1, <2>3, <2>4 DEF GoesOn, Token
<1>. DEFINE last == k + 2 * count
            end == EndOf(ts, k, count)
<1>6. last \in k .. Len(ts) - 1 /\ last \in Nat
  BY <1>1, <1>4
<1>7. end = IF Token(ts, last + 1) \in Operators THEN last + 1 ELSE last
  BY DEF EndOf
<1>8. end \in k .. Len(ts) /\ end \in {last, last + 1}
  <2>. HIDE DEF last, end
  <2>. QED  BY <1>1, <1>6, <1>7
<1>9. ASSUME NEW j \in k + 1 .. end PROVE ts[j] \in Operators \/ ts[j - 1] \in Operators
  <2>1. CASE j = last + 1
    <3>1. Token(ts, last + 1) \in Operators
      <4>. HIDE DEF last, end
      <4>. QED  BY <1>6, <1>7, <2>1
    <3>2. last + 1 \in DOMAIN ts
      <4>. HIDE DEF last, end
      <4>. QED  BY <1>1, <1>6
    <3>. QED  BY <2>1, <3>1, <3>2 DEF Token
  <2>2. CASE j # last + 1
    <3>1. j \in k + 1 .. last
      <4>. HIDE DEF last, end
      <4>. QED  BY <1>6, <1>8, <2>2
    <3>2. \E n \in 1 .. count : j = k + 2 * n \/ j = (k + 2 * n) - 1
      <4>. DEFINE n == (j - k + 1) \div 2
      <4>1. j - k \in 1 .. 2 * count /\ count \in Nat
        BY <1>4, <3>1
      <4>2. n \in 1 .. count /\ (j - k = 2 * n \/ j - k = 2 * n - 1)
        BY <4>1
      <4>3. j \in Nat
        BY <1>6, <3>1
      <4>. QED  BY <4>2, <4>3
    <3>3. PICK n \in 1 .. count : j = k + 2 * n \/ j = (k + 2 * n) - 1
      BY <3>2
    <3>. QED  BY <1>5, <3>3
  <2>. QED  BY <2>1, <2>2
<1>. QED  BY <1>4, <1>5, <1>6, <1>8, <1>9

\* The value of an expression up to each of its operators.
LEMMA ValueTableExists ==
    ASSUME NEW ts, NEW k \in Nat, NEW count \in Nat,
           \A n \in 1 .. count : ts[(k + 2 * n) - 1] \in Operators
    PROVE  \E v : ValueTable(v, ts, k, count)
<1>. DEFINE R == [n \in 0 .. count |-> Int]
            step == [p \in (1 .. count) \X Int |->
                       Apply(ts[(k + 2 * p[1]) - 1], p[2], Value4(ts[k + 2 * p[1]]))]
            base == Value4(ts[k])
<1>1. base \in R[0]
  BY ValueIsNat
<1>2. ASSUME NEW n \in 1 .. count, NEW v \in Int
      PROVE  /\ step[<<n, v>>] = Apply(ts[(k + 2 * n) - 1], v, Value4(ts[k + 2 * n]))
             /\ step[<<n, v>>] \in Int
  <2>1. step[<<n, v>>] = Apply(ts[(k + 2 * n) - 1], v, Value4(ts[k + 2 * n]))
    OBVIOUS
  <2>2. Apply(ts[(k + 2 * n) - 1], v, Value4(ts[k + 2 * n])) \in Int
    <3>. HIDE DEF step
    <3>. QED  BY ValueIsNat, ApplyIsInt
  <2>. HIDE DEF step
  <2>. QED  BY <2>1, <2>2
<1>. HIDE DEF step, base
<1>3. \A n \in 1 .. count : R[n - 1] = Int /\ R[n] = Int
  OBVIOUS
<1>4. LoopWithin(count, R, base, step)
  BY <1>1, <1>2, <1>3 DEF LoopWithin
<1>5. PICK g : LoopOf(g, count, base, step) /\ \A n \in 0 .. count : g[n] \in R[n]
  <2>. HIDE DEF R
  <2>. QED  BY <1>4, LoopExists
<1>6. \A n \in 0 .. count : g[n] \in Int
  BY <1>5
<1>. DEFINE Next4(n) == Apply(ts[(k + 2 * n) - 1], g[n - 1], Value4(ts[k + 2 * n]))
<1>7. ASSUME NEW n \in 0 .. count PROVE g[n] = IF n = 0 THEN base ELSE Next4(n)
  <2>1. g[n] = IF n = 0 THEN base ELSE step[<<n, g[n - 1]>>]
    BY <1>5, Zenon DEF LoopOf
  <2>2. CASE n # 0
    <3>1. n \in 1 .. count /\ n - 1 \in 0 .. count
      BY <2>2
    <3>2. g[n - 1] \in Int
      BY <1>6, <3>1
    <3>3. step[<<n, g[n - 1]>>] = Next4(n)
      BY <1>2, <3>1, <3>2
    <3>. HIDE DEF Next4
    <3>. QED  BY <2>1, <2>2, <3>3
  <2>. QED  BY <2>1, <2>2
<1>8. g = [n \in 0 .. count |-> g[n]]
  BY <1>5, Zenon DEF LoopOf
<1>9. ValueTable(g, ts, k, count)
  BY <1>7, <1>8, Zenon DEF ValueTable, base
<1>. QED  BY <1>9, Zenon

\* An expression has a number for its value, and ends within the tokens.
LEMMA ExpressionFacts ==
    ASSUME NEW ts, IsSequence(ts), NEW k \in Nat \ {0}, NEW x \in Expression(ts, k)
    PROVE  /\ x.val \in Int /\ x.end \in k .. Len(ts)
           /\ \A j \in k + 1 .. x.end : ts[j] \in Operators \/ ts[j - 1] \in Operators
<1>. DEFINE count == Min(Ends(ts, k))
            v == CHOOSE f : ValueTable(f, ts, k, count)
<1>1. Ends(ts, k) # {}
      /\ x = [val |-> v[count], end |-> EndOf(ts, k, count)]
  BY ExpressionDef, Zenon
<1>2. /\ count \in Nat /\ k + 2 * count \in k .. Len(ts) - 1
      /\ \A n \in 1 .. count : ts[(k + 2 * n) - 1] \in Operators
      /\ EndOf(ts, k, count) \in k .. Len(ts)
      /\ \A j \in k + 1 .. EndOf(ts, k, count) : ts[j] \in Operators \/ ts[j - 1] \in Operators
  BY <1>1, ExpressionShape
<1>. HIDE DEF count
<1>3. ValueTable(v, ts, k, count)
  BY <1>1, <1>2, ValueTableExists, Zenon
<1>. HIDE DEF v
<1>. DEFINE T == {n \in 0 .. count : v[n] \in Int}
<1>4. 0 \in T
  <2>1. 0 \in 0 .. count
    BY <1>2
  <2>2. v[0] = Value4(ts[k])
    BY <1>3, <2>1, Zenon DEF ValueTable
  <2>. QED  BY <2>1, <2>2, ValueIsNat
<1>5. ASSUME NEW n \in 0 .. count - 1, n \in T PROVE n + 1 \in T
  <2>1. n + 1 \in 0 .. count /\ n + 1 # 0 /\ (n + 1) - 1 = n /\ n + 1 \in 1 .. count
    BY <1>2
  <2>2. v[n + 1] = Apply(ts[(k + 2 * (n + 1)) - 1], v[n], Value4(ts[k + 2 * (n + 1)]))
    <3>. DEFINE m == n + 1
    <3>1. v[m] = Apply(ts[(k + 2 * m) - 1], v[m - 1], Value4(ts[k + 2 * m]))
      <4>1. m \in 0 .. count /\ m # 0
        BY <2>1
      <4>. HIDE DEF m
      <4>. QED  BY <1>3, <4>1, Zenon DEF ValueTable
    <3>2. m - 1 = n
      BY <2>1
    <3>. QED  BY <3>1, <3>2
  <2>3. v[n] \in Int
    BY <1>5
  <2>4. v[n + 1] \in Int
    BY <1>2, <2>1, <2>2, <2>3, ValueIsNat, ApplyIsInt
  <2>. QED  BY <2>1, <2>4
<1>6. v[count] \in Int
  <2>1. \A n \in 0 .. count : n \in T
    <3>. HIDE DEF T
    <3>. QED  BY <1>2, <1>4, <1>5, NatInduct
  <2>2. count \in 0 .. count
    BY <1>2
  <2>. QED  BY <2>1, <2>2
<1>7. x.val = v[count] /\ x.end = EndOf(ts, k, count)
  BY <1>1
<1>. QED  BY <1>2, <1>6, <1>7

-----------------------------------------------------------------------------
(* What a parser takes: no token after the first begins or ends a scope, as  *)
(* long as those do so only at the beginning of a line.                      *)

ScopeTokens == {".scope", ".scend"}
Quiet(ts, n) == n \in 0 .. Len(ts) /\ \A j \in 1 .. n : ts[j] # NL
Passes(ts, n) == n \in 1 .. Len(ts) /\ \A j \in 2 .. n : ts[j] \in ScopeTokens => ts[j - 1] # NL

\* What refers to a symbol names one.
Refers(refs) ==
    refs = <<>> \/ \E sym \in Symbols : \E type : refs = Refer(sym, type)
Reading(p, ts) == Passes(ts, p.took) /\ Refers(p.refs)

LEMMA TokenFacts ==
    ASSUME NEW ts, IsSequence(ts), NEW k, Token(ts, k) # ""
    PROVE  k \in 1 .. Len(ts) /\ Token(ts, k) = ts[k]
<1>1. DOMAIN ts = 1 .. Len(ts)
  BY SequenceFacts
<1>. QED  BY <1>1 DEF Token

LEMMA SymbolFacts ==
    ASSUME NEW ts, IsSequence(ts), NEW k, IsSymbol(Token(ts, k))
    PROVE  k \in 1 .. Len(ts) /\ ts[k] \in Symbols
<1>1. Token(ts, k) # "" /\ Token(ts, k) \in Symbols
  BY TokensAssumption DEF IsSymbol
<1>. QED  BY <1>1, TokenFacts

LEMMA QuietMore ==
    ASSUME NEW ts, IsSequence(ts), NEW n \in Nat, Quiet(ts, n), n + 1 \in 1 .. Len(ts),
           ts[n + 1] # NL
    PROVE  Quiet(ts, n + 1)
<1>1. n + 1 \in 0 .. Len(ts)
  BY SequenceFacts
<1>2. \A j \in 1 .. n + 1 : j = n + 1 \/ j \in 1 .. n
  OBVIOUS
<1>. QED  BY <1>1, <1>2 DEF Quiet

LEMMA QuietPasses ==
    ASSUME NEW ts, IsSequence(ts), NEW n \in Nat \ {0}, Quiet(ts, n)
    PROVE  Passes(ts, n) /\ (n + 1 \in 1 .. Len(ts) => Passes(ts, n + 1))
<1>1. n \in 1 .. Len(ts)
  BY SequenceFacts DEF Quiet
<1>2. \A j \in 2 .. n + 1 : j - 1 \in 1 .. n
  OBVIOUS
<1>3. \A j \in 2 .. n : j \in 2 .. n + 1
  OBVIOUS
<1>. QED  BY <1>1, <1>2, <1>3 DEF Quiet, Passes

LEMMA PassesMore ==
    ASSUME NEW ts, IsSequence(ts), NEW n \in Nat, Passes(ts, n), n + 1 \in 1 .. Len(ts),
           ts[n + 1] \notin ScopeTokens
    PROVE  Passes(ts, n + 1)
<1>1. \A j \in 2 .. n + 1 : j = n + 1 \/ j \in 2 .. n
  OBVIOUS
<1>. QED  BY <1>1 DEF Passes

\* No token of an expression begins or ends a scope.
LEMMA QuietExpression ==
    ASSUME NEW ts, IsSequence(ts), NEW k \in Nat, k >= 2, Quiet(ts, k - 1),
           NEW x \in Expression(ts, k)
    PROVE  x.val \in Int /\ x.end \in k .. Len(ts) /\ Passes(ts, x.end)
<1>1. /\ x.val \in Int /\ x.end \in k .. Len(ts)
      /\ \A j \in k + 1 .. x.end : ts[j] \in Operators \/ ts[j - 1] \in Operators
  BY ExpressionFacts
<1>2. Len(ts) \in Nat
  BY SequenceFacts
<1>3. ASSUME NEW j \in 2 .. x.end, ts[j] \in ScopeTokens PROVE ts[j - 1] # NL
  <2>1. CASE j <= k
    <3>1. j - 1 \in 1 .. k - 1
      BY <1>1, <2>1
    <3>. QED  BY <3>1 DEF Quiet
  <2>2. CASE ~(j <= k)
    <3>1. j \in k + 1 .. x.end
      BY <1>1, <1>2, <2>2
    <3>2. ts[j] \notin Operators
      BY <1>3 DEF ScopeTokens, Operators
    <3>3. NL \notin Operators
      BY DEF NL, Operators
    <3>. QED  BY <1>1, <3>1, <3>2, <3>3
  <2>. QED  BY <2>1, <2>2
<1>. QED  BY <1>1, <1>2, <1>3 DEF Passes

\* Tokens a statement has to begin with, none of them the end of a line.
Calm(kinds) == IsSequence(kinds) /\ \A k \in 1 .. Len(kinds) : NL \notin kinds[k]

LEMMA CalmJoined ==
    ASSUME NEW a, NEW b, Calm(a), Calm(b)
    PROVE  Calm(a \o b) /\ Len(a \o b) = Len(a) + Len(b)
<1>1. IsSequence(a) /\ IsSequence(b) /\ Len(a) \in Nat /\ Len(b) \in Nat
  BY SequenceFacts DEF Calm
<1>2. /\ IsSequence(a \o b) /\ Len(a \o b) = Len(a) + Len(b)
      /\ \A k \in 1 .. Len(a) + Len(b) : (a \o b)[k] = IF k <= Len(a) THEN a[k] ELSE b[k - Len(a)]
  BY <1>1, JoinedSequence
<1>3. ASSUME NEW k \in 1 .. Len(a) + Len(b) PROVE NL \notin (a \o b)[k]
  <2>1. CASE k <= Len(a)
    <3>1. k \in 1 .. Len(a)
      BY <1>1, <2>1
    <3>. QED  BY <1>2, <2>1, <3>1 DEF Calm
  <2>2. CASE ~(k <= Len(a))
    <3>1. k - Len(a) \in 1 .. Len(b)
      BY <1>1, <2>2
    <3>. QED  BY <1>2, <2>2, <3>1 DEF Calm
  <2>. QED  BY <2>1, <2>2
<1>. QED  BY <1>2, <1>3 DEF Calm

LEMMA CalmOne ==
    ASSUME NEW A, NL \notin A
    PROVE  Calm(<<A>>) /\ Len(<<A>>) = 1
<1>1. IsSequence(<<A>>) /\ Len(<<A>>) = 1 /\ <<A>>[1] = A
  BY SingleSequence
<1>2. \A k \in 1 .. 1 : k = 1
  OBVIOUS
<1>. QED  BY <1>1, <1>2, Zenon DEF Calm

LEMMA CalmTwo ==
    ASSUME NEW A, NEW B, NL \notin A, NL \notin B
    PROVE  Calm(<<A, B>>) /\ Len(<<A, B>>) = 2
<1>1. <<A, B>> \in Seq({A, B}) /\ Len(<<A, B>>) = 2 /\ <<A, B>>[1] = A /\ <<A, B>>[2] = B
  OBVIOUS
<1>2. \A k \in 1 .. 2 : k = 1 \/ k = 2
  OBVIOUS
<1>. QED  BY <1>1, <1>2, Zenon DEF Calm, IsSequence

LEMMA CalmThree ==
    ASSUME NEW A, NEW B, NEW C, NL \notin A, NL \notin B, NL \notin C
    PROVE  Calm(<<A, B, C>>) /\ Len(<<A, B, C>>) = 3
<1>1. /\ <<A, B, C>> \in Seq({A, B, C}) /\ Len(<<A, B, C>>) = 3
      /\ <<A, B, C>>[1] = A /\ <<A, B, C>>[2] = B /\ <<A, B, C>>[3] = C
  OBVIOUS
<1>2. \A k \in 1 .. 3 : k = 1 \/ k = 2 \/ k = 3
  OBVIOUS
<1>. QED  BY <1>1, <1>2, Zenon DEF Calm, IsSequence

\* The kinds of the operands an instruction takes.
LEMMA CalmKinds ==
    /\ NL \notin RegisterTokens /\ "" \notin RegisterTokens
    /\ \A s \in {",", "[", "]", "#", "."} : NL \notin {s}
    /\ Calm(RegComma) /\ Len(RegComma) = 2
<1>1. NL \notin RegisterTokens /\ "" \notin RegisterTokens
  BY DEF NL, RegisterTokens, Registers
<1>2. \A s \in {",", "[", "]", "#", "."} : NL \notin {s}
  BY DEF NL
<1>3. Calm(<<RegisterTokens, {","}>>) /\ Len(<<RegisterTokens, {","}>>) = 2
  <2>. DEFINE R == RegisterTokens
              C == {","}
  <2>1. NL \notin R /\ NL \notin C
    BY <1>1, <1>2
  <2>. HIDE DEF R, C
  <2>2. Calm(<<R, C>>) /\ Len(<<R, C>>) = 2
    BY <2>1, CalmTwo
  <2>. QED  BY <2>2 DEF R, C
<1>. QED  BY <1>1, <1>2, <1>3, Zenon DEF RegComma

LEMMA FollowQuiet ==
    ASSUME NEW ts, IsSequence(ts), NEW kinds, Calm(kinds), Follow(ts, kinds)
    PROVE  Quiet(ts, Len(kinds))
<1>1. Len(ts) \in Nat /\ Len(kinds) \in Nat /\ DOMAIN kinds = 1 .. Len(kinds)
  BY SequenceFacts DEF Calm
<1>. QED  BY <1>1 DEF Follow, Quiet, Calm

LEMMA FollowShort ==
    ASSUME NEW ts, IsSequence(ts), NEW A, NL \notin A, NEW kinds, Calm(kinds),
           Follow(ts, <<A>> \o RegComma \o kinds)
    PROVE  Quiet(ts, 3 + Len(kinds))
<1>1. Calm(<<A>>) /\ Len(<<A>>) = 1
  BY CalmOne
<1>. DEFINE one == <<A>>
<1>. HIDE DEF one
<1>2. Calm(one \o RegComma) /\ Len(one \o RegComma) = 3
  <2>1. Calm(one) /\ Len(one) = 1 /\ Calm(RegComma) /\ Len(RegComma) = 2
    BY <1>1, CalmKinds, Zenon DEF one
  <2>2. Calm(one \o RegComma) /\ Len(one \o RegComma) = Len(one) + Len(RegComma)
    BY <2>1, CalmJoined, Zenon
  <2>. QED  BY <2>1, <2>2
<1>3. Calm(one \o RegComma \o kinds) /\ Len(one \o RegComma \o kinds) = 3 + Len(kinds)
  BY <1>2, CalmJoined
<1>. QED  BY <1>3, FollowQuiet DEF one

LEMMA FollowLong ==
    ASSUME NEW ts, IsSequence(ts), NEW A, NL \notin A, Follow(ts, <<A>> \o RegComma \o RegComma)
    PROVE  Quiet(ts, 5)
<1>1. Quiet(ts, 3 + Len(RegComma))
  BY FollowShort, CalmKinds
<1>2. 3 + Len(RegComma) = 5
  <2>1. Len(RegComma) = 2
    BY CalmKinds, Zenon
  <2>. QED  BY <2>1
<1>. QED  BY <1>1, <1>2

LEMMA ShiftFacts ==
    ASSUME NEW ts, IsSequence(ts), NEW k \in Nat, k >= 2, Quiet(ts, k - 1),
           NEW x \in ParseShift(ts, k)
    PROVE  x.end \in k + 2 .. Len(ts) /\ Passes(ts, x.end)
<1>1. /\ Token(ts, k) \in Shifts /\ Token(ts, k + 1) = "#"
      /\ \E e \in Expression(ts, k + 2) : x = [sh |-> ts[k], by |-> e.val % 32, end |-> e.end]
  BY Zenon DEF ParseShift
<1>2. PICK e \in Expression(ts, k + 2) : x = [sh |-> ts[k], by |-> e.val % 32, end |-> e.end]
  BY <1>1
<1>3. Token(ts, k) # "" /\ Token(ts, k) # NL /\ Token(ts, k + 1) # "" /\ Token(ts, k + 1) # NL
  BY <1>1 DEF Shifts, NL
<1>4. k \in 1 .. Len(ts) /\ ts[k] # NL /\ k + 1 \in 1 .. Len(ts) /\ ts[k + 1] # NL
  BY <1>3, TokenFacts
<1>5. Quiet(ts, k)
  <2>1. k - 1 \in Nat /\ (k - 1) + 1 = k
    OBVIOUS
  <2>. QED  BY <1>4, <2>1, QuietMore
<1>6. Quiet(ts, k + 1)
  BY <1>4, <1>5, QuietMore
<1>7. k + 2 \in Nat /\ k + 2 >= 2 /\ (k + 2) - 1 = k + 1
  OBVIOUS
<1>8. e.end \in k + 2 .. Len(ts) /\ Passes(ts, e.end)
  BY <1>6, <1>7, QuietExpression
<1>9. x.end = e.end
  BY <1>2
<1>. QED  BY <1>8, <1>9

LEMMA ParsedFields ==
    ASSUME NEW i, NEW refs, NEW n
    PROVE  Parsed(i, refs, n).took = n /\ Parsed(i, refs, n).refs = refs
  BY DEF Parsed

\* What a parser answers when it takes a statement.
LEMMA ReadingOf ==
    ASSUME NEW ts, NEW p, NEW i, NEW refs, NEW n, Passes(ts, n), Refers(refs),
           p = Parsed(i, refs, n)
    PROVE  Reading(p, ts) /\ p.took = n
<1>1. p.took = n /\ p.refs = refs
  BY ParsedFields
<1>. QED  BY <1>1 DEF Reading

LEMMA NoRefers == Refers(<<>>)
  BY DEF Refers

LEMMA OneRefers ==
    ASSUME NEW sym \in Symbols, NEW type
    PROVE  Refers(Refer(sym, type))
  BY Zenon DEF Refers

\* A statement begins with the name of its mnemonic.
LEMMA ParseOFacts ==
    ASSUME NEW ts, IsSequence(ts), NEW t, NL \notin {t.name}, NEW p \in ParseO(t, ts)
    PROVE  Reading(p, ts) /\ p.took >= 6
           /\ \E i, refs, n : p = Parsed(i, refs, n)
<1>1. /\ Follow(ts, <<{t.name}>> \o RegComma \o RegComma)
      /\ \/ Token(ts, 6) \in RegisterTokens /\ \E i : p = Parsed(i, <<>>, 6)
         \/ /\ Token(ts, 6) \in RegisterTokens /\ Token(ts, 7) = ","
            /\ \E i : \E x \in ParseShift(ts, 8) : p = Parsed(i, <<>>, x.end)
         \/ /\ Token(ts, 6) = "#" /\ Token(ts, 7) = ":lo12:" /\ IsSymbol(Token(ts, 8))
            /\ \E i : p = Parsed(i, Refer(ts[8], "O_LO12"), 8)
         \/ /\ Token(ts, 6) = "#"
            /\ \E i : \E x \in Expression(ts, 7) : p = Parsed(i, <<>>, x.end)
  BY Zenon DEF ParseO
<1>2. Quiet(ts, 5)
  BY <1>1, FollowLong
<1>3. Len(ts) \in Nat
  BY SequenceFacts
<1>4. ASSUME NEW c, Token(ts, 6) = c, c # NL, c # ""
      PROVE  Quiet(ts, 6) /\ 6 \in 1 .. Len(ts) /\ Passes(ts, 6)
  <2>1. 6 \in 1 .. Len(ts) /\ ts[6] # NL
    BY <1>4, TokenFacts
  <2>. QED  BY <1>2, <2>1, QuietMore, QuietPasses
<1>5. NL \notin RegisterTokens /\ "" \notin RegisterTokens
  BY CalmKinds
<1>6. CASE Token(ts, 6) \in RegisterTokens /\ \E i : p = Parsed(i, <<>>, 6)
  <2>1. PICK i : p = Parsed(i, <<>>, 6)
    BY <1>6
  <2>2. Passes(ts, 6)
    <3>1. Token(ts, 6) \in RegisterTokens
      BY <1>6
    <3>2. Token(ts, 6) # NL /\ Token(ts, 6) # ""
      BY <1>5, <3>1, Zenon
    <3>. QED  BY <1>4, <3>2
  <2>3. Reading(p, ts) /\ p.took = 6
    BY <2>1, <2>2, ReadingOf, NoRefers, Zenon
  <2>. QED  BY <2>1, <2>3
<1>7. CASE /\ Token(ts, 6) \in RegisterTokens /\ Token(ts, 7) = ","
           /\ \E i : \E x \in ParseShift(ts, 8) : p = Parsed(i, <<>>, x.end)
  <2>1. PICK i : \E x \in ParseShift(ts, 8) : p = Parsed(i, <<>>, x.end)
    BY <1>7, Zenon
  <2>2. PICK x \in ParseShift(ts, 8) : p = Parsed(i, <<>>, x.end)
    BY <2>1, Zenon
  <2>3. Quiet(ts, 6)
    <3>1. Token(ts, 6) \in RegisterTokens
      BY <1>7
    <3>2. Token(ts, 6) # NL /\ Token(ts, 6) # ""
      BY <1>5, <3>1, Zenon
    <3>. QED  BY <1>4, <3>2
  <2>4. 7 \in 1 .. Len(ts) /\ ts[7] # NL
    BY <1>7, TokenFacts DEF NL
  <2>5. Quiet(ts, 7)
    BY <2>3, <2>4, QuietMore
  <2>6. x.end \in 10 .. Len(ts) /\ Passes(ts, x.end)
    BY <2>5, ShiftFacts
  <2>7. Reading(p, ts) /\ p.took = x.end
    BY <2>2, <2>6, ReadingOf, NoRefers, Zenon
  <2>8. p.took >= 6
    BY <1>3, <2>6, <2>7
  <2>. QED  BY <2>2, <2>7, <2>8, Zenon
<1>8. CASE /\ Token(ts, 6) = "#" /\ Token(ts, 7) = ":lo12:" /\ IsSymbol(Token(ts, 8))
           /\ \E i : p = Parsed(i, Refer(ts[8], "O_LO12"), 8)
  <2>1. PICK i : p = Parsed(i, Refer(ts[8], "O_LO12"), 8)
    BY <1>8, Zenon
  <2>2. Quiet(ts, 6)
    BY <1>4, <1>8 DEF NL
  <2>3. 7 \in 1 .. Len(ts) /\ ts[7] # NL
    BY <1>8, TokenFacts DEF NL
  <2>4. Quiet(ts, 7)
    BY <2>2, <2>3, QuietMore
  <2>5. 8 \in 1 .. Len(ts) /\ ts[8] \in Symbols
    BY <1>8, SymbolFacts
  <2>6. Passes(ts, 8)
    BY <2>4, <2>5, QuietPasses
  <2>7. Reading(p, ts) /\ p.took = 8
    <3>1. Refers(Refer(ts[8], "O_LO12"))
      BY <2>5, OneRefers, Zenon
    <3>. QED  BY <2>1, <2>6, <3>1, ReadingOf, Zenon
  <2>8. p.took >= 6
    BY <2>7
  <2>. QED  BY <2>1, <2>7, <2>8, Zenon
<1>9. CASE /\ Token(ts, 6) = "#"
           /\ \E i : \E x \in Expression(ts, 7) : p = Parsed(i, <<>>, x.end)
  <2>1. PICK i : \E x \in Expression(ts, 7) : p = Parsed(i, <<>>, x.end)
    BY <1>9, Zenon
  <2>2. PICK x \in Expression(ts, 7) : p = Parsed(i, <<>>, x.end)
    BY <2>1, Zenon
  <2>3. Quiet(ts, 6)
    BY <1>4, <1>9 DEF NL
  <2>4. x.end \in 7 .. Len(ts) /\ Passes(ts, x.end)
    BY <2>3, QuietExpression
  <2>5. Reading(p, ts) /\ p.took = x.end
    BY <2>2, <2>4, ReadingOf, NoRefers, Zenon
  <2>6. p.took >= 6
    BY <1>3, <2>4, <2>5
  <2>. QED  BY <2>2, <2>5, <2>6, Zenon
<1>. QED  BY <1>1, <1>6, <1>7, <1>8, <1>9, Zenon

LEMMA Successor == \A n \in Nat : n + 1 \in Nat \ {0}
  OBVIOUS

LEMMA NextQuiet ==
    ASSUME NEW ts, IsSequence(ts), NEW n \in Nat, Quiet(ts, n),
           Token(ts, n + 1) # NL, Token(ts, n + 1) # ""
    PROVE  Quiet(ts, n + 1) /\ n + 1 \in 1 .. Len(ts) /\ Passes(ts, n + 1)
<1>1. n + 1 \in 1 .. Len(ts) /\ ts[n + 1] # NL
  BY TokenFacts
<1>2. Quiet(ts, n + 1)
  BY <1>1, QuietMore
<1>3. n + 1 \in Nat \ {0}
  BY Successor, Zenon
<1>. QED  BY <1>1, <1>2, <1>3, QuietPasses

LEMMA NextRegister ==
    ASSUME NEW ts, IsSequence(ts), NEW n \in Nat, Quiet(ts, n), Token(ts, n + 1) \in RegisterTokens
    PROVE  Quiet(ts, n + 1) /\ n + 1 \in 1 .. Len(ts) /\ Passes(ts, n + 1)
<1>1. Token(ts, n + 1) # NL /\ Token(ts, n + 1) # ""
  BY CalmKinds, Zenon
<1>. QED  BY <1>1, NextQuiet

LEMMA NextSymbol ==
    ASSUME NEW ts, IsSequence(ts), NEW n \in Nat \ {0}, Quiet(ts, n), IsSymbol(Token(ts, n + 1))
    PROVE  Passes(ts, n + 1) /\ \A type : Refers(Refer(ts[n + 1], type))
<1>1. n + 1 \in 1 .. Len(ts) /\ ts[n + 1] \in Symbols
  BY SymbolFacts
<1>2. Passes(ts, n + 1)
  BY <1>1, QuietPasses
<1>3. \A type : Refers(Refer(ts[n + 1], type))
  BY <1>1, OneRefers, Zenon
<1>. QED  BY <1>2, <1>3

\* One lemma for each parser: the tokens it takes are no scopes, and the instruction refers to symbols only.
LEMMA ParseO1Facts ==
    ASSUME NEW ts, IsSequence(ts), NEW t, NL \notin {t.name}, NEW p \in ParseO1(t, ts)
    PROVE  Reading(p, ts)
<1>1. /\ Follow(ts, <<{t.name}>> \o RegComma \o RegComma)
      /\ \/ Token(ts, 6) \in RegisterTokens /\ \E i : p = Parsed(i, <<>>, 6)
         \/ Token(ts, 6) = "#" /\ \E i : \E x \in Expression(ts, 7) : p = Parsed(i, <<>>, x.end)
  BY Zenon DEF ParseO1
<1>2. Quiet(ts, 5)
  BY <1>1, FollowLong
<1>3. CASE Token(ts, 6) \in RegisterTokens /\ \E i : p = Parsed(i, <<>>, 6)
  <2>1. Passes(ts, 6)
    <3>1. Token(ts, 5 + 1) \in RegisterTokens /\ 5 + 1 = 6
      BY <1>3
    <3>. QED  BY <1>2, <3>1, NextRegister
  <2>. QED  BY <1>3, <2>1, ReadingOf, NoRefers, Zenon
<1>4. CASE Token(ts, 6) = "#" /\ \E i : \E x \in Expression(ts, 7) : p = Parsed(i, <<>>, x.end)
  <2>1. PICK i : \E x \in Expression(ts, 7) : p = Parsed(i, <<>>, x.end)
    BY <1>4, Zenon
  <2>2. PICK x \in Expression(ts, 7) : p = Parsed(i, <<>>, x.end)
    BY <2>1, Zenon
  <2>3. Quiet(ts, 6)
    <3>1. Token(ts, 6) # NL /\ Token(ts, 6) # ""
      BY <1>4 DEF NL
    <3>2. 5 \in Nat /\ 5 + 1 = 6
      OBVIOUS
    <3>. QED  BY <1>2, <3>1, <3>2, NextQuiet
  <2>4. Passes(ts, x.end)
    BY <2>3, QuietExpression
  <2>. QED  BY <2>2, <2>4, ReadingOf, NoRefers, Zenon
<1>. QED  BY <1>1, <1>3, <1>4, Zenon

LEMMA ParseO2Facts ==
    ASSUME NEW ts, IsSequence(ts), NEW t, NL \notin {t.name}, NEW p \in ParseO2(t, ts)
    PROVE  Reading(p, ts)
<1>1. /\ Follow(ts, <<{t.name}>> \o RegComma \o RegComma \o RegComma \o <<RegisterTokens>>)
      /\ \E i : p = Parsed(i, <<>>, 8)
  BY Zenon DEF ParseO2
<1>2. Quiet(ts, 8)
  <2>. DEFINE one == <<{t.name}>>
              last == <<RegisterTokens>>
  <2>1. Calm(one) /\ Len(one) = 1
    BY CalmOne, Zenon
  <2>2. Calm(last) /\ Len(last) = 1
    BY CalmOne, CalmKinds, Zenon
  <2>3. Calm(RegComma) /\ Len(RegComma) = 2
    BY CalmKinds, Zenon
  <2>. HIDE DEF one, last
  <2>4. Calm(one \o RegComma) /\ Len(one \o RegComma) = Len(one) + Len(RegComma)
    BY <2>1, <2>3, CalmJoined, Zenon
  <2>5. /\ Calm(one \o RegComma \o RegComma)
        /\ Len(one \o RegComma \o RegComma) = Len(one \o RegComma) + Len(RegComma)
    BY <2>3, <2>4, CalmJoined, Zenon
  <2>6. /\ Calm(one \o RegComma \o RegComma \o RegComma)
        /\ Len(one \o RegComma \o RegComma \o RegComma)
             = Len(one \o RegComma \o RegComma) + Len(RegComma)
    BY <2>3, <2>5, CalmJoined, Zenon
  <2>7. /\ Calm(one \o RegComma \o RegComma \o RegComma \o last)
        /\ Len(one \o RegComma \o RegComma \o RegComma \o last)
             = Len(one \o RegComma \o RegComma \o RegComma) + Len(last)
    BY <2>2, <2>6, CalmJoined, Zenon
  <2>8. Len(one \o RegComma \o RegComma \o RegComma \o last) = 8
    BY <2>1, <2>2, <2>3, <2>4, <2>5, <2>6, <2>7
  <2>9. Quiet(ts, Len(one \o RegComma \o RegComma \o RegComma \o last))
    BY <1>1, <2>7, FollowQuiet, Zenon DEF one, last
  <2>. QED  BY <2>8, <2>9, Zenon
<1>3. Passes(ts, 8)
  BY <1>2, QuietPasses
<1>. QED  BY <1>1, <1>3, ReadingOf, NoRefers, Zenon

LEMMA ParseO3Facts ==
    ASSUME NEW ts, IsSequence(ts), NEW t, NL \notin {t.name}, NEW p \in ParseO3(t, ts)
    PROVE  Reading(p, ts)
<1>1. /\ Follow(ts, <<{t.name}>> \o RegComma)
      /\ \/ Token(ts, 4) \in RegisterTokens /\ \E i : p = Parsed(i, <<>>, 4)
         \/ /\ Token(ts, 4) \in RegisterTokens /\ Token(ts, 5) = "#"
            /\ \E i : \E x \in Expression(ts, 6) : p = Parsed(i, <<>>, x.end)
         \/ /\ Token(ts, 4) \in {":lo19:", ":hi13:"} /\ IsSymbol(Token(ts, 5))
            /\ \E i, type : p = Parsed(i, Refer(ts[5], type), 5)
         \/ Token(ts, 4) = "#" /\ \E i : \E x \in Expression(ts, 5) : p = Parsed(i, <<>>, x.end)
  BY Zenon DEF ParseO3
<1>2. Quiet(ts, 3)
  <2>. DEFINE one == <<{t.name}>>
  <2>1. Calm(one) /\ Len(one) = 1 /\ Calm(RegComma) /\ Len(RegComma) = 2
    BY CalmOne, CalmKinds, Zenon
  <2>. HIDE DEF one
  <2>2. Calm(one \o RegComma) /\ Len(one \o RegComma) = Len(one) + Len(RegComma)
    BY <2>1, CalmJoined, Zenon
  <2>3. Quiet(ts, Len(one \o RegComma))
    BY <1>1, <2>2, FollowQuiet, Zenon DEF one
  <2>4. Len(one \o RegComma) = 3
    BY <2>1, <2>2
  <2>. QED  BY <2>3, <2>4, Zenon
<1>3. 3 + 1 = 4 /\ 4 + 1 = 5 /\ 3 \in Nat /\ 4 \in Nat
  OBVIOUS
<1>4. Token(ts, 4) \in RegisterTokens => Quiet(ts, 4) /\ Passes(ts, 4)
  BY <1>2, <1>3, NextRegister
<1>5. Token(ts, 4) \in {":lo19:", ":hi13:", "#"} => Quiet(ts, 4)
  <2>1. Token(ts, 4) \in {":lo19:", ":hi13:", "#"} => Token(ts, 4) # NL /\ Token(ts, 4) # ""
    BY DEF NL
  <2>. QED  BY <1>2, <1>3, <2>1, NextQuiet
<1>6. CASE Token(ts, 4) \in RegisterTokens /\ \E i : p = Parsed(i, <<>>, 4)
  BY <1>4, <1>6, ReadingOf, NoRefers, Zenon
<1>7. CASE /\ Token(ts, 4) \in RegisterTokens /\ Token(ts, 5) = "#"
           /\ \E i : \E x \in Expression(ts, 6) : p = Parsed(i, <<>>, x.end)
  <2>1. PICK i : \E x \in Expression(ts, 6) : p = Parsed(i, <<>>, x.end)
    BY <1>7, Zenon
  <2>2. PICK x \in Expression(ts, 6) : p = Parsed(i, <<>>, x.end)
    BY <2>1, Zenon
  <2>3. Quiet(ts, 5)
    <3>1. Token(ts, 5) # NL /\ Token(ts, 5) # ""
      BY <1>7 DEF NL
    <3>2. Quiet(ts, 4)
      BY <1>4, <1>7, Zenon
    <3>. QED  BY <1>3, <3>1, <3>2, NextQuiet
  <2>4. Passes(ts, x.end)
    BY <2>3, QuietExpression
  <2>. QED  BY <2>2, <2>4, ReadingOf, NoRefers, Zenon
<1>8. CASE /\ Token(ts, 4) \in {":lo19:", ":hi13:"} /\ IsSymbol(Token(ts, 5))
           /\ \E i, type : p = Parsed(i, Refer(ts[5], type), 5)
  <2>1. Quiet(ts, 4)
    BY <1>5, <1>8
  <2>2. IsSymbol(Token(ts, 5))
    BY <1>8, Zenon
  <2>3. Passes(ts, 5) /\ \A type : Refers(Refer(ts[5], type))
    BY <1>3, <2>1, <2>2, NextSymbol
  <2>. QED  BY <1>8, <2>3, ReadingOf, Zenon
<1>9. CASE Token(ts, 4) = "#" /\ \E i : \E x \in Expression(ts, 5) : p = Parsed(i, <<>>, x.end)
  <2>1. PICK i : \E x \in Expression(ts, 5) : p = Parsed(i, <<>>, x.end)
    BY <1>9, Zenon
  <2>2. PICK x \in Expression(ts, 5) : p = Parsed(i, <<>>, x.end)
    BY <2>1, Zenon
  <2>3. Quiet(ts, 4)
    BY <1>5, <1>9
  <2>4. Passes(ts, x.end)
    BY <2>3, QuietExpression
  <2>. QED  BY <2>2, <2>4, ReadingOf, NoRefers, Zenon
<1>. QED  BY <1>1, <1>6, <1>7, <1>8, <1>9, Zenon

\* A load or a store: a register, its base and an offset.
LEMMA ParseMFacts ==
    ASSUME NEW ts, IsSequence(ts), NEW t, NL \notin {t.name}, NEW p \in ParseM(t, ts)
    PROVE  Reading(p, ts)
<1>. DEFINE closed == Token(ts, 6) = "]"
            k == IF closed THEN 7 ELSE 6
<1>1. /\ Follow(ts, <<{t.name}>> \o RegComma \o <<{"["}, RegisterTokens>>)
      /\ \/ \E i : p = Parsed(i, <<>>, k - 1)
         \/ /\ Token(ts, k) = "," /\ Token(ts, k + 1) = "#"
            /\ \E i : \E x \in Expression(ts, k + 2) :
                 Token(ts, x.end + 1) = "]" /\ p = Parsed(i, <<>>, x.end + 1)
         \/ /\ Token(ts, k) = "," /\ Token(ts, k + 1) \in RegisterTokens
            /\ Token(ts, k + 1 + 1) = "]" /\ \E i : p = Parsed(i, <<>>, k + 2)
         \/ /\ Token(ts, k) = "," /\ Token(ts, k + 1) \in RegisterTokens /\ Token(ts, k + 2) = ","
            /\ \E i : \E x \in ParseShift(ts, k + 3) :
                 Token(ts, x.end + 1) = "]" /\ p = Parsed(i, <<>>, x.end + 1)
  BY Zenon DEF ParseM
<1>2. Quiet(ts, 5)
  <2>. DEFINE kinds == <<{"["}, RegisterTokens>>
  <2>1. Calm(kinds) /\ Len(kinds) = 2
    BY CalmTwo, CalmKinds, Zenon
  <2>. HIDE DEF kinds
  <2>2. Quiet(ts, 3 + Len(kinds))
    BY <1>1, <2>1, FollowShort, Zenon DEF kinds
  <2>3. 3 + Len(kinds) = 5
    BY <2>1
  <2>. QED  BY <2>2, <2>3, Zenon
<1>3. k \in Nat /\ k >= 6 /\ k - 1 \in Nat \ {0} /\ (k - 1) + 1 = k /\ k + 1 + 1 = k + 2 /\ k + 2 + 1 = k + 3
  OBVIOUS
<1>4. Quiet(ts, k - 1)
  <2>1. CASE closed
    <3>1. Token(ts, 6) # NL /\ Token(ts, 6) # ""
      BY <2>1 DEF NL
    <3>3. k - 1 = 6
      BY <2>1
    <3>2. Quiet(ts, 6)
      <4>1. 5 \in Nat /\ 5 + 1 = 6
        OBVIOUS
      <4>. QED  BY <1>2, <3>1, <4>1, NextQuiet
    <3>. QED  BY <3>2, <3>3
  <2>2. CASE ~closed
    <3>1. k - 1 = 5
      BY <2>2
    <3>. QED  BY <1>2, <3>1
  <2>. QED  BY <2>1, <2>2
<1>. HIDE DEF k, closed
<1>5. Token(ts, k) = "," => Quiet(ts, k)
  <2>1. Token(ts, k) = "," => Token(ts, k) # NL /\ Token(ts, k) # ""
    BY DEF NL
  <2>. DEFINE m == k - 1
  <2>2. m \in Nat /\ m + 1 = k /\ Quiet(ts, m)
    BY <1>3, <1>4
  <2>. HIDE DEF m
  <2>. QED  BY <2>1, <2>2, NextQuiet
<1>6. CASE \E i : p = Parsed(i, <<>>, k - 1)
  <2>1. Passes(ts, k - 1)
    BY <1>3, <1>4, QuietPasses
  <2>. QED  BY <1>6, <2>1, ReadingOf, NoRefers, Zenon
<1>7. ASSUME NEW e \in Nat, Passes(ts, e), Token(ts, e + 1) = "]"
      PROVE  Passes(ts, e + 1)
  <2>1. Token(ts, e + 1) # "" /\ Token(ts, e + 1) \notin ScopeTokens
    BY <1>7 DEF ScopeTokens
  <2>2. e + 1 \in 1 .. Len(ts) /\ ts[e + 1] \notin ScopeTokens
    BY <2>1, TokenFacts
  <2>. QED  BY <1>7, <2>2, PassesMore
<1>8. CASE /\ Token(ts, k) = "," /\ Token(ts, k + 1) = "#"
           /\ \E i : \E x \in Expression(ts, k + 2) :
                Token(ts, x.end + 1) = "]" /\ p = Parsed(i, <<>>, x.end + 1)
  <2>1. PICK i : \E x \in Expression(ts, k + 2) :
                   Token(ts, x.end + 1) = "]" /\ p = Parsed(i, <<>>, x.end + 1)
    BY <1>8, Zenon
  <2>2. PICK x \in Expression(ts, k + 2) :
               Token(ts, x.end + 1) = "]" /\ p = Parsed(i, <<>>, x.end + 1)
    BY <2>1, Zenon
  <2>3. Quiet(ts, k + 1)
    <3>1. Token(ts, k + 1) # NL /\ Token(ts, k + 1) # ""
      BY <1>8 DEF NL
    <3>. QED  BY <1>3, <1>5, <1>8, <3>1, NextQuiet
  <2>4. x.end \in Nat /\ Passes(ts, x.end)
    <3>1. k + 2 \in Nat /\ k + 2 >= 2 /\ (k + 2) - 1 = k + 1
      BY <1>3
    <3>2. x.end \in k + 2 .. Len(ts) /\ Passes(ts, x.end)
      BY <2>3, <3>1, QuietExpression
    <3>. QED  BY <1>3, <3>2
  <2>5. Passes(ts, x.end + 1)
    BY <1>7, <2>2, <2>4
  <2>. QED  BY <2>2, <2>5, ReadingOf, NoRefers, Zenon
<1>9. CASE /\ Token(ts, k) = "," /\ Token(ts, k + 1) \in RegisterTokens
           /\ Token(ts, k + 1 + 1) = "]" /\ \E i : p = Parsed(i, <<>>, k + 2)
  <2>1. Passes(ts, k + 1)
    BY <1>3, <1>5, <1>9, NextRegister
  <2>2. Passes(ts, (k + 1) + 1)
    <3>1. k + 1 \in Nat
      BY <1>3
    <3>. QED  BY <1>7, <1>9, <2>1, <3>1
  <2>3. Passes(ts, k + 2)
    BY <1>3, <2>2
  <2>. QED  BY <1>9, <2>3, ReadingOf, NoRefers, Zenon
<1>10. CASE /\ Token(ts, k) = "," /\ Token(ts, k + 1) \in RegisterTokens /\ Token(ts, k + 2) = ","
            /\ \E i : \E x \in ParseShift(ts, k + 3) :
                 Token(ts, x.end + 1) = "]" /\ p = Parsed(i, <<>>, x.end + 1)
  <2>1. PICK i : \E x \in ParseShift(ts, k + 3) :
                   Token(ts, x.end + 1) = "]" /\ p = Parsed(i, <<>>, x.end + 1)
    BY <1>10, Zenon
  <2>2. PICK x \in ParseShift(ts, k + 3) :
               Token(ts, x.end + 1) = "]" /\ p = Parsed(i, <<>>, x.end + 1)
    BY <2>1, Zenon
  <2>3. Quiet(ts, k + 1)
    BY <1>3, <1>5, <1>10, NextRegister
  <2>4. Quiet(ts, k + 2)
    <3>1. Token(ts, k + 2) # NL /\ Token(ts, k + 2) # ""
      BY <1>10 DEF NL
    <3>2. k + 1 \in Nat /\ (k + 1) + 1 = k + 2
      BY <1>3
    <3>. QED  BY <2>3, <3>1, <3>2, NextQuiet
  <2>5. x.end \in Nat /\ Passes(ts, x.end)
    <3>1. k + 3 \in Nat /\ k + 3 >= 2 /\ (k + 3) - 1 = k + 2
      BY <1>3
    <3>2. x.end \in (k + 3) + 2 .. Len(ts) /\ Passes(ts, x.end)
      BY <2>4, <3>1, ShiftFacts
    <3>. QED  BY <1>3, <3>2
  <2>6. Passes(ts, x.end + 1)
    BY <1>7, <2>2, <2>5
  <2>. QED  BY <2>2, <2>6, ReadingOf, NoRefers, Zenon
<1>. QED  BY <1>1, <1>6, <1>8, <1>9, <1>10, Zenon

LEMMA ParseM1Facts ==
    ASSUME NEW ts, IsSequence(ts), NEW t, NL \notin {t.name}, NEW p \in ParseM1(t, ts)
    PROVE  Reading(p, ts)
<1>1. /\ Follow(ts, <<{t.name}>> \o RegComma \o RegComma \o <<{"["}, RegisterTokens, {"["}>>)
      /\ \E i : p = Parsed(i, <<>>, 8)
  BY Zenon DEF ParseM1
<1>2. Quiet(ts, 8)
  <2>. DEFINE one == <<{t.name}>>
              last == <<{"["}, RegisterTokens, {"["}>>
  <2>1. Calm(one) /\ Len(one) = 1
    BY CalmOne, Zenon
  <2>2. Calm(last) /\ Len(last) = 3
    BY CalmThree, CalmKinds, Zenon
  <2>3. Calm(RegComma) /\ Len(RegComma) = 2
    BY CalmKinds, Zenon
  <2>. HIDE DEF one, last
  <2>4. Calm(one \o RegComma) /\ Len(one \o RegComma) = Len(one) + Len(RegComma)
    BY <2>1, <2>3, CalmJoined, Zenon
  <2>5. /\ Calm(one \o RegComma \o RegComma)
        /\ Len(one \o RegComma \o RegComma) = Len(one \o RegComma) + Len(RegComma)
    BY <2>3, <2>4, CalmJoined, Zenon
  <2>6. /\ Calm(one \o RegComma \o RegComma \o last)
        /\ Len(one \o RegComma \o RegComma \o last) = Len(one \o RegComma \o RegComma) + Len(last)
    BY <2>2, <2>5, CalmJoined, Zenon
  <2>7. Len(one \o RegComma \o RegComma \o last) = 8
    BY <2>1, <2>2, <2>3, <2>4, <2>5, <2>6
  <2>8. Quiet(ts, Len(one \o RegComma \o RegComma \o last))
    BY <1>1, <2>6, FollowQuiet, Zenon DEF one, last
  <2>. QED  BY <2>7, <2>8, Zenon
<1>3. Passes(ts, 8)
  BY <1>2, QuietPasses
<1>. QED  BY <1>1, <1>3, ReadingOf, NoRefers, Zenon

LEMMA ParseM2Facts ==
    ASSUME NEW ts, IsSequence(ts), NEW t, NL \notin {t.name}, NEW p \in ParseM2(t, ts)
    PROVE  Reading(p, ts)
<1>. DEFINE k == IF Token(ts, 5) = ":hi20:" THEN 6 ELSE 5
<1>1. /\ Follow(ts, <<{t.name}>> \o RegComma \o <<{"#"}>>) /\ IsSymbol(Token(ts, k))
      /\ \E i : p = Parsed(i, Refer(ts[k], "ADRP_HI20"), k)
  BY Zenon DEF ParseM2
<1>2. Quiet(ts, 4)
  <2>. DEFINE kinds == <<{"#"}>>
  <2>1. Calm(kinds) /\ Len(kinds) = 1
    BY CalmOne, CalmKinds, Zenon
  <2>. HIDE DEF kinds
  <2>2. Quiet(ts, 3 + Len(kinds))
    BY <1>1, <2>1, FollowShort, Zenon DEF kinds
  <2>3. 3 + Len(kinds) = 4
    BY <2>1
  <2>. QED  BY <2>2, <2>3, Zenon
<1>3. PICK m \in Nat \ {0} : k = m + 1 /\ Quiet(ts, m)
  <2>1. CASE Token(ts, 5) = ":hi20:"
    <3>1. Token(ts, 5) # NL /\ Token(ts, 5) # ""
      BY <2>1 DEF NL
    <3>3. k = 5 + 1 /\ 5 \in Nat \ {0}
      BY <2>1
    <3>2. Quiet(ts, 5)
      <4>1. 4 \in Nat /\ 4 + 1 = 5
        OBVIOUS
      <4>. QED  BY <1>2, <3>1, <4>1, NextQuiet
    <3>. QED  BY <3>2, <3>3
  <2>2. CASE Token(ts, 5) # ":hi20:"
    <3>1. k = 4 + 1 /\ 4 \in Nat \ {0}
      BY <2>2
    <3>. QED  BY <1>2, <3>1
  <2>. QED  BY <2>1, <2>2
<1>. HIDE DEF k
<1>4. IsSymbol(Token(ts, m + 1))
  BY <1>1, <1>3, Zenon
<1>5. Passes(ts, m + 1) /\ \A type : Refers(Refer(ts[m + 1], type))
  BY <1>3, <1>4, NextSymbol
<1>6. PICK i : p = Parsed(i, Refer(ts[k], "ADRP_HI20"), k)
  BY <1>1, Zenon
<1>7. Passes(ts, k) /\ Refers(Refer(ts[k], "ADRP_HI20"))
  BY <1>3, <1>5, Zenon
<1>. QED  BY <1>6, <1>7, ReadingOf, Zenon

LEMMA ThreeSequence ==
    ASSUME NEW A, NEW B, NEW C
    PROVE  IsSequence(<<A, B, C>>) /\ Len(<<A, B, C>>) = 3
<1>1. <<A, B, C>> \in Seq({A, B, C}) /\ Len(<<A, B, C>>) = 3
  OBVIOUS
<1>. QED  BY <1>1, Zenon DEF IsSequence

LEMMA Spliced ==
    ASSUME NEW ts, IsSequence(ts), Len(ts) >= 1, NEW begin, IsSequence(begin), Len(begin) = 3
    PROVE  /\ IsSequence(begin \o Tail(ts)) /\ Len(begin \o Tail(ts)) = Len(ts) + 2
           /\ \A k \in 4 .. Len(ts) + 2 : (begin \o Tail(ts))[k] = ts[k - 2]
<1>. DEFINE end == Tail(ts)
<1>1. Len(ts) \in Nat /\ ts \in Seq(ToSet(ts)) /\ DOMAIN ts = 1 .. Len(ts)
  BY SequenceFacts
<1>2. ts # <<>>
  BY <1>1, EmptySequence
<1>3. /\ IsSequence(end) /\ Len(end) = Len(ts) - 1
      /\ \A k \in 1 .. Len(ts) - 1 : end[k] = ts[k + 1]
  <2>1. /\ Tail(ts) \in Seq(ToSet(ts)) /\ Len(Tail(ts)) = Len(ts) - 1
        /\ \A k \in 1 .. Len(Tail(ts)) : Tail(ts)[k] = ts[k + 1]
    BY <1>1, <1>2, HeadTailProperties
  <2>. QED  BY <2>1 DEF IsSequence
<1>. HIDE DEF end
<1>4. /\ IsSequence(begin \o end) /\ Len(begin \o end) = Len(begin) + Len(end)
      /\ \A k \in 1 .. Len(begin) + Len(end) :
            (begin \o end)[k] = IF k <= Len(begin) THEN begin[k] ELSE end[k - Len(begin)]
  BY <1>3, JoinedSequence, Zenon
<1>5. Len(begin) + Len(end) = Len(ts) + 2
  BY <1>1, <1>3
<1>6. ASSUME NEW k \in 4 .. Len(ts) + 2 PROVE (begin \o end)[k] = ts[k - 2]
  <2>1. k \in 1 .. Len(ts) + 2 /\ ~(k <= 3) /\ k - 3 \in 1 .. Len(ts) - 1 /\ (k - 3) + 1 = k - 2
    BY <1>1
  <2>. QED  BY <1>3, <1>4, <1>5, <2>1
<1>. QED  BY <1>4, <1>5, <1>6 DEF end

\* A comparison has no destination.
LEMMA ParseCompareFacts ==
    ASSUME NEW ts, IsSequence(ts), Len(ts) >= 1, NEW t, NL \notin {t.name}, ts[1] = t.name,
           NEW p \in ParseCompare(t, ts)
    PROVE  Reading(p, ts)
<1>. DEFINE first == ts[1]
            begin == <<first, "xzr", ",">>
            us == begin \o Tail(ts)
<1>1. \E q \in ParseO(t, us) : p = [q EXCEPT !.took = @ - 2]
  BY Zenon DEF ParseCompare
<1>2. PICK q \in ParseO(t, us) : p = [q EXCEPT !.took = @ - 2]
  BY <1>1, Zenon
<1>3. Len(ts) \in Nat /\ ts \in Seq(ToSet(ts)) /\ DOMAIN ts = 1 .. Len(ts)
  BY SequenceFacts
<1>4. /\ IsSequence(begin) /\ Len(begin) = 3
  BY ThreeSequence, Zenon
<1>. HIDE DEF begin
<1>7. /\ IsSequence(us) /\ Len(us) = Len(ts) + 2
      /\ \A k \in 4 .. Len(ts) + 2 : us[k] = ts[k - 2]
  BY <1>4, Spliced, Zenon
<1>. HIDE DEF us
<1>8. /\ Reading(q, us) /\ q.took >= 6
      /\ \E i, refs, n : q = Parsed(i, refs, n)
  BY <1>7, ParseOFacts
<1>9. PICK i, refs, n : q = Parsed(i, refs, n)
  BY <1>8
<1>10. q.took = n /\ q.refs = refs
  BY <1>9, ParsedFields
<1>11. p = Parsed(i, refs, n - 2)
  BY <1>2, <1>9 DEF Parsed
<1>12. Passes(us, n) /\ n >= 6 /\ Refers(refs)
  BY <1>8, <1>10, Zenon DEF Reading
<1>13. Passes(ts, n - 2)
  <2>1. n \in 1 .. Len(ts) + 2 /\ \A j \in 2 .. n : us[j] \in ScopeTokens => us[j - 1] # NL
    BY <1>7, <1>12 DEF Passes
  <2>2. n - 2 \in 1 .. Len(ts)
    BY <1>3, <1>12, <2>1
  <2>3. ASSUME NEW j \in 2 .. n - 2, ts[j] \in ScopeTokens PROVE ts[j - 1] # NL
    <3>1. j + 2 \in 2 .. n /\ j + 2 \in 4 .. Len(ts) + 2 /\ (j + 2) - 2 = j
      BY <1>3, <2>1
    <3>2. us[j + 2] = ts[j]
      BY <1>7, <3>1
    <3>3. us[(j + 2) - 1] # NL
      BY <2>1, <2>3, <3>1, <3>2
    <3>4. CASE j = 2
      BY <3>4, NL \notin {t.name}, ts[1] = t.name
    <3>5. CASE j # 2
      <4>1. (j + 2) - 1 \in 4 .. Len(ts) + 2 /\ ((j + 2) - 1) - 2 = j - 1
        BY <1>3, <2>1, <3>5
      <4>2. us[(j + 2) - 1] = ts[j - 1]
        BY <1>7, <4>1
      <4>. QED  BY <3>3, <4>2
    <3>. QED  BY <3>4, <3>5
  <2>. QED  BY <2>2, <2>3 DEF Passes
<1>14. Reading(p, ts) /\ p.took = n - 2
  <2>. DEFINE m == n - 2
  <2>. HIDE DEF m
  <2>1. p = Parsed(i, refs, m) /\ Passes(ts, m) /\ Refers(refs)
    BY <1>11, <1>12, <1>13 DEF m
  <2>. QED  BY <2>1, ReadingOf, Zenon DEF m
<1>. QED  BY <1>14

\* Where a condition ends.
LEMMA CondFacts ==
    ASSUME NEW ts, IsSequence(ts), Len(ts) >= 1, ts[1] # NL, NEW c \in Cond(ts)
    PROVE  c.k \in Nat \ {0} /\ c.k <= Len(ts) /\ Quiet(ts, c.k)
<1>1. Len(ts) \in Nat
  BY SequenceFacts
<1>2. Quiet(ts, 1)
  BY <1>1 DEF Quiet
<1>3. \/ c = [cond |-> "al", k |-> 1]
      \/ /\ Token(ts, 2) = "." /\ Token(ts, 3) \in CondNames
         /\ \E d : c = [cond |-> d, k |-> 3]
  BY Zenon DEF Cond
<1>4. CASE c = [cond |-> "al", k |-> 1]
  <2>1. c.k = 1
    BY <1>4
  <2>. QED  BY <1>1, <1>2, <2>1
<1>5. CASE /\ Token(ts, 2) = "." /\ Token(ts, 3) \in CondNames
           /\ \E d : c = [cond |-> d, k |-> 3]
  <2>1. c.k = 3
    <3>1. PICK d : c = [cond |-> d, k |-> 3]
      BY <1>5
    <3>. QED  BY <3>1
  <2>2. Token(ts, 2) # NL /\ Token(ts, 2) # ""
    BY <1>5 DEF NL
  <2>3. Quiet(ts, 2)
    <3>1. 1 \in Nat /\ 1 + 1 = 2
      OBVIOUS
    <3>. QED  BY <1>2, <2>2, <3>1, NextQuiet
  <2>4. NL \notin CondNames /\ "" \notin CondNames
    <3>1. ToSet(Conds) = {"eq", "ne", "cs", "cc", "mi", "pl", "vs", "vc",
                          "hi", "ls", "ge", "lt", "gt", "le", "al", "nv"}
      BY DEF ToSet, Conds
    <3>. QED  BY <3>1 DEF CondNames, NL
  <2>5. Token(ts, 3) # NL /\ Token(ts, 3) # ""
    BY <1>5, <2>4, Zenon
  <2>6. Quiet(ts, 3) /\ 3 \in 1 .. Len(ts)
    <3>1. 2 \in Nat /\ 2 + 1 = 3
      OBVIOUS
    <3>. QED  BY <2>3, <2>5, <3>1, NextQuiet
  <2>. QED  BY <1>1, <2>1, <2>6
<1>. QED  BY <1>3, <1>4, <1>5, Zenon

\* A jump to a label.
LEMMA ParseB1Facts ==
    ASSUME NEW ts, IsSequence(ts), Len(ts) >= 1, ts[1] # NL, NEW t, NEW p \in ParseB1(t, ts)
    PROVE  Reading(p, ts)
<1>1. \E c \in Cond(ts) :
        \/ /\ IsSymbol(Token(ts, c.k + 1))
           /\ \E i : p = Parsed(i, Refer(ts[c.k + 1], "B_OFFSET22"), c.k + 1)
        \/ \E x \in Expression(ts, c.k + 1) : \E i : p = Parsed(i, <<>>, x.end)
  BY Zenon DEF ParseB1
<1>2. PICK c \in Cond(ts) :
        \/ /\ IsSymbol(Token(ts, c.k + 1))
           /\ \E i : p = Parsed(i, Refer(ts[c.k + 1], "B_OFFSET22"), c.k + 1)
        \/ \E x \in Expression(ts, c.k + 1) : \E i : p = Parsed(i, <<>>, x.end)
  BY <1>1, Zenon
<1>. DEFINE k == c.k
<1>3. k \in Nat \ {0} /\ Quiet(ts, k)
  BY CondFacts
<1>4. CASE /\ IsSymbol(Token(ts, c.k + 1))
           /\ \E i : p = Parsed(i, Refer(ts[c.k + 1], "B_OFFSET22"), c.k + 1)
  <2>. HIDE DEF k
  <2>1. IsSymbol(Token(ts, k + 1))
    BY <1>4, Zenon DEF k
  <2>2. Passes(ts, k + 1) /\ \A type : Refers(Refer(ts[k + 1], type))
    BY <1>3, <2>1, NextSymbol
  <2>. QED  BY <1>4, <2>2, ReadingOf, Zenon DEF k
<1>5. CASE \E x \in Expression(ts, c.k + 1) : \E i : p = Parsed(i, <<>>, x.end)
  <2>. HIDE DEF k
  <2>1. PICK x \in Expression(ts, k + 1) : \E i : p = Parsed(i, <<>>, x.end)
    BY <1>5, Zenon DEF k
  <2>2. k + 1 \in Nat /\ k + 1 >= 2 /\ (k + 1) - 1 = k
    BY <1>3
  <2>3. Passes(ts, x.end)
    BY <1>3, <2>2, QuietExpression
  <2>. QED  BY <2>1, <2>3, ReadingOf, NoRefers, Zenon
<1>. QED  BY <1>2, <1>4, <1>5, Zenon

\* A jump to a register.
LEMMA ParseB2Facts ==
    ASSUME NEW ts, IsSequence(ts), Len(ts) >= 1, ts[1] # NL, NEW t, NEW p \in ParseB2(t, ts)
    PROVE  Reading(p, ts)
<1>1. \E c \in Cond(ts) : /\ Token(ts, c.k + 1) \in RegisterTokens
                          /\ \E i : p = Parsed(i, <<>>, c.k + 1)
  BY Zenon DEF ParseB2
<1>2. PICK c \in Cond(ts) : /\ Token(ts, c.k + 1) \in RegisterTokens
                            /\ \E i : p = Parsed(i, <<>>, c.k + 1)
  BY <1>1, Zenon
<1>. DEFINE k == c.k
<1>3. k \in Nat \ {0} /\ Quiet(ts, k)
  BY CondFacts
<1>. HIDE DEF k
<1>4. Token(ts, k + 1) \in RegisterTokens
  BY <1>2, Zenon DEF k
<1>5. Passes(ts, k + 1)
  BY <1>3, <1>4, NextRegister
<1>. QED  BY <1>2, <1>5, ReadingOf, NoRefers, Zenon DEF k

-----------------------------------------------------------------------------
(* Mnemonics. *)

Operations ==
    Adders \cup Subbers \cup Logicals \cup {"mul"} \cup Compares \cup Shifts \cup LongMuls \cup Moves
    \cup Loads \cup Stores \cup Swaps \cup {"adrp"} \cup Jumps \cup {"swi"} \cup RegJumps \cup {"hlt"}

LEMMA ThreeFields ==
    ASSUME NEW a, NEW b, NEW c, NEW t, t = [name |-> a, op |-> b, s |-> c]
    PROVE  t.name = a /\ t.op = b
  OBVIOUS

LEMMA MnemonicFacts ==
    ASSUME NEW t \in Mnemonics
    PROVE  t.name # NL /\ t.name \notin ScopeTokens /\ t.op \in Operations
<1>1. \/ \E op \in DOMAIN Opcode \ {"vabs", "vmov", "nop"} : t = [name |-> op, op |-> op, s |-> FALSE]
      \/ t = [name |-> "adds", op |-> "add", s |-> TRUE]
      \/ t = [name |-> "subs", op |-> "sub", s |-> TRUE]
      \/ t = [name |-> "movs", op |-> "mov", s |-> TRUE]
      \/ t = [name |-> "ldrsb", op |-> "ldrb", s |-> TRUE]
  BY Zenon DEF Mnemonics
<1>2. \/ \E op \in DOMAIN Opcode \ {"vabs", "vmov", "nop"} : t.name = op /\ t.op = op
      \/ t.name = "adds" /\ t.op = "add"
      \/ t.name = "subs" /\ t.op = "sub"
      \/ t.name = "movs" /\ t.op = "mov"
      \/ t.name = "ldrsb" /\ t.op = "ldrb"
  <2>1. CASE \E op \in DOMAIN Opcode \ {"vabs", "vmov", "nop"} : t = [name |-> op, op |-> op, s |-> FALSE]
    <3>1. PICK op \in DOMAIN Opcode \ {"vabs", "vmov", "nop"} : t = [name |-> op, op |-> op, s |-> FALSE]
      BY <2>1, Zenon
    <3>2. t.name = op /\ t.op = op
      BY <3>1, ThreeFields, Zenon
    <3>. QED  BY <3>2, Zenon
  <2>2. t = [name |-> "adds", op |-> "add", s |-> TRUE] => t.name = "adds" /\ t.op = "add"
    <3>. DEFINE a == "adds"
                b == "add"
                c == TRUE
    <3>. HIDE DEF a, b, c
    <3>1. t = [name |-> a, op |-> b, s |-> c] => t.name = a /\ t.op = b
      OBVIOUS
    <3>. QED  BY <3>1, Zenon DEF a, b, c
  <2>3. t = [name |-> "subs", op |-> "sub", s |-> TRUE] => t.name = "subs" /\ t.op = "sub"
    <3>. DEFINE a == "subs"
                b == "sub"
                c == TRUE
    <3>. HIDE DEF a, b, c
    <3>1. t = [name |-> a, op |-> b, s |-> c] => t.name = a /\ t.op = b
      OBVIOUS
    <3>. QED  BY <3>1, Zenon DEF a, b, c
  <2>4. t = [name |-> "movs", op |-> "mov", s |-> TRUE] => t.name = "movs" /\ t.op = "mov"
    <3>. DEFINE a == "movs"
                b == "mov"
                c == TRUE
    <3>. HIDE DEF a, b, c
    <3>1. t = [name |-> a, op |-> b, s |-> c] => t.name = a /\ t.op = b
      OBVIOUS
    <3>. QED  BY <3>1, Zenon DEF a, b, c
  <2>5. t = [name |-> "ldrsb", op |-> "ldrb", s |-> TRUE] => t.name = "ldrsb" /\ t.op = "ldrb"
    <3>. DEFINE a == "ldrsb"
                b == "ldrb"
                c == TRUE
    <3>. HIDE DEF a, b, c
    <3>1. t = [name |-> a, op |-> b, s |-> c] => t.name = a /\ t.op = b
      OBVIOUS
    <3>. QED  BY <3>1, Zenon DEF a, b, c
  <2>. QED  BY <1>1, <2>1, <2>2, <2>3, <2>4, <2>5, Zenon
<1>3. \A op \in DOMAIN Opcode \ {"vabs", "vmov", "nop"} : op # NL /\ op \notin ScopeTokens /\ op \in Operations
  BY DEF Opcode, NL, ScopeTokens, Operations, Adders, Subbers, Logicals, Compares, Shifts, LongMuls, Moves,
         Loads, Stores, Swaps, Jumps, RegJumps
<1>4. \A op \in {"add", "sub", "mov", "ldrb"} : op \in Operations
  BY DEF Operations, Adders, Subbers, Moves, Loads
<1>5. \A name \in {"adds", "subs", "movs", "ldrsb"} : name # NL /\ name \notin ScopeTokens
  BY DEF NL, ScopeTokens
<1>. QED  BY <1>2, <1>3, <1>4, <1>5, Zenon

\* Whatever the parser of a mnemonic makes of a statement.
LEMMA ParseFacts ==
    ASSUME NEW ts, IsSequence(ts), Len(ts) >= 1, ts[1] \in MnemonicNames, NEW p \in Parse(ts)
    PROVE  Reading(p, ts)
<1>. DEFINE t == MnemonicOf(ts[1])
<1>1. t \in Mnemonics /\ t.name = ts[1]
  BY Zenon DEF MnemonicNames, MnemonicOf
<1>2. p \in CASE t.op \in Adders \cup Subbers \cup Logicals \cup {"mul"} -> ParseO(t, ts)
        [] t.op \in Compares              -> ParseCompare(t, ts)
        [] t.op \in Shifts                -> ParseO1(t, ts)
        [] t.op \in LongMuls              -> ParseO2(t, ts)
        [] t.op \in Moves                 -> ParseO3(t, ts)
        [] t.op \in Loads \cup Stores     -> ParseM(t, ts)
        [] t.op \in Swaps                 -> ParseM1(t, ts)
        [] t.op = "adrp"                  -> ParseM2(t, ts)
        [] t.op \in Jumps \cup {"swi"}    -> ParseB1(t, ts)
        [] t.op \in RegJumps              -> ParseB2(t, ts)
        [] t.op = "hlt"                   -> {Parsed([op |-> "hlt"], <<>>, 1)}
  BY Zenon DEF Parse
<1>. HIDE DEF t
<1>3. t.name # NL /\ t.op \in Operations
  BY <1>1, MnemonicFacts
<1>4. NL \notin {t.name} /\ ts[1] # NL
  BY <1>1, <1>3, Zenon
<1>5. \/ p \in ParseO(t, ts)  \/ p \in ParseCompare(t, ts) \/ p \in ParseO1(t, ts)
      \/ p \in ParseO2(t, ts) \/ p \in ParseO3(t, ts)      \/ p \in ParseM(t, ts)
      \/ p \in ParseM1(t, ts) \/ p \in ParseM2(t, ts)      \/ p \in ParseB1(t, ts)
      \/ p \in ParseB2(t, ts) \/ p \in {Parsed([op |-> "hlt"], <<>>, 1)}
  <2>. DEFINE op == t.op
  <2>1. \/ op \in Adders \cup Subbers \cup Logicals \cup {"mul"} \/ op \in Compares \/ op \in Shifts
        \/ op \in LongMuls \/ op \in Moves \/ op \in Loads \cup Stores \/ op \in Swaps
        \/ op = "adrp" \/ op \in Jumps \cup {"swi"} \/ op \in RegJumps \/ op = "hlt"
    BY <1>3, Zenon DEF Operations
  <2>. QED  BY <1>2, <2>1, Zenon
<1>6. p \in {Parsed([op |-> "hlt"], <<>>, 1)} => Reading(p, ts)
  <2>1. Len(ts) \in Nat
    BY SequenceFacts
  <2>2. Quiet(ts, 1)
    BY <1>4, <2>1 DEF Quiet
  <2>3. Passes(ts, 1)
    BY <2>2, QuietPasses
  <2>. QED  BY <2>3, ReadingOf, NoRefers, Zenon
<1>. QED  BY <1>1, <1>4, <1>5, <1>6, ParseOFacts, ParseCompareFacts, ParseO1Facts, ParseO2Facts,
             ParseO3Facts, ParseMFacts, ParseM1Facts, ParseM2Facts, ParseB1Facts, ParseB2Facts, Zenon

-----------------------------------------------------------------------------
(* Object files. *)

IsObject(o) ==
    \E text, data, bss, symtab, rels, strings, at, ok :
      o = [text |-> text, data |-> data, bss |-> bss, symtab |-> symtab, rels |-> rels,
           strings |-> strings, at |-> at, ok |-> ok]

\* The size of a section, from the number of instructions and of bytes there are.
Extent(t, d, b, s) ==
    IF s = TEXT THEN 4 * t ELSE IF s = DATA THEN d ELSE IF s = BSS THEN b ELSE 0

Bindings == {"local", "global", "weak"}
AllSections == {TEXT, DATA, BSS, NoSection}
\* An entry has the number of its name and a value within its section.
Entry(e, id, t, d, b) ==
    \E v, binding, s :
      /\ e = [name |-> id, value |-> v, binding |-> binding, section |-> s]
      /\ binding \in Bindings /\ s \in AllSections /\ v \in 0 .. Extent(t, d, b, s)

\* The first eight strings are the names of the sections; each of the others is the
\* name of an entry, which has the place of its name.
Named(strings, symtab, t, d, b) ==
    /\ IsSequence(strings) /\ Len(strings) >= 8
    /\ \A k \in 1 .. 8 : strings[k] = Plain(SectionNames[k])
    /\ \A k \in 9 .. Len(strings) : strings[k].sym \in Symbols
    /\ symtab = [id \in 9 .. Len(strings) |-> symtab[id]]
    /\ \A id \in 9 .. Len(strings) : Entry(symtab[id], id, t, d, b)

\* A reference has its place in the code, the number of a name and the token it came from.
Reference(rel, m, t, n) ==
    \E k \in 0 .. t - 1 : \E sym \in 9 .. m : \E type : \E token \in 1 .. n :
      rel = [offset |-> 4 * k, sym |-> sym, type |-> type, token |-> token]

Referred(rels, m, t, n) ==
    IsSequence(rels) /\ \A k \in 1 .. Len(rels) : Reference(rels[k], m, t, n)

\* The tables of an object fit together; n is the number of tokens of the file.
Sound(o, n) ==
    /\ IsObject(o) /\ IsSequence(o.text) /\ IsSequence(o.data) /\ o.bss \in Nat
    /\ o.at = EmptyObject.at
    /\ Named(o.strings, o.symtab, Len(o.text), Len(o.data), o.bss)
    /\ Referred(o.rels, Len(o.strings), Len(o.text), n)

\* One lemma for each field of an object that is replaced: the others stay.
LEMMA PutText ==
    ASSUME NEW o, IsObject(o), NEW x
    PROVE  LET r == [o EXCEPT !.text = x]
           IN  /\ IsObject(r) /\ r.text = x /\ r.data = o.data /\ r.bss = o.bss /\ r.symtab = o.symtab
               /\ r.rels = o.rels /\ r.strings = o.strings /\ r.at = o.at /\ r.ok = o.ok
<1>1. PICK text, data, bss, symtab, rels, strings, at, ok :
        o = [text |-> text, data |-> data, bss |-> bss, symtab |-> symtab, rels |-> rels,
             strings |-> strings, at |-> at, ok |-> ok]
  BY Zenon DEF IsObject
<1>. DEFINE r == [o EXCEPT !.text = x]
<1>2. r = [text |-> x, data |-> data, bss |-> bss, symtab |-> symtab, rels |-> rels,
           strings |-> strings, at |-> at, ok |-> ok]
  BY <1>1
<1>. HIDE DEF r
<1>3. IsObject(r)
  BY <1>2, Zenon DEF IsObject
<1>. QED  BY <1>1, <1>2, <1>3 DEF r

LEMMA PutData ==
    ASSUME NEW o, IsObject(o), NEW x
    PROVE  LET r == [o EXCEPT !.data = x]
           IN  /\ IsObject(r) /\ r.text = o.text /\ r.data = x /\ r.bss = o.bss /\ r.symtab = o.symtab
               /\ r.rels = o.rels /\ r.strings = o.strings /\ r.at = o.at /\ r.ok = o.ok
<1>1. PICK text, data, bss, symtab, rels, strings, at, ok :
        o = [text |-> text, data |-> data, bss |-> bss, symtab |-> symtab, rels |-> rels,
             strings |-> strings, at |-> at, ok |-> ok]
  BY Zenon DEF IsObject
<1>. DEFINE r == [o EXCEPT !.data = x]
<1>2. r = [text |-> text, data |-> x, bss |-> bss, symtab |-> symtab, rels |-> rels,
           strings |-> strings, at |-> at, ok |-> ok]
  BY <1>1
<1>. HIDE DEF r
<1>3. IsObject(r)
  BY <1>2, Zenon DEF IsObject
<1>. QED  BY <1>1, <1>2, <1>3 DEF r

LEMMA PutBss ==
    ASSUME NEW o, IsObject(o), NEW x
    PROVE  LET r == [o EXCEPT !.bss = x]
           IN  /\ IsObject(r) /\ r.text = o.text /\ r.data = o.data /\ r.bss = x /\ r.symtab = o.symtab
               /\ r.rels = o.rels /\ r.strings = o.strings /\ r.at = o.at /\ r.ok = o.ok
<1>1. PICK text, data, bss, symtab, rels, strings, at, ok :
        o = [text |-> text, data |-> data, bss |-> bss, symtab |-> symtab, rels |-> rels,
             strings |-> strings, at |-> at, ok |-> ok]
  BY Zenon DEF IsObject
<1>. DEFINE r == [o EXCEPT !.bss = x]
<1>2. r = [text |-> text, data |-> data, bss |-> x, symtab |-> symtab, rels |-> rels,
           strings |-> strings, at |-> at, ok |-> ok]
  BY <1>1
<1>. HIDE DEF r
<1>3. IsObject(r)
  BY <1>2, Zenon DEF IsObject
<1>. QED  BY <1>1, <1>2, <1>3 DEF r

LEMMA PutRels ==
    ASSUME NEW o, IsObject(o), NEW x
    PROVE  LET r == [o EXCEPT !.rels = x]
           IN  /\ IsObject(r) /\ r.text = o.text /\ r.data = o.data /\ r.bss = o.bss /\ r.symtab = o.symtab
               /\ r.rels = x /\ r.strings = o.strings /\ r.at = o.at /\ r.ok = o.ok
<1>1. PICK text, data, bss, symtab, rels, strings, at, ok :
        o = [text |-> text, data |-> data, bss |-> bss, symtab |-> symtab, rels |-> rels,
             strings |-> strings, at |-> at, ok |-> ok]
  BY Zenon DEF IsObject
<1>. DEFINE r == [o EXCEPT !.rels = x]
<1>2. r = [text |-> text, data |-> data, bss |-> bss, symtab |-> symtab, rels |-> x,
           strings |-> strings, at |-> at, ok |-> ok]
  BY <1>1
<1>. HIDE DEF r
<1>3. IsObject(r)
  BY <1>2, Zenon DEF IsObject
<1>. QED  BY <1>1, <1>2, <1>3 DEF r

LEMMA PutStrings ==
    ASSUME NEW o, IsObject(o), NEW x
    PROVE  LET r == [o EXCEPT !.strings = x]
           IN  /\ IsObject(r) /\ r.text = o.text /\ r.data = o.data /\ r.bss = o.bss /\ r.symtab = o.symtab
               /\ r.rels = o.rels /\ r.strings = x /\ r.at = o.at /\ r.ok = o.ok
<1>1. PICK text, data, bss, symtab, rels, strings, at, ok :
        o = [text |-> text, data |-> data, bss |-> bss, symtab |-> symtab, rels |-> rels,
             strings |-> strings, at |-> at, ok |-> ok]
  BY Zenon DEF IsObject
<1>. DEFINE r == [o EXCEPT !.strings = x]
<1>2. r = [text |-> text, data |-> data, bss |-> bss, symtab |-> symtab, rels |-> rels,
           strings |-> x, at |-> at, ok |-> ok]
  BY <1>1
<1>. HIDE DEF r
<1>3. IsObject(r)
  BY <1>2, Zenon DEF IsObject
<1>. QED  BY <1>1, <1>2, <1>3 DEF r

LEMMA PutSymtab ==
    ASSUME NEW o, IsObject(o), NEW x
    PROVE  LET r == [o EXCEPT !.symtab = x]
           IN  /\ IsObject(r) /\ r.text = o.text /\ r.data = o.data /\ r.bss = o.bss /\ r.symtab = x
               /\ r.rels = o.rels /\ r.strings = o.strings /\ r.at = o.at /\ r.ok = o.ok
<1>1. PICK text, data, bss, symtab, rels, strings, at, ok :
        o = [text |-> text, data |-> data, bss |-> bss, symtab |-> symtab, rels |-> rels,
             strings |-> strings, at |-> at, ok |-> ok]
  BY Zenon DEF IsObject
<1>. DEFINE r == [o EXCEPT !.symtab = x]
<1>2. r = [text |-> text, data |-> data, bss |-> bss, symtab |-> x, rels |-> rels,
           strings |-> strings, at |-> at, ok |-> ok]
  BY <1>1
<1>. HIDE DEF r
<1>3. IsObject(r)
  BY <1>2, Zenon DEF IsObject
<1>. QED  BY <1>1, <1>2, <1>3 DEF r

LEMMA PutOk ==
    ASSUME NEW o, IsObject(o), NEW x
    PROVE  LET r == [o EXCEPT !.ok = x]
           IN  /\ IsObject(r) /\ r.text = o.text /\ r.data = o.data /\ r.bss = o.bss /\ r.symtab = o.symtab
               /\ r.rels = o.rels /\ r.strings = o.strings /\ r.at = o.at /\ r.ok = x
<1>1. PICK text, data, bss, symtab, rels, strings, at, ok :
        o = [text |-> text, data |-> data, bss |-> bss, symtab |-> symtab, rels |-> rels,
             strings |-> strings, at |-> at, ok |-> ok]
  BY Zenon DEF IsObject
<1>. DEFINE r == [o EXCEPT !.ok = x]
<1>2. r = [text |-> text, data |-> data, bss |-> bss, symtab |-> symtab, rels |-> rels,
           strings |-> strings, at |-> at, ok |-> x]
  BY <1>1
<1>. HIDE DEF r
<1>3. IsObject(r)
  BY <1>2, Zenon DEF IsObject
<1>. QED  BY <1>1, <1>2, <1>3 DEF r

\* An object with a symbol more, and one with a symbol changed.
WithSymbol(o, x, y) == [o EXCEPT !.strings = x, !.symtab = y]
WithChange(o, id, x, y) == [o EXCEPT !.symtab[id] = x, !.ok = y]

\* A symbol and a string more.
LEMMA PutSymbol ==
    ASSUME NEW o, IsObject(o), NEW x, NEW y, NEW r, r = WithSymbol(o, x, y)
    PROVE  /\ IsObject(r) /\ r.text = o.text /\ r.data = o.data /\ r.bss = o.bss /\ r.symtab = y
           /\ r.rels = o.rels /\ r.strings = x /\ r.at = o.at /\ r.ok = o.ok
<1>. DEFINE q == [o EXCEPT !.strings = x]
            z == [q EXCEPT !.symtab = y]
<1>1. r = z
  BY DEF WithSymbol
<1>2. /\ IsObject(q) /\ q.text = o.text /\ q.data = o.data /\ q.bss = o.bss /\ q.rels = o.rels
      /\ q.strings = x /\ q.at = o.at /\ q.ok = o.ok
  BY PutStrings
<1>. HIDE DEF q
<1>3. /\ IsObject(z) /\ z.text = q.text /\ z.data = q.data /\ z.bss = q.bss /\ z.symtab = y
      /\ z.rels = q.rels /\ z.strings = q.strings /\ z.at = q.at /\ z.ok = q.ok
  BY <1>2, PutSymtab
<1>. HIDE DEF z
<1>. QED  BY <1>1, <1>2, <1>3, Zenon

\* The table of symbols replaced, and nothing else.
Changed(o, r, id, x, y) ==
    /\ IsObject(r) /\ r.text = o.text /\ r.data = o.data /\ r.bss = o.bss
    /\ r.symtab = [o.symtab EXCEPT ![id] = x]
    /\ r.rels = o.rels /\ r.strings = o.strings /\ r.at = o.at /\ r.ok = y

LEMMA ChangeSymbol ==
    ASSUME NEW o, IsObject(o), NEW id, NEW x, NEW y,
           NEW r, r = WithChange(o, id, x, y)
    PROVE  Changed(o, r, id, x, y)
<1>. DEFINE z == [o.symtab EXCEPT ![id] = x]
            q == [o EXCEPT !.symtab = z]
            w == [q EXCEPT !.ok = y]
<1>1. r = w
  BY DEF WithChange
<1>. HIDE DEF z
<1>2. /\ IsObject(q) /\ q.text = o.text /\ q.data = o.data /\ q.bss = o.bss /\ q.rels = o.rels
      /\ q.strings = o.strings /\ q.at = o.at /\ q.symtab = z
  BY PutSymtab
<1>. HIDE DEF q
<1>3. /\ IsObject(w) /\ w.text = q.text /\ w.data = q.data /\ w.bss = q.bss /\ w.symtab = q.symtab
      /\ w.rels = q.rels /\ w.strings = q.strings /\ w.at = q.at /\ w.ok = y
  BY <1>2, PutOk
<1>. HIDE DEF w
<1>. QED  BY <1>1, <1>2, <1>3, Zenon DEF z, Changed

\* The object an assembler begins with.
LEMMA EmptyFields ==
    /\ IsObject(EmptyObject)
    /\ EmptyObject.text = <<>> /\ EmptyObject.data = <<>> /\ EmptyObject.bss = 0
    /\ EmptyObject.symtab = <<>> /\ EmptyObject.rels = <<>> /\ EmptyObject.ok = TRUE
    /\ EmptyObject.strings = [k \in DOMAIN SectionNames |-> Plain(SectionNames[k])]
<1>1. ASSUME NEW text, NEW data, NEW bss, NEW symtab, NEW rels, NEW strings, NEW at, NEW ok, NEW o,
             o = [text |-> text, data |-> data, bss |-> bss, symtab |-> symtab, rels |-> rels,
                  strings |-> strings, at |-> at, ok |-> ok]
      PROVE  /\ o.text = text /\ o.data = data /\ o.bss = bss /\ o.symtab = symtab
             /\ o.rels = rels /\ o.strings = strings /\ o.ok = ok
  BY <1>1
<1>2. IsObject(EmptyObject)
  BY Zenon DEF IsObject, EmptyObject
<1>. DEFINE none == <<>>
            names == [k \in DOMAIN SectionNames |-> Plain(SectionNames[k])]
            places == [s \in {TEXT, DATA, BSS} |-> [address |-> 0, physical |-> FALSE]]
            yes == TRUE
            zero == 0
<1>3. EmptyObject = [text |-> none, data |-> none, bss |-> zero, symtab |-> none, rels |-> none,
                     strings |-> names, at |-> places, ok |-> yes]
  BY Zenon DEF EmptyObject
<1>. HIDE DEF none, names, places, yes, zero
<1>4. /\ EmptyObject.text = none /\ EmptyObject.data = none /\ EmptyObject.bss = zero
      /\ EmptyObject.symtab = none /\ EmptyObject.rels = none /\ EmptyObject.strings = names
      /\ EmptyObject.ok = yes
  BY <1>1, <1>3
<1>. QED  BY <1>2, <1>4, Zenon DEF none, names, yes, zero

\* A sound table stays sound when its sections grow.
LEMMA MoreRoom ==
    ASSUME NEW strings, NEW symtab, NEW t \in Nat, NEW d \in Nat, NEW b \in Nat,
           NEW tt \in Nat, NEW dd \in Nat, NEW bb \in Nat, t <= tt, d <= dd, b <= bb,
           Named(strings, symtab, t, d, b)
    PROVE  Named(strings, symtab, tt, dd, bb)
<1>1. ASSUME NEW s PROVE Extent(t, d, b, s) \in Nat /\ Extent(tt, dd, bb, s) \in Nat
                         /\ Extent(t, d, b, s) <= Extent(tt, dd, bb, s)
  BY DEF Extent
<1>2. ASSUME NEW e, NEW id, Entry(e, id, t, d, b) PROVE Entry(e, id, tt, dd, bb)
  <2>1. PICK v, binding, s :
          /\ e = [name |-> id, value |-> v, binding |-> binding, section |-> s]
          /\ binding \in Bindings /\ s \in AllSections /\ v \in 0 .. Extent(t, d, b, s)
    BY <1>2, Zenon DEF Entry
  <2>2. v \in 0 .. Extent(tt, dd, bb, s)
    BY <1>1, <2>1
  <2>. QED  BY <2>1, <2>2, Zenon DEF Entry
<1>. QED  BY <1>2, Zenon DEF Named

\* References stay sound when there are more names, more code and more tokens.
LEMMA MoreReferred ==
    ASSUME NEW rels, NEW m \in Nat, NEW t \in Nat, NEW n \in Nat,
           NEW mm \in Nat, NEW tt \in Nat, NEW nn \in Nat, m <= mm, t <= tt, n <= nn,
           Referred(rels, m, t, n)
    PROVE  Referred(rels, mm, tt, nn)
<1>1. ASSUME NEW rel, Reference(rel, m, t, n) PROVE Reference(rel, mm, tt, nn)
  <2>1. PICK k \in 0 .. t - 1, sym \in 9 .. m : \E type : \E token \in 1 .. n :
          rel = [offset |-> 4 * k, sym |-> sym, type |-> type, token |-> token]
    BY <1>1, Zenon DEF Reference
  <2>2. PICK type : \E token \in 1 .. n :
          rel = [offset |-> 4 * k, sym |-> sym, type |-> type, token |-> token]
    BY <2>1, Zenon
  <2>3. PICK token \in 1 .. n :
          rel = [offset |-> 4 * k, sym |-> sym, type |-> type, token |-> token]
    BY <2>2, Zenon
  <2>4. k \in 0 .. tt - 1 /\ sym \in 9 .. mm /\ token \in 1 .. nn
    <3>. HIDE DEF Reference
    <3>1. k \in 0 .. tt - 1
      OBVIOUS
    <3>2. sym \in 9 .. mm
      OBVIOUS
    <3>3. token \in 1 .. nn
      OBVIOUS
    <3>. QED  BY <3>1, <3>2, <3>3
  <2>. QED  BY <2>3, <2>4, Zenon DEF Reference
<1>. QED  BY <1>1, Zenon DEF Referred

LEMMA SoundFacts ==
    ASSUME NEW o, NEW n, Sound(o, n)
    PROVE  /\ Len(o.text) \in Nat /\ Len(o.data) \in Nat /\ o.bss \in Nat
           /\ IsSequence(o.strings) /\ Len(o.strings) \in Nat /\ Len(o.strings) >= 8
           /\ DOMAIN o.symtab = 9 .. Len(o.strings) /\ IsSequence(o.rels)
<1>1. DOMAIN o.symtab = 9 .. Len(o.strings)
  BY Zenon DEF Sound, Named
<1>. QED  BY <1>1, SequenceFacts DEF Sound, Named, Referred

\* One lemma for each field: what must hold of the new value for the object to stay sound.
LEMMA SoundText ==
    ASSUME NEW o, NEW n \in Nat, Sound(o, n), NEW x, IsSequence(x), Len(x) >= Len(o.text)
    PROVE  Sound([o EXCEPT !.text = x], n)
<1>. DEFINE r == [o EXCEPT !.text = x]
<1>1. /\ IsObject(r) /\ r.text = x /\ r.data = o.data /\ r.bss = o.bss /\ r.symtab = o.symtab
      /\ r.rels = o.rels /\ r.strings = o.strings /\ r.at = o.at
  <2>1. IsObject(o)
    BY Zenon DEF Sound
  <2>. QED  BY <2>1, PutText
<1>. HIDE DEF r
<1>2. Len(x) \in Nat /\ Len(o.text) \in Nat /\ Len(o.data) \in Nat /\ o.bss \in Nat /\ Len(o.strings) \in Nat
  BY SequenceFacts, SoundFacts
<1>3. Named(o.strings, o.symtab, Len(x), Len(o.data), o.bss)
  BY <1>2, MoreRoom DEF Sound
<1>4. Referred(o.rels, Len(o.strings), Len(x), n)
  BY <1>2, MoreReferred DEF Sound
<1>5. Sound(r, n)
  BY <1>1, <1>3, <1>4, Zenon DEF Sound
<1>. QED  BY <1>5 DEF r

LEMMA SoundData ==
    ASSUME NEW o, NEW n \in Nat, Sound(o, n), NEW x, IsSequence(x), Len(x) >= Len(o.data)
    PROVE  Sound([o EXCEPT !.data = x], n)
<1>. DEFINE r == [o EXCEPT !.data = x]
<1>1. /\ IsObject(r) /\ r.text = o.text /\ r.data = x /\ r.bss = o.bss /\ r.symtab = o.symtab
      /\ r.rels = o.rels /\ r.strings = o.strings /\ r.at = o.at
  <2>1. IsObject(o)
    BY Zenon DEF Sound
  <2>. QED  BY <2>1, PutData
<1>. HIDE DEF r
<1>2. Len(x) \in Nat /\ Len(o.text) \in Nat /\ Len(o.data) \in Nat /\ o.bss \in Nat /\ Len(o.strings) \in Nat
  BY SequenceFacts, SoundFacts
<1>3. Named(o.strings, o.symtab, Len(o.text), Len(x), o.bss)
  BY <1>2, MoreRoom DEF Sound
<1>4. Sound(r, n)
  BY <1>1, <1>3, Zenon DEF Sound
<1>. QED  BY <1>4 DEF r

LEMMA SoundBss ==
    ASSUME NEW o, NEW n \in Nat, Sound(o, n), NEW x \in Nat, x >= o.bss
    PROVE  Sound([o EXCEPT !.bss = x], n)
<1>. DEFINE r == [o EXCEPT !.bss = x]
<1>1. /\ IsObject(r) /\ r.text = o.text /\ r.data = o.data /\ r.bss = x /\ r.symtab = o.symtab
      /\ r.rels = o.rels /\ r.strings = o.strings /\ r.at = o.at
  <2>1. IsObject(o)
    BY Zenon DEF Sound
  <2>. QED  BY <2>1, PutBss
<1>. HIDE DEF r
<1>2. Len(o.text) \in Nat /\ Len(o.data) \in Nat /\ o.bss \in Nat /\ Len(o.strings) \in Nat
  BY SoundFacts
<1>3. Named(o.strings, o.symtab, Len(o.text), Len(o.data), x)
  BY <1>2, MoreRoom DEF Sound
<1>4. Sound(r, n)
  BY <1>1, <1>3, Zenon DEF Sound
<1>. QED  BY <1>4 DEF r

LEMMA SoundRels ==
    ASSUME NEW o, NEW n \in Nat, Sound(o, n), NEW x, Referred(x, Len(o.strings), Len(o.text), n)
    PROVE  Sound([o EXCEPT !.rels = x], n)
<1>. DEFINE r == [o EXCEPT !.rels = x]
<1>1. /\ IsObject(r) /\ r.text = o.text /\ r.data = o.data /\ r.bss = o.bss /\ r.symtab = o.symtab
      /\ r.rels = x /\ r.strings = o.strings /\ r.at = o.at
  <2>1. IsObject(o)
    BY Zenon DEF Sound
  <2>. QED  BY <2>1, PutRels
<1>. HIDE DEF r
<1>2. Sound(r, n)
  BY <1>1, Zenon DEF Sound
<1>. QED  BY <1>2 DEF r

\* The empty object is sound.
LEMMA SoundEmpty ==
    ASSUME NEW n \in Nat
    PROVE  Sound(EmptyObject, n)
<1>. DEFINE names == [k \in DOMAIN SectionNames |-> Plain(SectionNames[k])]
<1>1. DOMAIN SectionNames = 1 .. 8
  BY DEF SectionNames
<1>2. names \in [1 .. 8 -> {Plain(SectionNames[k]) : k \in 1 .. 8}] /\ \A k \in 1 .. 8 : names[k] = Plain(SectionNames[k])
  BY <1>1, Zenon
<1>. HIDE DEF names
<1>3. IsSequence(names) /\ Len(names) = 8
  BY <1>2, SequenceOf
<1>. DEFINE none == <<>>
<1>4. none = [id \in 9 .. Len(names) |-> none[id]]
  <2>1. 9 .. 8 = {} /\ DOMAIN <<>> = {} /\ <<>> = [k \in {} |-> <<>>[k]]
    OBVIOUS
  <2>. QED  BY <1>3, <2>1, Zenon
<1>5. Named(names, none, 0, 0, 0)
  <2>1. \A id \in 9 .. Len(names) : FALSE
    BY <1>3
  <2>2. Len(names) >= 8
    BY <1>3
  <2>. QED  BY <1>2, <1>3, <1>4, <2>1, <2>2, Zenon DEF Named
<1>6. IsSequence(none) /\ Len(none) = 0 /\ \A k \in 1 .. 0 : FALSE
  BY EmptySequence
<1>7. Referred(none, Len(names), Len(none), n)
  BY <1>6, Zenon DEF Referred
<1>8. 0 \in Nat
  OBVIOUS
<1>. QED  BY <1>5, <1>6, <1>7, <1>8, EmptyFields, Zenon DEF Sound, names

\* A symbol has not the name of a section.
LEMMA SymbolIsNoSection ==
    ASSUME NEW sym \in Symbols, NEW scope, NEW file, NEW k \in 1 .. 8
    PROVE  Plain(SectionNames[k]) # SymbolName(sym, scope, file)
<1>. DEFINE s == SectionNames[k]
<1>1. s \in ToSet(SectionNames)
  <2>1. DOMAIN SectionNames = 1 .. 8
    BY DEF SectionNames
  <2>. QED  BY <2>1, Zenon DEF ToSet
<1>2. sym # s
  BY <1>1, NamesAssumption, Zenon
<1>. HIDE DEF s
<1>3. Plain(s).sym = s /\ SymbolName(sym, scope, file).sym = sym
  BY DEF Plain, SymbolName
<1>. QED  BY <1>2, <1>3, Zenon DEF s

(* The number of a name that is there is its place among the strings, behind the names of the
   sections. *)
LEMMA IdFacts ==
    ASSUME NEW o, NEW n, Sound(o, n), NEW sym \in Symbols, NEW scope, NEW file,
           HasName(o, SymbolName(sym, scope, file))
    PROVE  /\ IdOf(o, SymbolName(sym, scope, file)) \in 9 .. Len(o.strings)
           /\ o.strings[IdOf(o, SymbolName(sym, scope, file))] = SymbolName(sym, scope, file)
<1>. DEFINE name == SymbolName(sym, scope, file)
            ids == StringId(o, name)
            id == Min(ids)
<1>1. IsSequence(o.strings) /\ Len(o.strings) \in Nat /\ Len(o.strings) >= 8
      /\ DOMAIN o.strings = 1 .. Len(o.strings)
  BY SoundFacts, SequenceFacts
<1>2. \A k \in 1 .. 8 : o.strings[k] # name
  <2>. SUFFICES ASSUME NEW k \in 1 .. 8 PROVE o.strings[k] # name
    OBVIOUS
  <2>1. o.strings[k] = Plain(SectionNames[k])
    BY Zenon DEF Sound, Named
  <2>2. Plain(SectionNames[k]) # SymbolName(sym, scope, file)
    BY SymbolIsNoSection
  <2>. QED  BY <2>1, <2>2, Zenon
<1>. HIDE DEF name
<1>3. ids \in SUBSET Nat /\ ids # {} /\ \A k \in ids : k \in 1 .. Len(o.strings) /\ o.strings[k] = name
  BY <1>1 DEF StringId, HasName, name
<1>4. id \in ids
  <2>. HIDE DEF ids
  <2>. QED  BY <1>3, MinNat
<1>5. id \in 1 .. Len(o.strings) /\ o.strings[id] = name
  BY <1>3, <1>4
<1>. HIDE DEF id
<1>6. id \in 9 .. Len(o.strings)
  BY <1>1, <1>2, <1>5
<1>. QED  BY <1>5, <1>6, Zenon DEF id, name, IdOf

\* A table with one entry more.
LEMMA NamedMore ==
    ASSUME NEW strings, NEW symtab, NEW t \in Nat, NEW d \in Nat, NEW b \in Nat,
           Named(strings, symtab, t, d, b), NEW name, name.sym \in Symbols,
           NEW e, Entry(e, Len(strings) + 1, t, d, b)
    PROVE  Named(Append(strings, name), Put(symtab, Len(strings) + 1, e), t, d, b)
<1>. DEFINE id == Len(strings) + 1
            more == Append(strings, name)
            table == Put(symtab, id, e)
<1>1. Len(strings) \in Nat /\ Len(strings) >= 8 /\ DOMAIN symtab = 9 .. Len(strings)
  BY SequenceFacts, Zenon DEF Named
<1>2. /\ IsSequence(more) /\ Len(more) = id
      /\ \A k \in 1 .. Len(strings) : more[k] = strings[k]
      /\ more[id] = name
  BY AppendedSequence DEF Named
<1>3. table = [x \in (9 .. Len(strings)) \cup {id} |-> IF x = id THEN e ELSE symtab[x]]
  BY <1>1, Zenon DEF Put
<1>4. (9 .. Len(strings)) \cup {id} = 9 .. id
  BY <1>1
<1>5. table = [x \in 9 .. id |-> table[x]] /\ table[id] = e
      /\ \A x \in 9 .. Len(strings) : table[x] = symtab[x]
  <2>1. table = [x \in 9 .. id |-> IF x = id THEN e ELSE symtab[x]]
    BY <1>3, <1>4, Zenon
  <2>2. \A x \in 9 .. Len(strings) : x \in 9 .. id /\ x # id
    BY <1>1
  <2>3. id \in 9 .. id
    BY <1>1
  <2>. HIDE DEF table, id
  <2>4. table[id] = e
    BY <2>1, <2>3, Zenon
  <2>5. \A x \in 9 .. Len(strings) : table[x] = symtab[x]
    BY <2>1, <2>2, Zenon
  <2>6. table = [x \in 9 .. id |-> table[x]]
    BY <2>1, Zenon
  <2>. QED  BY <2>4, <2>5, <2>6
<1>6. \A k \in 9 .. id : k = id \/ k \in 9 .. Len(strings)
  BY <1>1
<1>7. \A k \in 9 .. Len(strings) : k \in 1 .. Len(strings)
  BY <1>1
<1>8. \A k \in 1 .. 8 : k \in 1 .. Len(strings)
  BY <1>1
<1>9. Len(more) >= 8
  BY <1>1, <1>2
<1>10. Entry(e, id, t, d, b)
  OBVIOUS
<1>. HIDE DEF more, table, id
<1>11. \A k \in 1 .. 8 : more[k] = Plain(SectionNames[k])
  BY <1>2, <1>8, Zenon DEF Named
<1>12. \A k \in 9 .. id : more[k].sym \in Symbols
  BY <1>2, <1>6, <1>7, Zenon DEF Named
<1>13. \A k \in 9 .. id : Entry(table[k], k, t, d, b)
  BY <1>5, <1>6, <1>10, Zenon DEF Named
<1>14. Named(more, table, t, d, b)
  BY <1>2, <1>5, <1>9, <1>11, <1>12, <1>13, Zenon DEF Named
<1>. QED  BY <1>14 DEF more, table, id

\* A table with an entry changed.
LEMMA NamedChanged ==
    ASSUME NEW strings, NEW symtab, NEW t, NEW d, NEW b,
           Named(strings, symtab, t, d, b), NEW id \in 9 .. Len(strings),
           NEW e, Entry(e, id, t, d, b)
    PROVE  Named(strings, [symtab EXCEPT ![id] = e], t, d, b)
<1>. DEFINE table == [symtab EXCEPT ![id] = e]
<1>1. DOMAIN symtab = 9 .. Len(strings)
  BY Zenon DEF Named
<1>2. /\ table = [x \in 9 .. Len(strings) |-> table[x]]
      /\ \A x \in 9 .. Len(strings) : table[x] = IF x = id THEN e ELSE symtab[x]
  <2>1. table = [x \in DOMAIN symtab |-> IF x = id THEN e ELSE symtab[x]]
    BY Zenon
  <2>. HIDE DEF table
  <2>2. table = [x \in 9 .. Len(strings) |-> IF x = id THEN e ELSE symtab[x]]
    BY <1>1, <2>1, Zenon
  <2>. QED  BY <2>2, Zenon
<1>. HIDE DEF table
<1>3. \A x \in 9 .. Len(strings) : Entry(table[x], x, t, d, b)
  BY <1>2, Zenon DEF Named
<1>4. Named(strings, table, t, d, b)
  BY <1>2, <1>3, Zenon DEF Named
<1>. QED  BY <1>4 DEF table

\* An entry of the table with another section, value and binding.
LEMMA EntryChanged ==
    ASSUME NEW id, NEW v, NEW binding, NEW s, NEW vv, NEW bb, NEW ss, NEW e,
           e = [name |-> id, value |-> v, binding |-> binding, section |-> s],
           NEW new, new = [e EXCEPT !.section = ss, !.value = vv, !.binding = bb]
    PROVE  new = [name |-> id, value |-> vv, binding |-> bb, section |-> ss]
<1>. DEFINE q == [e EXCEPT !.section = ss]
            w == [q EXCEPT !.value = vv]
            z == [w EXCEPT !.binding = bb]
<1>1. new = z
  OBVIOUS
<1>2. q = [name |-> id, value |-> v, binding |-> binding, section |-> ss]
  OBVIOUS
<1>. HIDE DEF q
<1>3. w = [name |-> id, value |-> vv, binding |-> binding, section |-> ss]
  BY <1>2
<1>. HIDE DEF w
<1>4. z = [name |-> id, value |-> vv, binding |-> bb, section |-> ss]
  BY <1>3
<1>. QED  BY <1>1, <1>4, Zenon

\* What is true of an object when a symbol has been added to it.
LEMMA AddSymbolFacts ==
    ASSUME NEW o, NEW n \in Nat, Sound(o, n), NEW sym \in Symbols, NEW scope,
           NEW binding \in Bindings, NEW s \in AllSections,
           NEW value \in 0 .. Extent(Len(o.text), Len(o.data), o.bss, s), o.ok \in BOOLEAN,
           NEW r, r = AddSymbol(o, SymbolName(sym, scope, -1), value, binding, s)
    PROVE  /\ Sound(r, n) /\ r.ok \in BOOLEAN
           /\ r.text = o.text /\ r.data = o.data /\ r.bss = o.bss /\ r.rels = o.rels
           /\ Len(r.strings) >= Len(o.strings)
           /\ HasName(r, SymbolName(sym, scope, -1))
<1>. DEFINE name == SymbolName(sym, scope, -1)
            t == Len(o.text)
            d == Len(o.data)
            b == o.bss
<1>1. /\ t \in Nat /\ d \in Nat /\ b \in Nat /\ IsObject(o)
      /\ IsSequence(o.strings) /\ Len(o.strings) \in Nat /\ Named(o.strings, o.symtab, t, d, b)
      /\ DOMAIN o.strings = 1 .. Len(o.strings)
  BY SoundFacts, SequenceFacts DEF Sound
<1>2. name.sym \in Symbols
  BY DEF SymbolName
<1>. HIDE DEF name, t, d, b
<1>3. CASE ~HasName(o, name)
  <2>. DEFINE id == Len(o.strings) + 1
              e == [name |-> id, value |-> value, binding |-> binding, section |-> s]
              more == Append(o.strings, name)
              table == Put(o.symtab, id, e)
  <2>1. r = WithSymbol(o, more, table)
    BY <1>3, Zenon DEF AddSymbol, name, WithSymbol
  <2>2. Entry(e, id, t, d, b)
    BY Zenon DEF Entry, t, d, b
  <2>3. Named(more, table, t, d, b)
    <3>. HIDE DEF e
    <3>. QED  BY <1>1, <1>2, <2>2, NamedMore
  <2>4. Len(more) = Len(o.strings) + 1 /\ more[Len(o.strings) + 1] = name
    BY <1>1, AppendedSequence
  <2>. HIDE DEF more, table
  <2>5. /\ IsObject(r) /\ r.text = o.text /\ r.data = o.data /\ r.bss = o.bss /\ r.symtab = table
        /\ r.rels = o.rels /\ r.strings = more /\ r.at = o.at /\ r.ok = o.ok
    BY <1>1, <2>1, PutSymbol
  <2>6. Referred(o.rels, Len(more), Len(o.text), n)
    <3>1. Len(more) \in Nat /\ Len(o.strings) <= Len(more) /\ Len(o.text) \in Nat
      BY <1>1, <2>4 DEF t
    <3>2. Referred(o.rels, Len(o.strings), Len(o.text), n)
      BY DEF Sound
    <3>3. Len(o.text) <= Len(o.text) /\ n <= n
      BY <3>1
    <3>. QED  BY <1>1, <3>1, <3>2, <3>3, MoreReferred
  <2>7. Sound(r, n)
    BY <2>3, <2>5, <2>6, Zenon DEF Sound, t, d, b
  <2>8. HasName(r, name)
    <3>1. IsSequence(r.strings)
      BY <2>7, Zenon DEF Sound, Named
    <3>2. DOMAIN r.strings = 1 .. Len(r.strings)
      BY <3>1, SequenceFacts
    <3>3. Len(o.strings) + 1 \in 1 .. Len(o.strings) + 1
      BY <1>1
    <3>4. Len(o.strings) + 1 \in DOMAIN r.strings /\ r.strings[Len(o.strings) + 1] = name
      BY <2>4, <2>5, <3>2, <3>3, Zenon
    <3>. QED  BY <3>4, Zenon DEF HasName, StringId
  <2>9. Len(r.strings) >= Len(o.strings)
    BY <1>1, <2>4, <2>5
  <2>. QED  BY <2>5, <2>7, <2>8, <2>9, Zenon DEF name
<1>4. CASE HasName(o, name)
  <2>. DEFINE id == IdOf(o, name)
              old == o.symtab[id]
              defines == old.section = NoSection /\ s # NoSection
              stronger == binding = "global" \/ (binding = "local" /\ old.binding = "weak")
              ss == IF defines THEN s ELSE old.section
              vv == IF defines THEN value ELSE old.value
              bb == IF stronger THEN binding ELSE old.binding
              e == [old EXCEPT !.section = ss, !.value = vv, !.binding = bb]
              yes == o.ok /\ (old.section = NoSection \/ s = NoSection)
  <2>1. r = WithChange(o, id, e, yes)
    BY <1>4, Zenon DEF AddSymbol, name, WithChange
  <2>2. id \in 9 .. Len(o.strings)
    BY <1>4, IdFacts, Zenon DEF name
  <2>. HIDE DEF id
  <2>3. Entry(old, id, t, d, b)
    BY <1>1, <2>2, Zenon DEF Named
  <2>. HIDE DEF old
  <2>4. PICK v, bi, se :
          /\ old = [name |-> id, value |-> v, binding |-> bi, section |-> se]
          /\ bi \in Bindings /\ se \in AllSections /\ v \in 0 .. Extent(t, d, b, se)
    BY <2>3, Zenon DEF Entry
  <2>5. old.section = se /\ old.value = v /\ old.binding = bi
    BY <2>4
  <2>6. ss \in AllSections /\ bb \in Bindings /\ vv \in 0 .. Extent(t, d, b, ss)
    <3>1. value \in 0 .. Extent(t, d, b, s)
      BY Zenon DEF t, d, b
    <3>. QED  BY <2>4, <2>5, <3>1, Zenon
  <2>7. yes \in BOOLEAN
    OBVIOUS
  <2>. HIDE DEF ss, vv, bb, yes
  <2>20. e = [old EXCEPT !.section = ss, !.value = vv, !.binding = bb]
    OBVIOUS
  <2>. HIDE DEF e
  <2>8. e = [name |-> id, value |-> vv, binding |-> bb, section |-> ss]
    BY <2>4, <2>20, EntryChanged
  <2>9. Entry(e, id, t, d, b)
    BY <2>6, <2>8, Zenon DEF Entry
  <2>10. Named(o.strings, [o.symtab EXCEPT ![id] = e], t, d, b)
    BY <1>1, <2>2, <2>9, NamedChanged
  <2>11. /\ IsObject(r) /\ r.text = o.text /\ r.data = o.data /\ r.bss = o.bss
         /\ r.symtab = [o.symtab EXCEPT ![id] = e]
         /\ r.rels = o.rels /\ r.strings = o.strings /\ r.at = o.at /\ r.ok = yes
    <3>1. IsObject(o)
      BY <1>1
    <3>2. Changed(o, r, id, e, yes)
      BY <2>1, <3>1, ChangeSymbol
    <3>. QED  BY <3>2, Zenon DEF Changed
  <2>12. Sound(r, n)
    BY <2>10, <2>11, Zenon DEF Sound, t, d, b
  <2>13. HasName(r, name)
    BY <1>4, <2>11, Zenon DEF HasName, StringId
  <2>14. Len(r.strings) >= Len(o.strings)
    BY <1>1, <2>11
  <2>. QED  BY <2>7, <2>11, <2>12, <2>13, <2>14, Zenon DEF name
<1>. QED  BY <1>3, <1>4

\* What is left of a sequence, and all of it but the end.
LEMMA FromFacts ==
    ASSUME NEW ts, IsSequence(ts), NEW k \in 1 .. Len(ts) + 1
    PROVE  /\ IsSequence(From(ts, k)) /\ Len(From(ts, k)) = Len(ts) - k + 1
           /\ \A j \in 1 .. Len(ts) - k + 1 : From(ts, k)[j] = ts[k + j - 1]
<1>1. Len(ts) \in Nat
  BY SequenceFacts
<1>2. k \in Nat \ {0} /\ Len(ts) <= Len(ts) /\ k <= Len(ts) + 1
  BY <1>1
<1>. QED  BY <1>1, <1>2, PartOfSequence DEF From

LEMMA UpToFacts ==
    ASSUME NEW ts, IsSequence(ts), NEW k \in 0 .. Len(ts)
    PROVE  /\ IsSequence(UpTo(ts, k)) /\ Len(UpTo(ts, k)) = k
           /\ \A j \in 1 .. k : UpTo(ts, k)[j] = ts[j]
<1>1. Len(ts) \in Nat
  BY SequenceFacts
<1>. DEFINE one == 1
<1>2. k \in Nat /\ k <= Len(ts) /\ one <= k + 1 /\ one \in Nat \ {0}
  BY <1>1
<1>3. one = 1
  OBVIOUS
<1>. HIDE DEF one
<1>4. /\ IsSequence(SubSeq(ts, one, k)) /\ Len(SubSeq(ts, one, k)) = k - one + 1
      /\ \A j \in 1 .. k - one + 1 : SubSeq(ts, one, k)[j] = ts[one + j - 1]
  BY <1>2, PartOfSequence
<1>5. k - one + 1 = k /\ \A j \in 1 .. k : one + j - 1 = j
  BY <1>2, <1>3
<1>. QED  BY <1>3, <1>4, <1>5 DEF UpTo

\* A sequence without its last element.
LEMMA FrontSequence ==
    ASSUME NEW s, IsSequence(s)
    PROVE  /\ IsSequence(Front(s))
           /\ s # <<>> => /\ Len(Front(s)) = Len(s) - 1
                          /\ \A k \in 1 .. Len(s) - 1 : Front(s)[k] = s[k]
<1>1. Len(s) \in Nat /\ s \in Seq(ToSet(s))
  BY SequenceFacts
<1>2. CASE s = <<>>
  <2>1. Len(s) - 1 < 1
    BY <1>2
  <2>2. Front(s) = <<>>
    BY <1>1, <2>1, SubSeqEmpty DEF Front
  <2>. QED  BY <1>2, <2>2, EmptySequence
<1>3. CASE s # <<>>
  <2>1. Len(s) - 1 \in 0 .. Len(s)
    BY <1>1, <1>3, EmptySeq
  <2>2. Front(s) = UpTo(s, Len(s) - 1)
    BY DEF Front, UpTo
  <2>. QED  BY <2>1, <2>2, UpToFacts
<1>. QED  BY <1>2, <1>3

\* A sequence filled up to a length with one cell.
LEMMA FilledSequence ==
    ASSUME NEW s, IsSequence(s), NEW n \in Int, NEW cell
    PROVE  IsSequence(Filled(s, n, cell)) /\ Len(Filled(s, n, cell)) >= Len(s)
<1>1. Len(s) \in Nat
  BY SequenceFacts
<1>. DEFINE m == IF n < Len(s) THEN 0 ELSE n - Len(s)
            more == [k \in 1 .. m |-> cell]
<1>2. m \in Nat /\ 1 .. n - Len(s) = 1 .. m
  BY <1>1
<1>3. Filled(s, n, cell) = s \o more
  BY <1>2, Zenon DEF Filled
<1>4. more \in [1 .. m -> {cell}]
  BY Zenon
<1>. HIDE DEF m, more
<1>5. IsSequence(more) /\ Len(more) = m
  BY <1>2, <1>4, SequenceOf
<1>6. IsSequence(s \o more) /\ Len(s \o more) = Len(s) + Len(more)
  BY <1>5, JoinedSequence
<1>. QED  BY <1>1, <1>2, <1>3, <1>5, <1>6

\* A sequence with one element changed.
LEMMA ChangedSequence ==
    ASSUME NEW s, IsSequence(s), NEW i, NEW x
    PROVE  IsSequence([s EXCEPT ![i] = x]) /\ Len([s EXCEPT ![i] = x]) = Len(s)
<1>1. Len(s) \in Nat /\ s \in [1 .. Len(s) -> ToSet(s)]
  BY SequenceFacts
<1>2. [s EXCEPT ![i] = x] \in [1 .. Len(s) -> ToSet(s) \cup {x}]
  BY <1>1
<1>. QED  BY <1>1, <1>2, SequenceOf

\* A number as bytes: as many as its width, each below 256.
LEMMA LittleEndianFacts ==
    ASSUME NEW v, NEW n \in Nat
    PROVE  IsSequence(LittleEndian(v, n))
<1>. DEFINE by == CHOOSE f : f = [j \in 0 .. n - 1 |-> IF j = 0 THEN v ELSE f[j - 1] \div 256]
            bytes == [j \in 1 .. n |-> by[j - 1] % 256]
<1>1. LittleEndian(v, n) = bytes
  BY Zenon DEF LittleEndian
<1>. HIDE DEF by
<1>2. bytes \in [1 .. n -> {bytes[j] : j \in 1 .. n}]
  BY Zenon
<1>. HIDE DEF bytes
<1>3. IsSequence(bytes)
  BY <1>2, SequenceOf
<1>. QED  BY <1>1, <1>3

\* An object with an instruction more, and with what it refers to.
LEMMA SoundReplaced ==
    ASSUME NEW o, NEW n \in Nat, Sound(o, n), NEW r, IsObject(r),
           IsSequence(r.text), Len(r.text) >= Len(o.text),
           r.data = o.data, r.bss = o.bss, r.symtab = o.symtab, r.strings = o.strings, r.at = o.at,
           Referred(r.rels, Len(o.strings), Len(r.text), n)
    PROVE  Sound(r, n)
<1>2. Len(r.text) \in Nat /\ Len(o.text) \in Nat /\ Len(o.data) \in Nat /\ o.bss \in Nat
      /\ Len(o.strings) \in Nat
  BY SequenceFacts, SoundFacts
<1>3. Len(o.data) <= Len(o.data) /\ o.bss <= o.bss /\ Len(o.text) <= Len(r.text)
  BY <1>2
<1>4. Named(o.strings, o.symtab, Len(o.text), Len(o.data), o.bss)
  BY Zenon DEF Sound
<1>. DEFINE t == Len(o.text)
            tt == Len(r.text)
            d == Len(o.data)
<1>5. Named(o.strings, o.symtab, tt, d, o.bss)
  <2>. HIDE DEF t, tt, d
  <2>1. t \in Nat /\ tt \in Nat /\ d \in Nat /\ t <= tt /\ d <= d /\ Named(o.strings, o.symtab, t, d, o.bss)
    BY <1>2, <1>3, <1>4, Zenon DEF t, tt, d
  <2>. QED  BY <1>2, <1>3, <2>1, MoreRoom
<1>. QED  BY <1>5, Zenon DEF Sound

\* An object with an instruction more.
LEMMA SoundInstruction ==
    ASSUME NEW o, NEW n \in Nat, Sound(o, n), NEW i
    PROVE  Sound([o EXCEPT !.text = Append(@, i)], n) /\ [o EXCEPT !.text = Append(@, i)].ok = o.ok
<1>. DEFINE x == Append(o.text, i)
<1>1. [o EXCEPT !.text = Append(@, i)] = [o EXCEPT !.text = x]
  OBVIOUS
<1>2. IsSequence(o.text) /\ IsObject(o) /\ Len(o.text) \in Nat
  BY SequenceFacts, Zenon DEF Sound
<1>3. IsSequence(x) /\ Len(x) = Len(o.text) + 1
  BY <1>2, AppendedSequence
<1>. HIDE DEF x
<1>4. Len(x) >= Len(o.text)
  BY <1>2, <1>3
<1>5. Sound([o EXCEPT !.text = x], n)
  BY <1>3, <1>4, SoundText
<1>6. [o EXCEPT !.text = x].ok = o.ok
  BY <1>2, PutText
<1>. QED  BY <1>1, <1>5, <1>6, Zenon

\* An object with a reference and the instruction that has it.
WithReference(o, rel, i) == [[o EXCEPT !.rels = Append(@, rel)] EXCEPT !.text = Append(@, i)]

\* An object with an instruction more, and a reference to a symbol at its place.
LEMMA SoundReference ==
    ASSUME NEW o, NEW n \in Nat, Sound(o, n), NEW i, NEW rel,
           Reference(rel, Len(o.strings), Len(o.text) + 1, n)
    PROVE  Sound(WithReference(o, rel, i), n) /\ WithReference(o, rel, i).ok = o.ok
<1>. DEFINE x == Append(o.text, i)
            y == Append(o.rels, rel)
            q == [o EXCEPT !.rels = y]
            r == [q EXCEPT !.text = x]
<1>1. /\ IsSequence(o.text) /\ IsObject(o) /\ IsSequence(o.rels) /\ Len(o.text) \in Nat
      /\ Len(o.rels) \in Nat /\ Len(o.strings) \in Nat
      /\ Referred(o.rels, Len(o.strings), Len(o.text), n)
  BY SequenceFacts, SoundFacts, Zenon DEF Sound
<1>2. IsSequence(x) /\ Len(x) = Len(o.text) + 1
  BY <1>1, AppendedSequence
<1>3. IsSequence(y) /\ Len(y) = Len(o.rels) + 1 /\ y[Len(o.rels) + 1] = rel
      /\ \A k \in 1 .. Len(o.rels) : y[k] = o.rels[k]
  BY <1>1, AppendedSequence
<1>. HIDE DEF x, y
<1>4. /\ IsObject(q) /\ q.text = o.text /\ q.data = o.data /\ q.bss = o.bss /\ q.symtab = o.symtab
      /\ q.rels = y /\ q.strings = o.strings /\ q.at = o.at /\ q.ok = o.ok
  BY <1>1, PutRels
<1>. HIDE DEF q
<1>5. /\ IsObject(r) /\ r.text = x /\ r.data = q.data /\ r.bss = q.bss /\ r.symtab = q.symtab
      /\ r.rels = q.rels /\ r.strings = q.strings /\ r.at = q.at /\ r.ok = q.ok
  BY <1>4, PutText
<1>6. WithReference(o, rel, i) = r
  BY <1>4, Zenon DEF WithReference, q, x, y
<1>. HIDE DEF r
<1>7. Referred(o.rels, Len(o.strings), Len(x), n)
  <2>1. Len(x) \in Nat /\ Len(o.text) <= Len(x) /\ Len(o.strings) <= Len(o.strings) /\ n <= n
    BY <1>1, <1>2
  <2>. QED  BY <1>1, <2>1, MoreReferred
<1>8. Referred(y, Len(o.strings), Len(x), n)
  <2>1. \A k \in 1 .. Len(o.rels) + 1 : k = Len(o.rels) + 1 \/ k \in 1 .. Len(o.rels)
    BY <1>1
  <2>2. Reference(rel, Len(o.strings), Len(x), n)
    BY <1>2
  <2>3. \A k \in 1 .. Len(o.rels) + 1 : Reference(y[k], Len(o.strings), Len(x), n)
    BY <1>3, <1>7, <2>1, <2>2, Zenon DEF Referred
  <2>. QED  BY <1>3, <2>3, Zenon DEF Referred
<1>9. Len(r.text) >= Len(o.text)
  BY <1>1, <1>2, <1>5
<1>10. Sound(r, n)
  <2>1. /\ IsObject(r) /\ IsSequence(r.text) /\ r.data = o.data /\ r.bss = o.bss /\ r.symtab = o.symtab
        /\ r.strings = o.strings /\ r.at = o.at /\ Referred(r.rels, Len(o.strings), Len(r.text), n)
    BY <1>2, <1>4, <1>5, <1>8, Zenon
  <2>. QED  BY <1>9, <2>1, SoundReplaced
<1>. QED  BY <1>4, <1>5, <1>6, <1>10, Zenon

\* An instruction that is accepted leaves the object sound.
LEMMA InstructFacts ==
    ASSUME NEW o, NEW n \in Nat, Sound(o, n), o.ok \in BOOLEAN, NEW i,
           NEW sym \in Symbols, NEW type, NEW ref, ref = [sym |-> sym, type |-> type],
           NEW token \in 1 .. n
    PROVE  LET r == [AddReference(o, ref, token) EXCEPT !.text = Append(@, i)]
           IN  Sound(r, n) /\ r.ok \in BOOLEAN
<1>. DEFINE named == AddSymbol(o, Plain(ref.sym), 0, "weak", NoSection)
            id == IdOf(named, Plain(ref.sym))
            rel == [offset |-> 4 * Len(o.text), sym |-> id, type |-> ref.type, token |-> token]
            r == [AddReference(o, ref, token) EXCEPT !.text = Append(@, i)]
<1>1. ref.sym = sym /\ ref.type = type
  OBVIOUS
<1>. HIDE DEF id
<1>2. named = AddSymbol(o, SymbolName(sym, -1, -1), 0, "weak", NoSection)
  BY <1>1, Zenon DEF Plain
<1>3. r = WithReference(named, rel, i)
  BY Zenon DEF AddReference, WithReference, id
<1>. HIDE DEF named
<1>. DEFINE b == "weak"
            zero == 0
            minus == -1
<1>4. b \in Bindings /\ NoSection \in AllSections /\ zero \in 0 .. Extent(Len(o.text), Len(o.data), o.bss, NoSection)
  BY DEF Bindings, AllSections, Extent, NoSection, TEXT, DATA, BSS
<1>5. named = AddSymbol(o, SymbolName(sym, minus, -1), zero, b, NoSection)
  BY <1>2, Zenon
<1>. HIDE DEF b, zero, minus
<1>6. /\ Sound(named, n) /\ named.ok \in BOOLEAN /\ named.text = o.text
      /\ HasName(named, SymbolName(sym, minus, -1))
  BY <1>4, <1>5, AddSymbolFacts
<1>7. id = IdOf(named, SymbolName(sym, minus, -1))
  BY <1>1, Zenon DEF id, Plain, minus
<1>8. id \in 9 .. Len(named.strings)
  BY <1>6, <1>7, IdFacts, Zenon
<1>9. Len(o.text) \in Nat /\ Len(o.text) \in 0 .. (Len(o.text) + 1) - 1
  BY SoundFacts
<1>10. Reference(rel, Len(named.strings), Len(named.text) + 1, n)
  BY <1>6, <1>8, <1>9, Zenon DEF Reference
<1>. HIDE DEF rel, r
<1>11. Sound(WithReference(named, rel, i), n) /\ WithReference(named, rel, i).ok = named.ok
  BY <1>6, <1>10, SoundReference
<1>. QED  BY <1>3, <1>6, <1>11, Zenon DEF r

-----------------------------------------------------------------------------
(* Settling the references. *)

\* Every list of open scopes is a sequence.
LEMMA ScopeShape ==
    ASSUME NEW ts, IsSequence(ts)
    PROVE  \E open, m : ScopeFold(ts) = [open |-> open, n |-> m] /\ IsSequence(open)
<1>. DEFINE n == Len(ts)
            base == [open |-> <<>>, n |-> 0]
<1>1. PICK h : /\ h[0] = base
               /\ \A k \in 0 .. n - 1 : h[k + 1] = ScopeStep(h[k], ts[k + 1])
               /\ ScopeFold(ts) = h[n]
  BY ScopeRun
<1>2. n \in Nat
  BY SequenceFacts
<1>. DEFINE Shaped(x) == \E open, m : x = [open |-> open, n |-> m] /\ IsSequence(open)
            T == {k \in 0 .. n : Shaped(h[k])}
<1>3. 0 \in T
  <2>1. Shaped(base)
    BY EmptySequence, Zenon
  <2>2. 0 \in 0 .. n
    BY <1>2
  <2>. HIDE DEF Shaped, base
  <2>. QED  BY <1>1, <2>1, <2>2, Zenon
<1>4. ASSUME NEW x, Shaped(x), NEW t PROVE Shaped(ScopeStep(x, t))
  <2>1. PICK open, m : x = [open |-> open, n |-> m] /\ IsSequence(open)
    BY <1>4, Zenon
  <2>2. x.open = open /\ x.n = m
    BY <2>1
  <2>. HIDE DEF Shaped
  <2>3. CASE t = ".scope"
    <3>1. ScopeStep(x, t) = [open |-> Append(open, m), n |-> m + 1]
      BY <2>2, <2>3, Zenon DEF ScopeStep
    <3>2. IsSequence(Append(open, m))
      BY <2>1, AppendedSequence
    <3>. QED  BY <3>1, <3>2, Zenon DEF Shaped
  <2>4. CASE t = ".scend"
    <3>. DEFINE f == Front(open)
    <3>1. ScopeStep(x, t) = [x EXCEPT !.open = Front(x.open)]
      <4>1. t # ".scope"
        BY <2>4
      <4>. QED  BY <2>4, <4>1, Zenon DEF ScopeStep
    <3>2. IsSequence(f)
      BY <2>1, FrontSequence
    <3>3. [x EXCEPT !.open = Front(x.open)] = [x EXCEPT !.open = f]
      BY <2>2, Zenon
    <3>. HIDE DEF f
    <3>4. [x EXCEPT !.open = f] = [open |-> f, n |-> m]
      BY <2>1
    <3>. QED  BY <3>1, <3>2, <3>3, <3>4, Zenon DEF Shaped
  <2>5. CASE t # ".scope" /\ t # ".scend"
    <3>1. ScopeStep(x, t) = x
      BY <2>5, Zenon DEF ScopeStep
    <3>. QED  BY <1>4, <3>1, Zenon
  <2>. QED  BY <2>3, <2>4, <2>5
<1>. HIDE DEF base, Shaped
<1>5. ASSUME NEW k \in 0 .. n - 1, k \in T PROVE k + 1 \in T
  <2>1. k + 1 \in 0 .. n
    BY <1>2
  <2>2. Shaped(h[k + 1])
    BY <1>1, <1>4, <1>5, Zenon
  <2>. QED  BY <2>1, <2>2
<1>. HIDE DEF T
<1>6. n \in T
  <2>1. \A k \in 0 .. n : k \in T
    <3>. HIDE DEF n
    <3>. QED  BY <1>2, <1>3, <1>5, NatInduct
  <2>2. n \in 0 .. n
    BY <1>2
  <2>. QED  BY <2>1, <2>2
<1>7. Shaped(ScopeFold(ts))
  BY <1>1, <1>6, Zenon DEF T
<1>. QED  BY <1>7, Zenon DEF Shaped

LEMMA ScopeSequence ==
    ASSUME NEW ts, IsSequence(ts)
    PROVE  IsSequence(ScopeFold(ts).open)
<1>1. PICK open, m : ScopeFold(ts) = [open |-> open, n |-> m] /\ IsSequence(open)
  BY ScopeShape, Zenon
<1>2. ScopeFold(ts).open = open
  BY <1>1
<1>. QED  BY <1>1, <1>2, Zenon

\* The scopes at a token are the fold up to it.
LEMMA ScopesAtFold ==
    ASSUME NEW n
    PROVE  ScopesAt(n) = ScopeFold(UpTo(toks, n)).open
  BY Zenon DEF ScopesAt, ScopeFold, ScopeStep, FoldLeft

\* What has to stay as it is while the references are settled.
Filling(o, r, n) ==
    /\ Sound(r, n) /\ r.strings = o.strings /\ Len(r.text) = Len(o.text) /\ r.ok = o.ok

Kept(o, rel) == [o EXCEPT !.rels = Append(@, rel)]
Settled(o, i, v) == [o EXCEPT !.text[i].offset = v]

\* A reference that stays for the linker.
LEMMA FillKeep ==
    ASSUME NEW o, NEW n \in Nat, Sound(o, n), NEW rel, Reference(rel, Len(o.strings), Len(o.text), n),
           NEW r, r = Kept(o, rel)
    PROVE  Filling(o, r, n)
<1>. DEFINE y == Append(o.rels, rel)
<1>1. /\ IsObject(o) /\ IsSequence(o.rels) /\ Len(o.rels) \in Nat
      /\ Referred(o.rels, Len(o.strings), Len(o.text), n)
  BY SequenceFacts, SoundFacts, Zenon DEF Sound
<1>2. IsSequence(y) /\ Len(y) = Len(o.rels) + 1 /\ y[Len(o.rels) + 1] = rel
      /\ \A k \in 1 .. Len(o.rels) : y[k] = o.rels[k]
  BY <1>1, AppendedSequence
<1>3. r = [o EXCEPT !.rels = y]
  BY Zenon DEF Kept
<1>. HIDE DEF y
<1>4. r.strings = o.strings /\ r.text = o.text /\ r.ok = o.ok
  <2>1. LET z == [o EXCEPT !.rels = y] IN z.strings = o.strings /\ z.text = o.text /\ z.ok = o.ok
    BY <1>1, PutRels
  <2>. QED  BY <1>3, <2>1, Zenon
<1>5. Referred(y, Len(o.strings), Len(o.text), n)
  <2>1. \A k \in 1 .. Len(o.rels) + 1 : k = Len(o.rels) + 1 \/ k \in 1 .. Len(o.rels)
    BY <1>1
  <2>2. \A k \in 1 .. Len(o.rels) + 1 : Reference(y[k], Len(o.strings), Len(o.text), n)
    BY <1>1, <1>2, <2>1, Zenon DEF Referred
  <2>. QED  BY <1>2, <2>2, Zenon DEF Referred
<1>6. Sound(r, n)
  <2>1. Sound([o EXCEPT !.rels = y], n)
    BY <1>5, SoundRels
  <2>. QED  BY <1>3, <2>1, Zenon
<1>. QED  BY <1>4, <1>6, Zenon DEF Filling

LEMMA FillText ==
    ASSUME NEW o, NEW n \in Nat, Sound(o, n), NEW i, NEW v,
           NEW r, r = Settled(o, i, v)
    PROVE  Filling(o, r, n)
<1>. DEFINE c == [o.text[i] EXCEPT !.offset = v]
            x == [o.text EXCEPT ![i] = c]
<1>1. r = [o EXCEPT !.text = x]
  BY DEF Settled
<1>2. IsObject(o) /\ IsSequence(o.text) /\ Len(o.text) \in Nat
  BY SoundFacts, Zenon DEF Sound
<1>. HIDE DEF c
<1>3. IsSequence(x) /\ Len(x) = Len(o.text)
  BY <1>2, ChangedSequence
<1>. HIDE DEF x
<1>4. Len(x) >= Len(o.text)
  BY <1>2, <1>3
<1>5. Sound([o EXCEPT !.text = x], n)
  BY <1>3, <1>4, SoundText
<1>6. r.strings = o.strings /\ r.text = x /\ r.ok = o.ok
  <2>1. LET z == [o EXCEPT !.text = x] IN z.strings = o.strings /\ z.text = x /\ z.ok = o.ok
    BY <1>2, PutText
  <2>. QED  BY <1>1, <2>1, Zenon
<1>. QED  BY <1>1, <1>3, <1>5, <1>6, Zenon DEF Filling

\* One reference that is settled, or left for the linker.
LEMMA FillOneFacts ==
    ASSUME NEW o, NEW n \in Nat, Sound(o, n), IsSequence(toks), n <= Len(toks),
           NEW rel, Reference(rel, Len(o.strings), Len(o.text), n)
    PROVE  Filling(o, FillStep(o, rel), n)
<1>. DEFINE sym == o.strings[rel.sym].sym
            open == ScopesAt(rel.token)
            levels == {k \in DOMAIN open : HasName(o, SymbolName(sym, open[k], -1))}
            entry == o.symtab[rel.sym]
            scope == open[Max(levels)]
            id == IdOf(o, SymbolName(sym, scope, -1))
            new == [rel EXCEPT !.sym = id]
            Jump == entry.binding # "weak" /\ entry.section = TEXT /\ rel.type = "B_OFFSET22"
            i == rel.offset \div 4 + 1
            v == entry.value \div 4 - rel.offset \div 4
            r == FillStep(o, rel)
<1>1. Len(toks) \in Nat /\ Len(o.strings) \in Nat
  BY SequenceFacts, SoundFacts
<1>2. PICK k \in 0 .. Len(o.text) - 1, s \in 9 .. Len(o.strings) : \E type : \E token \in 1 .. n :
        rel = [offset |-> 4 * k, sym |-> s, type |-> type, token |-> token]
  BY Zenon DEF Reference
<1>10. PICK type : \E token \in 1 .. n :
         rel = [offset |-> 4 * k, sym |-> s, type |-> type, token |-> token]
  BY <1>2, Zenon
<1>3. PICK token \in 1 .. n : rel = [offset |-> 4 * k, sym |-> s, type |-> type, token |-> token]
  BY <1>10, Zenon
<1>4. rel.sym = s /\ rel.token = token
  BY <1>3
<1>5. sym \in Symbols
  BY <1>4, Zenon DEF Sound, Named
<1>6. IsSequence(open) /\ Len(open) \in Nat /\ DOMAIN open = 1 .. Len(open)
  <2>1. token \in 0 .. Len(toks)
    BY <1>1
  <2>2. IsSequence(UpTo(toks, token))
    BY <2>1, UpToFacts
  <2>3. IsSequence(open)
    BY <1>4, <2>2, ScopesAtFold, ScopeSequence, Zenon
  <2>. HIDE DEF open
  <2>. QED  BY <2>3, SequenceFacts
<1>7. CASE levels # {}
  <2>1. r = Kept(o, new)
    BY <1>7, Zenon DEF FillStep, FillOne, Innermost, Kept
  <2>2. levels \in SUBSET (0 .. Len(open))
    <3>. HIDE DEF open
    <3>. QED  BY <1>6
  <2>. DEFINE m == Len(open)
  <2>3. Max(levels) \in levels
    <3>1. m \in Nat /\ levels \in SUBSET (0 .. m)
      BY <1>6, <2>2
    <3>. HIDE DEF levels, m
    <3>. QED  BY <1>7, <3>1, MaxNat
  <2>4. HasName(o, SymbolName(sym, scope, -1))
    BY <2>3, Zenon
  <2>. HIDE DEF sym, scope
  <2>. DEFINE file == -1
  <2>5. id \in 9 .. Len(o.strings)
    <3>1. HasName(o, SymbolName(sym, scope, file)) /\ id = IdOf(o, SymbolName(sym, scope, file))
      BY <2>4, Zenon
    <3>. HIDE DEF file
    <3>2. IdOf(o, SymbolName(sym, scope, file)) \in 9 .. Len(o.strings)
      BY <1>5, <3>1, IdFacts
    <3>. QED  BY <3>1, <3>2, Zenon
  <2>. HIDE DEF id
  <2>6. new = [offset |-> 4 * k, sym |-> id, type |-> type, token |-> token]
    BY <1>3
  <2>. HIDE DEF new
  <2>7. Reference(new, Len(o.strings), Len(o.text), n)
    BY <2>5, <2>6, Zenon DEF Reference
  <2>. HIDE DEF r
  <2>20. Filling(o, r, n)
    BY <2>1, <2>7, FillKeep
  <2>. QED  BY <2>20 DEF r
<1>8. CASE levels = {} /\ Jump
  <2>1. r = Settled(o, i, v)
    BY <1>8, Zenon DEF FillStep, FillOne, Settled
  <2>. HIDE DEF r, i, v
  <2>20. Filling(o, r, n)
    BY <2>1, FillText
  <2>. QED  BY <2>20 DEF r
<1>9. CASE levels = {} /\ ~Jump
  <2>1. r = Kept(o, rel)
    BY <1>9, Zenon DEF FillStep, FillOne, Kept
  <2>. HIDE DEF r
  <2>20. Filling(o, r, n)
    BY <2>1, FillKeep
  <2>. QED  BY <2>20 DEF r
<1>. QED  BY <1>7, <1>8, <1>9

\* References that are settled are references, and the object keeps its names and its size.
LEMMA FillLocalFacts ==
    ASSUME NEW o, NEW n \in Nat, Sound(o, n), IsSequence(toks), n <= Len(toks)
    PROVE  Filling(o, FillLocal(o), n)
<1>. DEFINE none == <<>>
            bare == [o EXCEPT !.rels = none]
            m == Len(o.rels)
<1>1. FillLocal(o) = FillFold(bare, o.rels)
  BY Zenon DEF FillLocal, FillFold
<1>2. /\ IsObject(o) /\ IsSequence(o.rels) /\ m \in Nat
      /\ \A k \in 1 .. m : Reference(o.rels[k], Len(o.strings), Len(o.text), n)
  <2>1. IsObject(o) /\ Referred(o.rels, Len(o.strings), Len(o.text), n)
    BY Zenon DEF Sound
  <2>2. IsSequence(o.rels) /\ \A k \in 1 .. m : Reference(o.rels[k], Len(o.strings), Len(o.text), n)
    BY <2>1, Zenon DEF Referred
  <2>3. m \in Nat
    BY <2>2, SequenceFacts
  <2>. QED  BY <2>1, <2>2, <2>3
<1>3. Filling(o, bare, n)
  <2>1. IsSequence(none) /\ Len(none) = 0 /\ \A k \in 1 .. 0 : FALSE
    BY EmptySequence
  <2>. HIDE DEF none
  <2>2. Referred(none, Len(o.strings), Len(o.text), n)
    BY <2>1, Zenon DEF Referred
  <2>3. Sound(bare, n)
    BY <2>2, SoundRels
  <2>4. bare.strings = o.strings /\ bare.text = o.text /\ bare.ok = o.ok
    BY <1>2, PutRels
  <2>. QED  BY <2>3, <2>4, Zenon DEF Filling
<1>. HIDE DEF bare
<1>4. PICK h : /\ h[0] = bare
               /\ \A k \in 0 .. m - 1 : h[k + 1] = FillStep(h[k], o.rels[k + 1])
               /\ FillFold(bare, o.rels) = h[m]
  BY <1>2, FillRun
<1>. DEFINE T == {k \in 0 .. m : Filling(o, h[k], n)}
<1>5. 0 \in T
  <2>1. 0 \in 0 .. m
    BY <1>2
  <2>. QED  BY <1>3, <1>4, <2>1, Zenon
<1>6. ASSUME NEW k \in 0 .. m - 1, k \in T PROVE k + 1 \in T
  <2>1. k + 1 \in 0 .. m /\ k + 1 \in 1 .. m
    BY <1>2
  <2>. DEFINE q == h[k]
              rel == o.rels[k + 1]
  <2>2. Sound(q, n) /\ q.strings = o.strings /\ Len(q.text) = Len(o.text) /\ q.ok = o.ok
    BY <1>6, Zenon DEF Filling
  <2>3. Reference(rel, Len(q.strings), Len(q.text), n)
    BY <1>2, <2>1, <2>2, Zenon
  <2>4. h[k + 1] = FillStep(q, rel)
    BY <1>4, Zenon
  <2>. HIDE DEF q, rel
  <2>5. Filling(q, FillStep(q, rel), n)
    BY <2>2, <2>3, FillOneFacts
  <2>6. Filling(o, h[k + 1], n)
    BY <2>2, <2>4, <2>5, Zenon DEF Filling
  <2>. QED  BY <2>1, <2>6
<1>. HIDE DEF T
<1>7. m \in T
  <2>1. \A k \in 0 .. m : k \in T
    <3>. HIDE DEF m
    <3>. QED  BY <1>2, <1>5, <1>6, NatInduct
  <2>2. m \in 0 .. m
    BY <1>2
  <2>. QED  BY <2>1, <2>2
<1>. QED  BY <1>1, <1>4, <1>7, Zenon DEF T

-----------------------------------------------------------------------------
(* Counting the scopes. *)

\* In front of the first token no scope is open.
LEMMA ScopeFoldNone ==
    ASSUME NEW ts, IsSequence(ts)
    PROVE  ScopeFold(UpTo(ts, 0)) = [open |-> <<>>, n |-> 0]
<1>1. 0 \in 0 .. Len(ts)
  BY SequenceFacts
<1>2. IsSequence(UpTo(ts, 0)) /\ Len(UpTo(ts, 0)) = 0
  BY <1>1, UpToFacts
<1>3. PICK h : h[0] = [open |-> <<>>, n |-> 0] /\ ScopeFold(UpTo(ts, 0)) = h[Len(UpTo(ts, 0))]
  BY <1>2, ScopeRun, Zenon
<1>. QED  BY <1>2, <1>3, Zenon

\* One token more: a scope that begins, one that ends, or neither.
LEMMA ScopeFoldMore ==
    ASSUME NEW ts, IsSequence(ts), NEW n \in 0 .. Len(ts) - 1
    PROVE  ScopeFold(UpTo(ts, n + 1)) = ScopeStep(ScopeFold(UpTo(ts, n)), ts[n + 1])
<1>. DEFINE a == UpTo(ts, n)
            b == UpTo(ts, n + 1)
            m == n + 1
<1>1. Len(ts) \in Nat /\ n \in Nat /\ n \in 0 .. Len(ts) /\ m \in 0 .. Len(ts)
  BY SequenceFacts
<1>2. IsSequence(a) /\ Len(a) = n /\ \A j \in 1 .. n : a[j] = ts[j]
  BY <1>1, UpToFacts
<1>3. IsSequence(b) /\ Len(b) = m /\ \A j \in 1 .. m : b[j] = ts[j]
  <2>1. b = UpTo(ts, m)
    OBVIOUS
  <2>. HIDE DEF m, b
  <2>. QED  BY <1>1, <2>1, UpToFacts
<1>. HIDE DEF a, b
<1>4. PICK h : /\ h[0] = [open |-> <<>>, n |-> 0]
               /\ \A k \in 0 .. Len(a) - 1 : h[k + 1] = ScopeStep(h[k], a[k + 1])
               /\ ScopeFold(a) = h[Len(a)]
  BY <1>2, ScopeRun
<1>5. PICK g : /\ g[0] = [open |-> <<>>, n |-> 0]
               /\ \A k \in 0 .. Len(b) - 1 : g[k + 1] = ScopeStep(g[k], b[k + 1])
               /\ ScopeFold(b) = g[Len(b)]
  BY <1>3, ScopeRun
<1>. DEFINE T == {k \in 0 .. n : h[k] = g[k]}
<1>6. 0 \in T
  <2>1. 0 \in 0 .. n
    BY <1>1
  <2>. QED  BY <1>4, <1>5, <2>1, Zenon
<1>7. ASSUME NEW k \in 0 .. n - 1, k \in T PROVE k + 1 \in T
  <2>1. k + 1 \in 1 .. n /\ k + 1 \in 1 .. m /\ k \in 0 .. Len(a) - 1 /\ k \in 0 .. Len(b) - 1
        /\ k + 1 \in 0 .. n
    BY <1>1, <1>2, <1>3
  <2>2. h[k + 1] = ScopeStep(h[k], a[k + 1]) /\ g[k + 1] = ScopeStep(g[k], b[k + 1])
    BY <1>4, <1>5, <2>1, Zenon
  <2>3. a[k + 1] = b[k + 1]
    BY <1>2, <1>3, <2>1, Zenon
  <2>. QED  BY <1>7, <2>1, <2>2, <2>3, Zenon
<1>. HIDE DEF T
<1>8. \A k \in 0 .. n : k \in T
  BY <1>1, <1>6, <1>7, NatInduct
<1>9. h[n] = g[n]
  <2>1. n \in 0 .. n
    BY <1>1
  <2>. QED  BY <1>8, <2>1, Zenon DEF T
<1>10. g[m] = ScopeStep(g[n], b[m])
  <2>1. n \in 0 .. Len(b) - 1
    BY <1>1, <1>3
  <2>. QED  BY <1>5, <2>1, Zenon
<1>11. b[m] = ts[m]
  <2>1. m \in 1 .. m
    BY <1>1
  <2>. QED  BY <1>3, <2>1, Zenon
<1>12. ScopeFold(b) = ScopeStep(ScopeFold(a), ts[m])
  BY <1>2, <1>3, <1>4, <1>5, <1>9, <1>10, <1>11, Zenon
<1>. QED  BY <1>12, Zenon DEF a, b

\* Tokens that begin and end no scope leave the open ones as they are.
LEMMA ScopeFoldSame ==
    ASSUME NEW ts, IsSequence(ts), NEW n \in 0 .. Len(ts), NEW m \in n .. Len(ts),
           \A j \in n + 1 .. m : ts[j] \notin ScopeTokens
    PROVE  ScopeFold(UpTo(ts, m)) = ScopeFold(UpTo(ts, n))
<1>1. Len(ts) \in Nat /\ n \in Nat /\ m \in Nat /\ m - n \in Nat
  BY SequenceFacts
<1>. DEFINE d == m - n
            T == {k \in 0 .. d : ScopeFold(UpTo(ts, n + k)) = ScopeFold(UpTo(ts, n))}
<1>2. 0 \in T
  <2>1. 0 \in 0 .. d /\ n + 0 = n
    BY <1>1
  <2>. QED  BY <2>1, Zenon
<1>3. ASSUME NEW k \in 0 .. d - 1, k \in T PROVE k + 1 \in T
  <2>. DEFINE i == n + k
  <2>1. i \in 0 .. Len(ts) - 1 /\ i + 1 \in n + 1 .. m /\ n + (k + 1) = i + 1 /\ k + 1 \in 0 .. d
    BY <1>1
  <2>2. ts[i + 1] \notin ScopeTokens
    BY <2>1, Zenon
  <2>3. ScopeFold(UpTo(ts, i)) = ScopeFold(UpTo(ts, n))
    BY <1>3, Zenon
  <2>. HIDE DEF i
  <2>4. ScopeFold(UpTo(ts, i + 1)) = ScopeStep(ScopeFold(UpTo(ts, i)), ts[i + 1])
    BY <2>1, ScopeFoldMore
  <2>5. ts[i + 1] # ".scope" /\ ts[i + 1] # ".scend"
    BY <2>2, Zenon DEF ScopeTokens
  <2>6. ScopeStep(ScopeFold(UpTo(ts, i)), ts[i + 1]) = ScopeFold(UpTo(ts, i))
    BY <2>5, Zenon DEF ScopeStep
  <2>7. ScopeFold(UpTo(ts, n + (k + 1))) = ScopeFold(UpTo(ts, n))
    BY <2>1, <2>3, <2>4, <2>6, Zenon
  <2>. QED  BY <2>1, <2>7, Zenon
<1>. HIDE DEF T
<1>4. \A k \in 0 .. d : k \in T
  <2>1. d \in Nat
    BY <1>1
  <2>. HIDE DEF d
  <2>. QED  BY <1>2, <1>3, <2>1, NatInduct
<1>5. d \in 0 .. d /\ n + d = m
  BY <1>1
<1>. HIDE DEF d
<1>6. ScopeFold(UpTo(ts, n + d)) = ScopeFold(UpTo(ts, n))
  BY <1>4, <1>5, Zenon DEF T
<1>. QED  BY <1>5, <1>6, Zenon

\* Where every scope begins and ends on a line of its own, a statement that passes over no
\* line has none inside.
LineScopes(ts) ==
    \A k \in DOMAIN ts : ts[k] \in {".scope", ".scend"} => k = 1 \/ ts[k - 1] = NL

\* A statement whose tokens are calm leaves the open scopes as they are.
LEMMA NoScopesInside ==
    ASSUME NEW ts, IsSequence(ts), LineScopes(ts), NEW i \in 0 .. Len(ts) - 1, NEW n,
           Passes(From(ts, i + 1), n), ts[i + 1] \notin ScopeTokens
    PROVE  /\ i + n \in i + 1 .. Len(ts)
           /\ ScopeFold(UpTo(ts, i + n)) = ScopeFold(UpTo(ts, i))
<1>. DEFINE st == From(ts, i + 1)
            i1 == i + 1
<1>1. Len(ts) \in Nat /\ i \in Nat /\ i1 \in 1 .. Len(ts) + 1 /\ DOMAIN ts = 1 .. Len(ts)
  BY SequenceFacts
<1>2. /\ IsSequence(st) /\ Len(st) = Len(ts) - i1 + 1
      /\ \A j \in 1 .. Len(ts) - i1 + 1 : st[j] = ts[i1 + j - 1]
  <2>1. st = From(ts, i1)
    OBVIOUS
  <2>. HIDE DEF st, i1
  <2>. QED  BY <1>1, <2>1, FromFacts
<1>3. n \in 1 .. Len(st) /\ \A j \in 2 .. n : st[j] \in ScopeTokens => st[j - 1] # NL
  BY Zenon DEF Passes
<1>. HIDE DEF st
<1>4. n \in 1 .. Len(ts) - i
  BY <1>1, <1>2, <1>3
<1>5. \A j \in i + 1 .. i + n : ts[j] \notin ScopeTokens
  <2>. SUFFICES ASSUME NEW j \in i + 1 .. i + n PROVE ts[j] \notin ScopeTokens
    BY Zenon
  <2>1. CASE j = i + 1
    BY <2>1, Zenon
  <2>2. CASE j # i + 1
    <3>. DEFINE l == j - i
    <3>1. l \in 2 .. n /\ l \in 1 .. Len(ts) - i1 + 1 /\ l - 1 \in 1 .. Len(ts) - i1 + 1
          /\ i1 + l - 1 = j /\ i1 + (l - 1) - 1 = j - 1 /\ j \in 1 .. Len(ts) /\ j # 1
      BY <1>1, <1>4, <2>2
    <3>2. st[l] = ts[i1 + l - 1] /\ st[l - 1] = ts[i1 + (l - 1) - 1]
      <4>. HIDE DEF l, i1
      <4>. QED  BY <1>2, <3>1
    <3>3. st[l] = ts[j] /\ st[l - 1] = ts[j - 1]
      BY <3>1, <3>2, Zenon
    <3>4. ts[j] \in {".scope", ".scend"} => ts[j - 1] = NL
      BY <1>1, <3>1, Zenon DEF LineScopes
    <3>. HIDE DEF l
    <3>. QED  BY <1>3, <3>1, <3>3, <3>4, Zenon DEF ScopeTokens
  <2>. QED  BY <2>1, <2>2
<1>. DEFINE m == i + n
<1>6. i \in 0 .. Len(ts) /\ m \in i .. Len(ts) /\ m \in i + 1 .. Len(ts)
  BY <1>1, <1>4
<1>7. \A j \in i + 1 .. m : ts[j] \notin ScopeTokens
  BY <1>5, Zenon
<1>. HIDE DEF m
<1>8. ScopeFold(UpTo(ts, m)) = ScopeFold(UpTo(ts, i))
  BY <1>6, <1>7, ScopeFoldSame
<1>. QED  BY <1>6, <1>8 DEF m

\* The scopes that are open: the ones that began later are further in.
OpenScopes(s, t) ==
    /\ IsSequence(s) /\ t \in Nat
    /\ \A j \in 1 .. Len(s) : s[j] \in Nat /\ s[j] < t
    /\ \A j, k \in 1 .. Len(s) : j < k => s[j] < s[k]

\* One scope more is open.
LEMMA OpenMore ==
    ASSUME NEW s, NEW t, OpenScopes(s, t)
    PROVE  OpenScopes(Append(s, t), t + 1)
<1>. DEFINE a == Append(s, t)
            n == Len(s)
<1>1. /\ IsSequence(s) /\ t \in Nat /\ n \in Nat /\ \A j \in 1 .. n : s[j] \in Nat /\ s[j] < t
      /\ \A j, k \in 1 .. n : j < k => s[j] < s[k]
  BY SequenceFacts DEF OpenScopes
<1>2. IsSequence(a) /\ Len(a) = n + 1 /\ (\A k \in 1 .. n : a[k] = s[k]) /\ a[n + 1] = t
  BY <1>1, AppendedSequence
<1>. HIDE DEF a, n
<1>3. \A j \in 1 .. n + 1 : j = n + 1 \/ j \in 1 .. n
  BY <1>1
<1>4. \A j \in 1 .. n + 1 : a[j] \in Nat /\ a[j] < t + 1
  BY <1>1, <1>2, <1>3
<1>5. \A j, k \in 1 .. n + 1 : j < k => a[j] < a[k]
  BY <1>1, <1>2, <1>3
<1>6. OpenScopes(a, t + 1)
  BY <1>1, <1>2, <1>4, <1>5 DEF OpenScopes
<1>. QED  BY <1>6 DEF a

\* One scope less is open.
LEMMA OpenLess ==
    ASSUME NEW s, NEW t, OpenScopes(s, t), s # <<>>
    PROVE  OpenScopes(Front(s), t)
<1>. DEFINE a == Front(s)
            n == Len(s)
<1>1. /\ IsSequence(s) /\ t \in Nat /\ n \in Nat /\ \A j \in 1 .. n : s[j] \in Nat /\ s[j] < t
      /\ \A j, k \in 1 .. n : j < k => s[j] < s[k]
  BY SequenceFacts DEF OpenScopes
<1>2. IsSequence(a) /\ Len(a) = n - 1 /\ \A k \in 1 .. n - 1 : a[k] = s[k]
  BY <1>1, FrontSequence
<1>. HIDE DEF a, n
<1>3. \A j \in 1 .. n - 1 : j \in 1 .. n
  BY <1>1
<1>4. \A j \in 1 .. n - 1 : a[j] \in Nat /\ a[j] < t
  BY <1>1, <1>2, <1>3
<1>5. \A j, k \in 1 .. n - 1 : j < k => a[j] < a[k]
  BY <1>1, <1>2, <1>3
<1>6. OpenScopes(a, t)
  BY <1>1, <1>2, <1>4, <1>5, Zenon DEF OpenScopes
<1>. QED  BY <1>6 DEF a

\* Both counts of the scopes agree on the first i tokens.
Counted(ts, i, s, t) ==
    LineScopes(ts) /\ ~Contains(ts, ".stop") =>
      s = ScopeFold(UpTo(ts, i)).open /\ t = ScopeFold(UpTo(ts, i)).n

\* At the first token both counts are empty.
LEMMA CountedNone ==
    ASSUME NEW ts, IsSequence(ts)
    PROVE  Counted(ts, 0, <<>>, 0)
<1>. DEFINE none == <<>>
            zero == 0
<1>. HIDE DEF none, zero
<1>1. ScopeFold(UpTo(ts, 0)) = [open |-> none, n |-> zero]
  BY ScopeFoldNone, Zenon DEF none, zero
<1>2. ScopeFold(UpTo(ts, 0)).open = none /\ ScopeFold(UpTo(ts, 0)).n = zero
  BY <1>1
<1>. QED  BY <1>2, Zenon DEF Counted, none, zero

\* A statement without scopes keeps the counts the same.
LEMMA CountedPassed ==
    ASSUME NEW ts, IsSequence(ts), NEW i \in 0 .. Len(ts) - 1, NEW n, Passes(From(ts, i + 1), n),
           ts[i + 1] \notin ScopeTokens, NEW s, NEW t, Counted(ts, i, s, t)
    PROVE  Counted(ts, i + n, s, t)
<1>1. LineScopes(ts) => ScopeFold(UpTo(ts, i + n)) = ScopeFold(UpTo(ts, i))
  BY NoScopesInside
<1>. QED  BY <1>1, Zenon DEF Counted

\* .scope: the list grows by the number of the scope in both counts.
LEMMA CountedOpen ==
    ASSUME NEW ts, IsSequence(ts), NEW i \in 0 .. Len(ts) - 1, ts[i + 1] = ".scope",
           NEW s, NEW t, Counted(ts, i, s, t)
    PROVE  Counted(ts, i + 1, Append(s, t), t + 1)
<1>. SUFFICES ASSUME LineScopes(ts), ~Contains(ts, ".stop")
              PROVE  /\ Append(s, t) = ScopeFold(UpTo(ts, i + 1)).open
                     /\ t + 1 = ScopeFold(UpTo(ts, i + 1)).n
  BY Zenon DEF Counted
<1>. DEFINE a == ScopeFold(UpTo(ts, i))
            b == ScopeFold(UpTo(ts, i + 1))
            x == Append(s, t)
            y == t + 1
<1>1. s = a.open /\ t = a.n
  BY Zenon DEF Counted
<1>2. b = ScopeStep(a, ts[i + 1])
  BY ScopeFoldMore
<1>. HIDE DEF a, b
<1>3. b = [open |-> Append(a.open, a.n), n |-> a.n + 1]
  BY <1>2, Zenon DEF ScopeStep
<1>4. b = [open |-> x, n |-> y]
  BY <1>1, <1>3, Zenon
<1>. HIDE DEF x, y
<1>5. b.open = x /\ b.n = y
  BY <1>4
<1>. QED  BY <1>5 DEF x, y, b

\* .scend: the last scope leaves the list in both counts.
LEMMA CountedClose ==
    ASSUME NEW ts, IsSequence(ts), NEW i \in 0 .. Len(ts) - 1, ts[i + 1] = ".scend",
           NEW s, NEW t, Counted(ts, i, s, t)
    PROVE  Counted(ts, i + 1, Front(s), t)
<1>. SUFFICES ASSUME LineScopes(ts), ~Contains(ts, ".stop")
              PROVE  /\ Front(s) = ScopeFold(UpTo(ts, i + 1)).open
                     /\ t = ScopeFold(UpTo(ts, i + 1)).n
  BY Zenon DEF Counted
<1>. DEFINE a == ScopeFold(UpTo(ts, i))
            b == ScopeFold(UpTo(ts, i + 1))
            x == Front(s)
<1>1. s = a.open /\ t = a.n
  BY Zenon DEF Counted
<1>2. b = ScopeStep(a, ts[i + 1])
  BY ScopeFoldMore
<1>6. IsSequence(UpTo(ts, i))
  <2>1. i \in 0 .. Len(ts)
    BY SequenceFacts
  <2>. QED  BY <2>1, UpToFacts
<1>7. PICK open, m : a = [open |-> open, n |-> m] /\ IsSequence(open)
  BY <1>6, ScopeShape, Zenon
<1>. HIDE DEF a, b
<1>3. b = [a EXCEPT !.open = Front(a.open)]
  <2>1. ts[i + 1] # ".scope"
    OBVIOUS
  <2>. QED  BY <1>2, <2>1, Zenon DEF ScopeStep
<1>4. b = [a EXCEPT !.open = x]
  BY <1>1, <1>3, Zenon
<1>. HIDE DEF x
<1>5. b.open = x /\ b.n = a.n
  BY <1>4, <1>7
<1>. QED  BY <1>1, <1>5 DEF x, b

\* A statement of one token.
LEMMA OneToken ==
    ASSUME NEW ts, IsSequence(ts), NEW i \in 0 .. Len(ts) - 1
    PROVE  Passes(From(ts, i + 1), 1)
<1>. DEFINE i1 == i + 1
<1>1. Len(ts) \in Nat /\ i1 \in 1 .. Len(ts) + 1
  BY SequenceFacts
<1>2. Len(From(ts, i1)) = Len(ts) - i1 + 1
  <2>. HIDE DEF i1
  <2>. QED  BY <1>1, FromFacts
<1>3. 1 \in 1 .. Len(From(ts, i + 1)) /\ \A j \in 2 .. 1 : FALSE
  BY <1>1, <1>2
<1>. QED  BY <1>3, Zenon DEF Passes

LEMMA PairSequence ==
    ASSUME NEW x, NEW y
    PROVE  IsSequence(<<x, y>>) /\ Len(<<x, y>>) = 2 /\ <<x, y>>[1] = x /\ <<x, y>>[2] = y
<1>1. <<x, y>> \in Seq({x, y}) /\ Len(<<x, y>>) = 2 /\ <<x, y>>[1] = x /\ <<x, y>>[2] = y
  OBVIOUS
<1>. QED  BY <1>1, Zenon DEF IsSequence

\* The tokens of a file once ret is replaced.
Returned(ts, i) == UpTo(ts, i + 1) \o <<"bx", "x29">> \o From(ts, i + 2)

\* ret stands for an instruction of three tokens, and the tokens behind it are the same.
LEMMA ReturnFacts ==
    ASSUME NEW ts, IsSequence(ts), NEW i \in 0 .. Len(ts) - 1,
           NEW new, new = Returned(ts, i)
    PROVE  /\ IsSequence(new) /\ Len(new) = Len(ts) + 2
           /\ \A k \in 1 .. i + 1 : new[k] = ts[k]
           /\ new[i + 2] = "bx" /\ new[i + 3] = "x29"
           /\ \A k \in i + 2 .. Len(ts) : new[k + 2] = ts[k]
<1>. DEFINE i1 == i + 1
            i2 == i + 2
            a == UpTo(ts, i1)
            b == <<"bx", "x29">>
            c == From(ts, i2)
<1>1. Len(ts) \in Nat /\ i1 \in 0 .. Len(ts) /\ i2 \in 1 .. Len(ts) + 1
  BY SequenceFacts
<1>2. new = (a \o b) \o c
  BY Zenon DEF Returned
<1>3. IsSequence(a) /\ Len(a) = i1 /\ \A k \in 1 .. i1 : a[k] = ts[k]
  <2>. HIDE DEF i1
  <2>. QED  BY <1>1, UpToFacts
<1>4. IsSequence(b) /\ Len(b) = 2 /\ b[1] = "bx" /\ b[2] = "x29"
  BY PairSequence, Zenon
<1>5. IsSequence(c) /\ Len(c) = Len(ts) - i2 + 1 /\ \A k \in 1 .. Len(ts) - i2 + 1 : c[k] = ts[i2 + k - 1]
  <2>. HIDE DEF i2
  <2>. QED  BY <1>1, FromFacts
<1>. HIDE DEF a, b, c
<1>. DEFINE d == a \o b
<1>6. IsSequence(d) /\ Len(d) = Len(a) + Len(b)
      /\ \A k \in 1 .. Len(a) + Len(b) : d[k] = IF k <= Len(a) THEN a[k] ELSE b[k - Len(a)]
  BY <1>3, <1>4, JoinedSequence
<1>. HIDE DEF d
<1>7. IsSequence(new) /\ Len(new) = Len(d) + Len(c)
      /\ \A k \in 1 .. Len(d) + Len(c) : new[k] = IF k <= Len(d) THEN d[k] ELSE c[k - Len(d)]
  <2>1. new = d \o c
    BY <1>2 DEF d
  <2>2. IsSequence(d) /\ IsSequence(c)
    BY <1>5, <1>6, Zenon
  <2>. QED  BY <2>1, <2>2, JoinedSequence, Zenon
<1>. DEFINE bx == "bx"
            lr == "x29"
<1>8. Len(b) = 2 /\ b[1] = bx /\ b[2] = lr
  BY <1>4
<1>. HIDE DEF bx, lr
<1>9. Len(new) = Len(ts) + 2 /\ Len(d) = i + 3
  BY <1>1, <1>3, <1>5, <1>6, <1>7, <1>8
<1>10. \A k \in 1 .. i + 1 : new[k] = ts[k]
  BY <1>1, <1>3, <1>5, <1>6, <1>7, <1>8, <1>9
<1>11. d[i + 2] = bx /\ d[i + 3] = lr
  <2>1. i + 2 \in 1 .. Len(a) + Len(b) /\ ~(i + 2 <= Len(a)) /\ (i + 2) - Len(a) = 1
        /\ i + 3 \in 1 .. Len(a) + Len(b) /\ ~(i + 3 <= Len(a)) /\ (i + 3) - Len(a) = 2
    BY <1>1, <1>3, <1>8
  <2>. QED  BY <1>6, <1>8, <2>1, Zenon
<1>12. new[i + 2] = bx /\ new[i + 3] = lr
  <2>1. i + 2 \in 1 .. Len(d) + Len(c) /\ i + 2 <= Len(d) /\ i + 3 \in 1 .. Len(d) + Len(c) /\ i + 3 <= Len(d)
    BY <1>1, <1>5, <1>9
  <2>. QED  BY <1>7, <1>11, <2>1, Zenon
<1>13. ASSUME NEW k \in i + 2 .. Len(ts) PROVE new[k + 2] = ts[k]
  <2>. DEFINE l == k - i1
  <2>1. k + 2 \in 1 .. Len(d) + Len(c) /\ ~(k + 2 <= Len(d)) /\ (k + 2) - Len(d) = l
        /\ l \in 1 .. Len(ts) - i2 + 1 /\ i2 + l - 1 = k
    BY <1>1, <1>5, <1>9
  <2>. HIDE DEF l
  <2>2. new[k + 2] = c[l]
    BY <1>7, <2>1, Zenon
  <2>3. c[l] = ts[i2 + l - 1]
    BY <1>5, <2>1, Zenon
  <2>. QED  BY <2>1, <2>2, <2>3, Zenon
<1>. QED  BY <1>7, <1>9, <1>10, <1>12, <1>13 DEF bx, lr

\* ret has no scope in it, so both counts go on behind it.
LEMMA CountedReturn ==
    ASSUME NEW ts, IsSequence(ts), NEW i \in 0 .. Len(ts) - 1, ts[i + 1] = "ret",
           NEW new, new = Returned(ts, i),
           NEW s, NEW t, Counted(ts, i, s, t)
    PROVE  Counted(new, i + 1, s, t)
<1>1. /\ IsSequence(new) /\ Len(new) = Len(ts) + 2
      /\ \A k \in 1 .. i + 1 : new[k] = ts[k]
      /\ new[i + 2] = "bx" /\ new[i + 3] = "x29"
      /\ \A k \in i + 2 .. Len(ts) : new[k + 2] = ts[k]
  BY ReturnFacts
<1>2. Len(ts) \in Nat /\ DOMAIN ts = 1 .. Len(ts) /\ DOMAIN new = 1 .. Len(new)
  BY <1>1, SequenceFacts
<1>3. ASSUME LineScopes(new) PROVE LineScopes(ts)
  <2>. SUFFICES ASSUME NEW k \in 1 .. Len(ts), ts[k] \in ScopeTokens, k # 1
                PROVE  ts[k - 1] = NL
    BY <1>2, Zenon DEF LineScopes, ScopeTokens
  <2>1. CASE k \in 1 .. i + 1
    <3>1. k - 1 \in 1 .. i + 1 /\ k \in DOMAIN new
      BY <1>1, <1>2, <2>1
    <3>2. new[k] = ts[k] /\ new[k - 1] = ts[k - 1]
      BY <1>1, <2>1, <3>1, Zenon
    <3>. QED  BY <1>3, <3>1, <3>2, Zenon DEF LineScopes, ScopeTokens
  <2>2. CASE k \in i + 2 .. Len(ts)
    <3>. DEFINE l == k + 2
                j == k + 1
    <3>1. l \in DOMAIN new /\ l # 1 /\ l - 1 = j
      BY <1>1, <1>2, <2>2
    <3>2. new[l] = ts[k]
      BY <1>1, <2>2, Zenon
    <3>. HIDE DEF l
    <3>3. new[j] = NL
      BY <1>3, <3>1, <3>2, Zenon DEF LineScopes, ScopeTokens
    <3>4. CASE k = i + 2
      <4>1. j = i + 3
        BY <3>4
      <4>2. new[j] = "x29"
        BY <1>1, <4>1, Zenon
      <4>3. NL # "x29"
        BY DEF NL
      <4>. QED  BY <3>3, <4>2, <4>3, Zenon
    <3>5. CASE k # i + 2
      <4>1. k - 1 \in i + 2 .. Len(ts) /\ (k - 1) + 2 = j
        BY <1>2, <2>2, <3>5
      <4>2. new[(k - 1) + 2] = ts[k - 1]
        BY <1>1, <4>1, Zenon
      <4>. QED  BY <3>3, <4>1, <4>2, Zenon
    <3>. QED  BY <3>4, <3>5
  <2>3. k \in 1 .. i + 1 \/ k \in i + 2 .. Len(ts)
    BY <1>2
  <2>. QED  BY <2>1, <2>2, <2>3
<1>4. ASSUME ~Contains(new, ".stop") PROVE ~Contains(ts, ".stop")
  <2>. SUFFICES ASSUME NEW k \in 1 .. Len(ts), ts[k] = ".stop"
                PROVE  FALSE
    BY Zenon DEF Contains
  <2>1. k \in 1 .. i + 1 \/ k \in i + 2 .. Len(ts)
    BY <1>2
  <2>2. k \in 1 .. Len(new) /\ k + 2 \in 1 .. Len(new)
    BY <1>1, <1>2
  <2>3. new[k] = ts[k] \/ new[k + 2] = ts[k]
    BY <1>1, <2>1, Zenon
  <2>. QED  BY <1>4, <2>2, <2>3, Zenon DEF Contains
<1>. DEFINE m == i + 1
<1>5. Counted(ts, m, s, t)
  <2>1. ts[i + 1] \notin ScopeTokens
    BY DEF ScopeTokens
  <2>. QED  BY <2>1, OneToken, CountedPassed
<1>6. UpTo(new, m) = UpTo(ts, m)
  <2>1. m \in 0 .. Len(ts) /\ m \in 0 .. Len(new)
    BY <1>1, <1>2
  <2>2. \A k \in 1 .. m : new[k] = ts[k]
    BY <1>1
  <2>. HIDE DEF m
  <2>3. IsSequence(UpTo(ts, m)) /\ Len(UpTo(ts, m)) = m /\ \A j \in 1 .. m : UpTo(ts, m)[j] = ts[j]
    BY <2>1, UpToFacts
  <2>4. IsSequence(UpTo(new, m)) /\ Len(UpTo(new, m)) = m /\ \A j \in 1 .. m : UpTo(new, m)[j] = new[j]
    BY <1>1, <2>1, UpToFacts
  <2>5. Len(UpTo(new, m)) = Len(UpTo(ts, m))
        /\ \A j \in 1 .. Len(UpTo(new, m)) : UpTo(new, m)[j] = UpTo(ts, m)[j]
    BY <2>2, <2>3, <2>4, Zenon
  <2>. QED  BY <2>3, <2>4, <2>5, SequencesEqual
<1>. HIDE DEF m
<1>7. Counted(new, m, s, t)
  BY <1>3, <1>4, <1>5, <1>6, Zenon DEF Counted
<1>. QED  BY <1>7 DEF m

-----------------------------------------------------------------------------
(* The invariant of the assembler, and its actions. *)

\* The object in the making: an error of the source leaves it as it was before.
Whole(o, n) == Sound(o, n) /\ o.ok = TRUE

\* The scopes that are open are numbered by the t scopes so far, and while a file is
\* assembled they are those of its first i tokens.
AssemblerState(ts, i, o, sec, open, t, st) ==
    /\ IsSequence(ts) /\ i \in 0 .. Len(ts) /\ sec \in AllSections
    /\ st \in {"not assembled", "assembling", "assembled", "failed"}
    /\ Whole(o, Len(ts))
    /\ OpenScopes(open, t)
    /\ st = "assembling" => Counted(ts, i, open, t)

AInv == AssemblerState(toks, ti, obj, section, scopes, total, astate)

\* An error ends the assembly with the tables as they were.
LEMMA StoppedKeeps ==
    ASSUME AInv, AssemblerError
    PROVE  AInv'
<1>1. "failed" \in {"not assembled", "assembling", "assembled", "failed"} /\ "failed" # "assembling"
  OBVIOUS
<1>. DEFINE f == "failed"
            a == "assembling"
            all == {"not assembled", "assembling", "assembled", "failed"}
<1>2. /\ astate' = f /\ toks' = toks /\ ti' = ti /\ obj' = obj /\ section' = section
      /\ scopes' = scopes /\ total' = total
  BY DEF AssemblerError
<1>3. f \in all /\ f # a
  OBVIOUS
<1>. HIDE DEF f, a, all
<1>4. AssemblerState(toks, ti, obj, section, scopes, total, astate)
  BY DEF AInv
<1>5. AssemblerState(toks', ti', obj', section', scopes', total', astate')
  BY <1>2, <1>3, <1>4, Zenon DEF AssemblerState, a, all
<1>. QED  BY <1>5 DEF AInv

\* A statement that is no begin and no end of a scope.
LEMMA StatementKeeps ==
    ASSUME AInv, astate = "assembling", ti < Len(toks), toks[ti + 1] \notin ScopeTokens,
           NEW n, Passes(Statement, n), ti' = ti + n, Whole(obj', Len(toks)),
           section' \in AllSections,
           toks' = toks, scopes' = scopes, total' = total, astate' = astate
    PROVE  AInv'
<1>1. /\ IsSequence(toks) /\ ti \in 0 .. Len(toks) /\ OpenScopes(scopes, total)
      /\ Counted(toks, ti, scopes, total)
  BY Zenon DEF AInv, AssemblerState
<1>2. Len(toks) \in Nat /\ ti \in 0 .. Len(toks) - 1
  BY <1>1, SequenceFacts
<1>3. Passes(From(toks, ti + 1), n)
  BY Zenon DEF Statement
<1>4. Counted(toks, ti + n, scopes, total)
  BY <1>1, <1>2, <1>3, CountedPassed
<1>5. ti + n \in 0 .. Len(toks)
  <2>. DEFINE i1 == ti + 1
  <2>1. i1 \in 1 .. Len(toks) + 1
    BY <1>2
  <2>2. Passes(From(toks, i1), n)
    BY <1>3
  <2>. HIDE DEF i1
  <2>3. Len(From(toks, i1)) = Len(toks) - i1 + 1
    BY <1>1, <2>1, FromFacts
  <2>4. n \in 1 .. Len(From(toks, i1))
    BY <2>2, Zenon DEF Passes
  <2>5. n \in 1 .. Len(toks) - ti
    BY <1>2, <2>3, <2>4 DEF i1
  <2>. QED  BY <1>2, <2>5
<1>. DEFINE a == "assembling"
            all == {"not assembled", "assembling", "assembled", "failed"}
<1>6. astate = a /\ a \in all
  OBVIOUS
<1>. HIDE DEF a, all
<1>7. AssemblerState(toks', ti', obj', section', scopes', total', astate')
  BY <1>1, <1>4, <1>5, <1>6, Zenon DEF AssemblerState, all
<1>. QED  BY <1>7 DEF AInv

\* A statement that changes the object and takes calm tokens keeps the invariant.
LEMMA AcceptKeeps ==
    ASSUME AInv, astate = "assembling", ti < Len(toks), toks[ti + 1] \notin ScopeTokens,
           NEW n, Passes(Statement, n), NEW o, Sound(o, Len(toks)), o.ok \in BOOLEAN, Accept(o, n)
    PROVE  AInv'
<1>1. CASE ~o.ok
  <2>1. AssemblerError
    BY <1>1, Zenon DEF Accept
  <2>. QED  BY <2>1, StoppedKeeps
<1>2. CASE o.ok
  <2>1. /\ obj' = o /\ ti' = ti + n /\ toks' = toks /\ section' = section /\ scopes' = scopes
        /\ total' = total /\ astate' = astate
    BY <1>2, Zenon DEF Accept, Take
  <2>2. o.ok = TRUE
    BY <1>2, Zenon
  <2>3. Whole(obj', Len(toks))
    BY <2>1, <2>2, Zenon DEF Whole
  <2>4. section' \in AllSections
    BY <2>1, Zenon DEF AInv, AssemblerState
  <2>. QED  BY <2>1, <2>3, <2>4, StatementKeeps
<1>. QED  BY <1>1, <1>2

\* What is known of a statement that begins.
LEMMA StartsFacts ==
    ASSUME AInv, NEW kinds, Starts(kinds)
    PROVE  /\ astate = "assembling" /\ ti < Len(toks) /\ toks[ti + 1] \in kinds
           /\ IsSequence(toks) /\ Len(toks) \in Nat /\ ti \in 0 .. Len(toks) - 1
           /\ IsSequence(Statement) /\ Len(Statement) = Len(toks) - ti
           /\ Statement[1] = toks[ti + 1] /\ Passes(Statement, 1)
           /\ Sound(obj, Len(toks)) /\ obj.ok = TRUE /\ obj.ok \in BOOLEAN /\ section \in AllSections
           /\ \A j \in 1 .. Len(toks) - ti : Statement[j] = toks[ti + j]
<1>1. astate = "assembling" /\ ti < Len(toks) /\ toks[ti + 1] \in kinds
  BY Zenon DEF Starts
<1>2. IsSequence(toks) /\ ti \in 0 .. Len(toks) /\ Sound(obj, Len(toks)) /\ obj.ok = TRUE /\ section \in AllSections
  BY Zenon DEF AInv, AssemblerState, Whole
<1>3. Len(toks) \in Nat
  BY <1>2, SequenceFacts
<1>4. ti \in 0 .. Len(toks) - 1
  BY <1>1, <1>2, <1>3
<1>5. Passes(Statement, 1)
  BY <1>2, <1>4, OneToken DEF Statement
<1>. DEFINE i1 == ti + 1
<1>6. i1 \in 1 .. Len(toks) + 1 /\ Statement = From(toks, i1)
  BY <1>3, <1>4 DEF Statement
<1>. HIDE DEF i1
<1>7. /\ IsSequence(Statement) /\ Len(Statement) = Len(toks) - i1 + 1
      /\ \A j \in 1 .. Len(toks) - i1 + 1 : Statement[j] = toks[i1 + j - 1]
  BY <1>2, <1>6, FromFacts
<1>8. Len(toks) - i1 + 1 = Len(toks) - ti /\ \A j \in 1 .. Len(toks) - ti : i1 + j - 1 = ti + j
  BY <1>3, <1>4 DEF i1
<1>9. \A j \in 1 .. Len(toks) - ti : Statement[j] = toks[ti + j]
  BY <1>7, <1>8, Zenon
<1>10. 1 \in 1 .. Len(toks) - ti
  BY <1>3, <1>4
<1>11. obj.ok \in BOOLEAN
  BY <1>2, Zenon
<1>. QED  BY <1>1, <1>2, <1>3, <1>4, <1>5, <1>7, <1>8, <1>9, <1>10, <1>11, Zenon

\* One lemma for each action of the assembler: it keeps AInv.
LEMMA SkipKeeps ==
    ASSUME AInv, Skip
    PROVE  AInv'
<1>1. Starts({NL} \cup Comments) /\ ti' = ti + 1 /\ toks' = toks /\ obj' = obj /\ section' = section
      /\ scopes' = scopes /\ total' = total /\ astate' = astate
  BY DEF Skip, Take
<1>2. /\ astate = "assembling" /\ ti < Len(toks) /\ toks[ti + 1] \in {NL} \cup Comments
      /\ Passes(Statement, 1) /\ Sound(obj, Len(toks)) /\ obj.ok = TRUE /\ section \in AllSections
  BY <1>1, StartsFacts
<1>3. toks[ti + 1] \notin ScopeTokens
  <2>1. \A x \in {NL} \cup Comments : x \notin ScopeTokens
    BY DEF ScopeTokens, NL, Comments
  <2>. QED  BY <1>2, <2>1, Zenon
<1>4. Whole(obj', Len(toks)) /\ section' \in AllSections
  BY <1>1, <1>2, Zenon DEF Whole
<1>. QED  BY <1>1, <1>2, <1>3, <1>4, StatementKeeps

\* The place in the section is a number.
LEMMA HereFacts ==
    ASSUME AInv, section # NoSection
    PROVE  Here(obj) \in Nat /\ Here(obj) \in 0 .. Extent(Len(obj.text), Len(obj.data), obj.bss, section)
<1>1. section \in AllSections /\ Sound(obj, Len(toks))
  BY Zenon DEF AInv, AssemblerState, Whole
<1>2. Len(obj.text) \in Nat /\ Len(obj.data) \in Nat /\ obj.bss \in Nat
  BY <1>1, SoundFacts
<1>. DEFINE t == Len(obj.text)
            d == Len(obj.data)
            b == obj.bss
<1>3. section \in {0, 1, 2}
  BY <1>1 DEF AllSections, TEXT, DATA, BSS, NoSection
<1>4. Here(obj) = IF section = 0 THEN 4 * t ELSE IF section = 1 THEN d ELSE b
  BY Zenon DEF Here, TEXT, DATA
<1>. HIDE DEF t, d, b
<1>5. Extent(t, d, b, section) = IF section = 0 THEN 4 * t ELSE IF section = 1 THEN d ELSE b
  BY <1>3 DEF Extent, TEXT, DATA, BSS
<1>6. t \in Nat /\ d \in Nat /\ b \in Nat
  BY <1>2 DEF t, d, b
<1>7. Here(obj) \in Nat /\ Here(obj) \in 0 .. Extent(t, d, b, section)
  BY <1>3, <1>4, <1>5, <1>6
<1>. QED  BY <1>7 DEF t, d, b

LEMMA LabelKeeps ==
    ASSUME AInv, Label
    PROVE  AInv'
<1>1. Starts(DOMAIN LabelOf)
  BY Zenon DEF Label
<1>2. /\ astate = "assembling" /\ ti < Len(toks) /\ toks[ti + 1] \in DOMAIN LabelOf
      /\ Len(toks) \in Nat /\ Passes(Statement, 1) /\ Sound(obj, Len(toks)) /\ obj.ok \in BOOLEAN
      /\ section \in AllSections
  BY <1>1, StartsFacts
<1>3. CASE section = NoSection
  <2>1. AssemblerError
    BY <1>3, Zenon DEF Label
  <2>. QED  BY <2>1, StoppedKeeps
<1>4. CASE section # NoSection
  <2>. DEFINE sym == LabelOf[toks[ti + 1]]
              o == AddSymbol(obj, SymbolName(sym, InnerScope, -1), Here(obj), "local", section)
              n == Len(toks)
              scope == InnerScope
              value == Here(obj)
              binding == "local"
              one == 1
  <2>1. Accept(o, one)
    BY <1>4, Zenon DEF Label
  <2>2. sym \in Symbols
    BY <1>2, TokensAssumption, Zenon
  <2>3. value \in 0 .. Extent(Len(obj.text), Len(obj.data), obj.bss, section)
    BY <1>4, HereFacts
  <2>4. binding \in Bindings
    BY Zenon DEF Bindings
  <2>5. o = AddSymbol(obj, SymbolName(sym, scope, -1), value, binding, section)
    OBVIOUS
  <2>6. toks[ti + 1] \notin ScopeTokens
    <3>1. ".scope" \in Directives /\ ".scend" \in Directives
      BY Zenon DEF Directives
    <3>. QED  BY <1>2, <3>1, LabelsAssumption, Zenon DEF ScopeTokens
  <2>. HIDE DEF sym, o, n, scope, value, binding
  <2>7. Sound(o, n) /\ o.ok \in BOOLEAN
    <3>1. n \in Nat /\ Sound(obj, n)
      BY <1>2 DEF n
    <3>. QED  BY <1>2, <2>2, <2>3, <2>4, <2>5, <3>1, AddSymbolFacts
  <2>8. Sound(o, Len(toks)) /\ Passes(Statement, one)
    BY <1>2, <2>7 DEF n
  <2>. HIDE DEF one
  <2>. QED  BY <1>2, <2>1, <2>6, <2>7, <2>8, AcceptKeeps
<1>. QED  BY <1>3, <1>4

\* An instruction.
LEMMA InstructKeeps ==
    ASSUME AInv, Instruct
    PROVE  AInv'
<1>. DEFINE parse == Parse(Statement)
            p == CHOOSE x \in parse : TRUE
            token == ti + p.took
            referred == IF p.refs = <<>> THEN obj ELSE AddReference(obj, p.refs[1], token)
            o == [referred EXCEPT !.text = Append(@, p.instr)]
            n == Len(toks)
<1>1. Starts(MnemonicNames)
  BY Zenon DEF Instruct
<1>2. /\ astate = "assembling" /\ ti < Len(toks) /\ toks[ti + 1] \in MnemonicNames
      /\ Len(toks) \in Nat /\ ti \in 0 .. Len(toks) - 1
      /\ IsSequence(Statement) /\ Len(Statement) = Len(toks) - ti
      /\ Statement[1] = toks[ti + 1] /\ Sound(obj, Len(toks)) /\ obj.ok \in BOOLEAN
  BY <1>1, StartsFacts
<1>3. CASE section # TEXT \/ parse = {}
  <2>1. AssemblerError
    BY <1>3, Zenon DEF Instruct
  <2>. QED  BY <2>1, StoppedKeeps
<1>4. CASE ~(section # TEXT \/ parse = {})
  <2>1. Accept(o, p.took)
    BY <1>4, Zenon DEF Instruct
  <2>2. p \in parse
    BY <1>4, Zenon
  <2>3. Reading(p, Statement)
    <3>1. Len(Statement) >= 1 /\ Statement[1] \in MnemonicNames
      BY <1>2
    <3>. HIDE DEF p
    <3>. QED  BY <1>2, <2>2, <3>1, ParseFacts
  <2>4. toks[ti + 1] \notin ScopeTokens
    <3>1. PICK t \in Mnemonics : t.name = toks[ti + 1]
      BY <1>2, Zenon DEF MnemonicNames
    <3>. QED  BY <3>1, MnemonicFacts
  <2>. HIDE DEF p
  <2>5. Passes(Statement, p.took) /\ Refers(p.refs)
    BY <2>3, Zenon DEF Reading
  <2>6. token \in 1 .. n
    <3>1. p.took \in 1 .. Len(Statement)
      BY <2>5, Zenon DEF Passes
    <3>. QED  BY <1>2, <3>1
  <2>. DEFINE i == p.instr
              q == p.refs[1]
  <2>7. o = [referred EXCEPT !.text = Append(@, i)] /\ n \in Nat /\ Sound(obj, n)
    BY <1>2
  <2>8. Sound(o, n) /\ o.ok \in BOOLEAN
    <3>1. CASE p.refs = <<>>
      <4>1. o = [obj EXCEPT !.text = Append(@, i)]
        BY <3>1
      <4>. HIDE DEF o, i, n
      <4>2. Sound([obj EXCEPT !.text = Append(@, i)], n) /\ [obj EXCEPT !.text = Append(@, i)].ok = obj.ok
        BY <2>7, SoundInstruction
      <4>. QED  BY <1>2, <4>1, <4>2, Zenon
    <3>2. CASE p.refs # <<>>
      <4>1. PICK sym \in Symbols : \E type : p.refs = Refer(sym, type)
        BY <2>5, <3>2, Zenon DEF Refers
      <4>2. PICK type : p.refs = Refer(sym, type)
        BY <4>1, Zenon
      <4>3. q = [sym |-> sym, type |-> type]
        <5>. DEFINE r == [sym |-> sym, type |-> type]
        <5>1. p.refs = <<r>>
          BY <4>2 DEF Refer
        <5>. HIDE DEF r
        <5>2. <<r>>[1] = r
          BY SingleSequence
        <5>3. q = r
          BY <5>1, <5>2, Zenon
        <5>. QED  BY <5>3 DEF r
      <4>4. o = [AddReference(obj, q, token) EXCEPT !.text = Append(@, i)]
        BY <3>2, Zenon
      <4>. HIDE DEF o, i, q, n, token
      <4>5. LET r == [AddReference(obj, q, token) EXCEPT !.text = Append(@, i)]
            IN  Sound(r, n) /\ r.ok \in BOOLEAN
        BY <1>2, <2>6, <2>7, <4>3, InstructFacts
      <4>. QED  BY <4>4, <4>5, Zenon
    <3>. QED  BY <3>1, <3>2
  <2>. HIDE DEF o
  <2>9. Sound(o, Len(toks))
    BY <2>8
  <2>. DEFINE took == p.took
  <2>10. Accept(o, took) /\ Passes(Statement, took)
    BY <2>1, <2>5
  <2>. HIDE DEF took
  <2>. QED  BY <1>2, <2>4, <2>8, <2>9, <2>10, AcceptKeeps
<1>. QED  BY <1>3, <1>4

\* More tokens do no harm.
LEMMA SoundMore ==
    ASSUME NEW o, NEW n \in Nat, Sound(o, n), NEW nn \in Nat, n <= nn
    PROVE  Sound(o, nn)
<1>. DEFINE t == Len(o.text)
            m == Len(o.strings)
<1>1. t \in Nat /\ m \in Nat
  BY SoundFacts
<1>2. Referred(o.rels, m, t, n)
  BY Zenon DEF Sound
<1>3. t <= t /\ m <= m
  BY <1>1
<1>. HIDE DEF t, m
<1>4. Referred(o.rels, m, t, nn)
  BY <1>1, <1>2, <1>3, MoreReferred
<1>. QED  BY <1>4, Zenon DEF Sound, t, m

\* ret, which is replaced among the tokens.
LEMMA ReturnKeeps ==
    ASSUME AInv, Return
    PROVE  AInv'
<1>1. Starts({"ret"})
  BY Zenon DEF Return
<1>2. /\ astate = "assembling" /\ ti < Len(toks) /\ toks[ti + 1] \in {"ret"} /\ IsSequence(toks)
      /\ Len(toks) \in Nat /\ ti \in 0 .. Len(toks) - 1
      /\ Sound(obj, Len(toks)) /\ obj.ok = TRUE /\ section \in AllSections
  BY <1>1, StartsFacts
<1>3. CASE section # TEXT
  <2>1. AssemblerError
    BY <1>3, Zenon DEF Return
  <2>. QED  BY <2>1, StoppedKeeps
<1>4. CASE section = TEXT
  <2>1. /\ toks' = Returned(toks, ti) /\ ti' = ti + 1 /\ obj' = obj /\ section' = section
        /\ scopes' = scopes /\ total' = total /\ astate' = astate
    BY <1>4, Zenon DEF Return, Take, Returned
  <2>. DEFINE new == Returned(toks, ti)
              nn == Len(new)
              i == ti + 1
  <2>2. toks[ti + 1] = "ret"
    BY <1>2
  <2>3. IsSequence(new) /\ nn = Len(toks) + 2
    <3>. HIDE DEF new
    <3>1. new = Returned(toks, ti)
      BY DEF new
    <3>. QED  BY <1>2, <3>1, ReturnFacts
  <2>4. OpenScopes(scopes, total) /\ Counted(toks, ti, scopes, total)
    BY <1>2, Zenon DEF AInv, AssemblerState
  <2>5. Counted(new, i, scopes, total)
    <3>1. new = Returned(toks, ti)
      OBVIOUS
    <3>. HIDE DEF new
    <3>. QED  BY <1>2, <2>2, <2>4, <3>1, CountedReturn
  <2>. HIDE DEF new
  <2>6. i \in 0 .. Len(new)
    BY <1>2, <2>3
  <2>7. Whole(obj, Len(new))
    <3>1. nn \in Nat /\ Len(toks) <= nn
      BY <1>2, <2>3
    <3>. HIDE DEF nn
    <3>2. Sound(obj, nn)
      BY <1>2, <3>1, SoundMore
    <3>. QED  BY <1>2, <3>2, Zenon DEF Whole, nn
  <2>8. toks' = new /\ ti' = i
    BY <2>1 DEF new
  <2>. HIDE DEF i
  <2>. DEFINE all == {"not assembled", "assembling", "assembled", "failed"}
  <2>9. astate \in all
    BY <1>2
  <2>. HIDE DEF all
  <2>10. AssemblerState(toks', ti', obj', section', scopes', total', astate')
    BY <1>2, <2>1, <2>3, <2>4, <2>5, <2>6, <2>7, <2>8, <2>9, Zenon DEF AssemblerState, all
  <2>. QED  BY <2>10 DEF AInv
<1>. QED  BY <1>3, <1>4

\* .global and .weak.
LEMMA DeclareKeeps ==
    ASSUME AInv, Declare
    PROVE  AInv'
<1>1. Starts({".global", ".extern"}) /\ (section = NoSection => IsSymbol(Token(Statement, 2)))
  BY Zenon DEF Declare
<1>2. /\ astate = "assembling" /\ ti < Len(toks) /\ toks[ti + 1] \in {".global", ".extern"}
      /\ Len(toks) \in Nat
      /\ IsSequence(Statement) /\ Statement[1] = toks[ti + 1] /\ Passes(Statement, 1)
      /\ Sound(obj, Len(toks)) /\ obj.ok \in BOOLEAN
  BY <1>1, StartsFacts
<1>3. CASE section # NoSection
  <2>1. AssemblerError
    BY <1>3, Zenon DEF Declare
  <2>. QED  BY <2>1, StoppedKeeps
<1>4. CASE section = NoSection
  <2>. DEFINE sym == Statement[2]
              binding == IF Statement[1] = ".global" THEN "global" ELSE "weak"
              o == AddSymbol(obj, Plain(sym), 0, binding, NoSection)
              two == 2
              zero == 0
              minus == -1
              n == Len(toks)
  <2>1. Accept(o, two)
    BY <1>4, Zenon DEF Declare
  <2>2. two \in 1 .. Len(Statement) /\ sym \in Symbols
    <3>1. IsSymbol(Token(Statement, two)) /\ sym = Statement[two]
      BY <1>1, <1>4, Zenon
    <3>. HIDE DEF two, sym
    <3>. QED  BY <1>2, <3>1, SymbolFacts
  <2>3. toks[ti + 1] \notin ScopeTokens /\ toks[ti + 1] # NL
    BY <1>2 DEF ScopeTokens, NL
  <2>4. Passes(Statement, two)
    <3>1. Quiet(Statement, 1)
      <4>1. 1 \in 0 .. Len(Statement) /\ \A j \in 1 .. 1 : j = 1
        BY <1>2, SequenceFacts DEF Passes
      <4>. QED  BY <1>2, <2>3, <4>1, Zenon DEF Quiet
    <3>. DEFINE one == 1
    <3>2. one \in Nat \ {0} /\ Quiet(Statement, one) /\ one + 1 = two
      BY <3>1
    <3>. HIDE DEF one, two
    <3>3. one + 1 \in 1 .. Len(Statement)
      BY <2>2, <3>2
    <3>4. Passes(Statement, one + 1)
      BY <1>2, <3>2, <3>3, QuietPasses
    <3>. QED  BY <3>2, <3>4
  <2>5. binding \in Bindings
    BY Zenon DEF Bindings
  <2>6. NoSection \in AllSections /\ zero \in 0 .. Extent(Len(obj.text), Len(obj.data), obj.bss, NoSection)
    BY DEF AllSections, Extent, NoSection, TEXT, DATA, BSS
  <2>7. o = AddSymbol(obj, SymbolName(sym, minus, -1), zero, binding, NoSection)
    BY Zenon DEF Plain
  <2>. HIDE DEF sym, binding, o, zero, minus
  <2>8. Sound(o, n) /\ o.ok \in BOOLEAN
    <3>1. n \in Nat /\ Sound(obj, n)
      BY <1>2
    <3>. HIDE DEF n
    <3>. QED  BY <1>2, <2>2, <2>5, <2>6, <2>7, <3>1, AddSymbolFacts
  <2>. HIDE DEF two
  <2>. QED  BY <1>2, <2>1, <2>3, <2>4, <2>8, AcceptKeeps
<1>. QED  BY <1>3, <1>4

\* Where a directive goes that moves on.
LEMMA TargetIsInt ==
    ASSUME NEW t \in {".org", ".advance", ".align"}, NEW at \in Nat, NEW v \in Nat,
           t = ".align" => v # 0
    PROVE  Target(t, at, v) \in Int
<1>1. CASE t = ".org"
  BY <1>1 DEF Target
<1>2. CASE t = ".advance"
  BY <1>2 DEF Target
<1>3. CASE t = ".align"
  <2>1. v \in Nat \ {0}
    BY <1>3
  <2>2. at + ((v - (at % v)) % v) \in Int
    <3>. DEFINE a == at % v
    <3>1. a \in Int
      BY <2>1
    <3>. HIDE DEF a
    <3>. DEFINE b == v - a
    <3>2. b \in Int
      BY <3>1
    <3>. HIDE DEF b
    <3>3. b % v \in Int
      BY <2>1, <3>2
    <3>4. at + (b % v) \in Int
      BY <3>3
    <3>. QED  BY <3>4 DEF a, b
  <2>. QED  BY <1>3, <2>2, Zenon DEF Target
<1>. QED  BY <1>1, <1>2, <1>3

\* A section that is filled up to a place behind its end is a sound section.
LEMMA MovedFacts ==
    ASSUME NEW n \in Nat, Sound(obj, n), NEW to \in Nat, section \in {TEXT, DATA, BSS}, Here(obj) <= to
    PROVE  Sound(MovedTo(obj, to), n) /\ MovedTo(obj, to).ok = obj.ok
<1>. DEFINE o == MovedTo(obj, to)
<1>1. IsSequence(obj.text) /\ IsSequence(obj.data) /\ IsObject(obj) /\ obj.bss \in Nat
  BY Zenon DEF Sound
<1>2. CASE section = TEXT
  <2>. DEFINE cell == [op |-> "hlt"]
              m == to \div 4
              x == Filled(obj.text, m, cell)
  <2>0. section # DATA /\ section # BSS
    BY <1>2 DEF TEXT, DATA, BSS
  <2>1. o = [obj EXCEPT !.text = x]
    BY <1>2, <2>0, Zenon DEF MovedTo
  <2>2. m \in Int
    OBVIOUS
  <2>. HIDE DEF m, cell
  <2>3. IsSequence(x) /\ Len(x) >= Len(obj.text)
    BY <1>1, <2>2, FilledSequence
  <2>. HIDE DEF x, o
  <2>4. Sound([obj EXCEPT !.text = x], n)
    BY <2>3, SoundText
  <2>5. [obj EXCEPT !.text = x].ok = obj.ok
    BY <1>1, PutText
  <2>6. Sound(o, n) /\ o.ok = obj.ok
    BY <2>1, <2>4, <2>5, Zenon
  <2>. QED  BY <2>6 DEF o
<1>3. CASE section = DATA
  <2>. DEFINE cell == 0
              x == Filled(obj.data, to, cell)
  <2>0. section # TEXT /\ section # BSS
    BY <1>3 DEF TEXT, DATA, BSS
  <2>1. o = [obj EXCEPT !.data = x]
    BY <1>3, <2>0, Zenon DEF MovedTo
  <2>. HIDE DEF cell
  <2>3. IsSequence(x) /\ Len(x) >= Len(obj.data)
    BY <1>1, FilledSequence
  <2>. HIDE DEF x, o
  <2>4. Sound([obj EXCEPT !.data = x], n)
    BY <2>3, SoundData
  <2>5. [obj EXCEPT !.data = x].ok = obj.ok
    BY <1>1, PutData
  <2>6. Sound(o, n) /\ o.ok = obj.ok
    BY <2>1, <2>4, <2>5, Zenon
  <2>. QED  BY <2>6 DEF o
<1>4. CASE section = BSS
  <2>0. section # TEXT /\ section # DATA
    BY <1>4 DEF TEXT, DATA, BSS
  <2>1. o = [obj EXCEPT !.bss = to]
    BY <1>4, <2>0, Zenon DEF MovedTo
  <2>2. Here(obj) = obj.bss
    BY <2>0, Zenon DEF Here
  <2>3. to >= obj.bss
    BY <1>1, <2>2
  <2>. HIDE DEF o
  <2>4. Sound([obj EXCEPT !.bss = to], n)
    BY <2>3, SoundBss
  <2>5. [obj EXCEPT !.bss = to].ok = obj.ok
    BY <1>1, PutBss
  <2>6. Sound(o, n) /\ o.ok = obj.ok
    BY <2>1, <2>4, <2>5, Zenon
  <2>. QED  BY <2>6 DEF o
<1>. QED  BY <1>2, <1>3, <1>4

\* .org, .advance and .align.
LEMMA MovePlaceKeeps ==
    ASSUME AInv, MovePlace
    PROVE  AInv'
<1>. DEFINE t == Statement[1]
            place == Expression(Statement, 2)
            e == CHOOSE x \in place : TRUE
            to == Target(t, Here(obj), e.val)
            Refused == \/ section = NoSection
                       \/ t = ".align" /\ e.val = 0
                       \/ section = TEXT /\ e.val % 4 # 0
                       \/ to < Here(obj)
            Step == IF place = {} THEN AssemblerError
                    ELSE IF Far(t, e.val)
                      THEN Take(e.end) /\ UNCHANGED <<toks, obj, section, scopes, total, astate>>
                    ELSE IF Refused THEN AssemblerError ELSE Accept(MovedTo(obj, to), e.end)
<1>1. Starts({".org", ".advance", ".align"})
  BY Zenon DEF MovePlace
<1>0. Step
  BY DEF MovePlace
<1>2. /\ astate = "assembling" /\ ti < Len(toks) /\ toks[ti + 1] \in {".org", ".advance", ".align"}
      /\ Len(toks) \in Nat
      /\ IsSequence(Statement) /\ Statement[1] = toks[ti + 1] /\ Passes(Statement, 1)
      /\ Sound(obj, Len(toks)) /\ obj.ok = TRUE /\ obj.ok \in BOOLEAN /\ section \in AllSections
  BY <1>1, StartsFacts
<1>3. toks[ti + 1] \notin ScopeTokens /\ toks[ti + 1] # NL
  BY <1>2 DEF ScopeTokens, NL
<1>4. CASE place = {}
  <2>. HIDE DEF place, e, to, t, Refused
  <2>1. AssemblerError
    BY <1>0, <1>4, Zenon
  <2>. QED  BY <2>1, StoppedKeeps
<1>5. CASE place # {}
  <2>. DEFINE end == e.end
              val == e.val
              at == Here(obj)
  <2>1. e \in Expression(Statement, 2)
    BY <1>5, Zenon
  <2>2. Quiet(Statement, 1)
    <3>1. 1 \in 0 .. Len(Statement) /\ \A j \in 1 .. 1 : j = 1
      BY <1>2, SequenceFacts DEF Passes
    <3>. QED  BY <1>2, <1>3, <3>1, Zenon DEF Quiet
  <2>3. val \in Int /\ Passes(Statement, end)
    <3>. DEFINE two == 2
    <3>1. two \in Nat /\ two >= 2 /\ two - 1 = 1 /\ e \in Expression(Statement, two)
      BY <2>1
    <3>. HIDE DEF two, e
    <3>2. Quiet(Statement, two - 1)
      BY <2>2, <3>1
    <3>. QED  BY <1>2, <3>1, <3>2, QuietExpression
  <2>4. t \in {".org", ".advance", ".align"}
    BY <1>2, Zenon
  <2>11. to = Target(t, at, val)
    BY Zenon
  <2>5. ~Refused => section # NoSection /\ ~(t = ".align" /\ val = 0) /\ ~(to < at)
    BY Zenon
  <2>6. IF Far(t, val)
          THEN Take(end) /\ UNCHANGED <<toks, obj, section, scopes, total, astate>>
          ELSE IF Refused THEN AssemblerError ELSE Accept(MovedTo(obj, to), end)
    <3>. HIDE DEF place, e, to, t, Refused
    <3>. QED  BY <1>0, <1>5, Zenon
  <2>7. section # NoSection => at \in Nat
    BY HereFacts
  <2>. HIDE DEF place, e, to, t, Refused, at, val, end
  <2>8. CASE Far(t, val)
    <3>1. /\ ti' = ti + end /\ toks' = toks /\ obj' = obj /\ section' = section
          /\ scopes' = scopes /\ total' = total /\ astate' = astate
      BY <2>6, <2>8, Zenon DEF Take
    <3>2. Whole(obj', Len(toks)) /\ section' \in AllSections
      BY <1>2, <3>1, Zenon DEF Whole
    <3>. QED  BY <1>2, <1>3, <2>3, <3>1, <3>2, StatementKeeps
  <2>9. CASE ~Far(t, val) /\ Refused
    <3>1. AssemblerError
      BY <2>6, <2>9, Zenon
    <3>. QED  BY <3>1, StoppedKeeps
  <2>10. CASE ~Far(t, val) /\ ~Refused
    <3>. DEFINE o == MovedTo(obj, to)
    <3>1. Accept(o, end)
      BY <2>6, <2>10, Zenon
    <3>2. section # NoSection /\ (t = ".align" => val # 0) /\ ~(to < at)
      BY <2>5, <2>10, Zenon
    <3>3. ~(val < 0)
      BY <2>10, SMT DEF Far
    <3>4. at \in Nat /\ val \in Nat
      BY <2>3, <2>7, <3>2, <3>3
    <3>5. to \in Int
      BY <2>4, <2>11, <3>2, <3>4, TargetIsInt
    <3>6. to \in Nat /\ at <= to
      BY <3>2, <3>4, <3>5
    <3>7. section \in {TEXT, DATA, BSS}
      BY <1>2, <3>2, Zenon DEF AllSections
    <3>. DEFINE n == Len(toks)
    <3>8. n \in Nat /\ Sound(obj, n)
      BY <1>2
    <3>. HIDE DEF n
    <3>9. Sound(o, n) /\ o.ok = obj.ok
      BY <3>6, <3>7, <3>8, MovedFacts DEF at
    <3>. HIDE DEF o
    <3>10. Sound(o, Len(toks)) /\ o.ok \in BOOLEAN
      BY <1>2, <3>9, Zenon DEF n
    <3>. QED  BY <1>2, <1>3, <2>3, <3>1, <3>10, AcceptKeeps
  <2>. QED  BY <2>8, <2>9, <2>10, Zenon
<1>. QED  BY <1>4, <1>5

\* .scope.
LEMMA BeginScopeKeeps ==
    ASSUME AInv, BeginScope
    PROVE  AInv'
<1>1. /\ Starts({".scope"}) /\ scopes' = Append(scopes, total) /\ total' = total + 1 /\ ti' = ti + 1
      /\ toks' = toks /\ obj' = obj /\ section' = section /\ astate' = astate
  BY Zenon DEF BeginScope, Take
<1>2. /\ astate = "assembling" /\ ti < Len(toks) /\ toks[ti + 1] \in {".scope"} /\ IsSequence(toks)
      /\ Len(toks) \in Nat /\ ti \in 0 .. Len(toks) - 1
  BY <1>1, StartsFacts
<1>3. toks[ti + 1] = ".scope"
  BY <1>2
<1>4. AssemblerState(toks, ti, obj, section, scopes, total, astate)
  BY Zenon DEF AInv
<1>5. OpenScopes(scopes, total) /\ Counted(toks, ti, scopes, total)
  BY <1>2, <1>4, Zenon DEF AssemblerState
<1>6. OpenScopes(Append(scopes, total), total + 1)
  BY <1>5, OpenMore
<1>7. Counted(toks, ti + 1, Append(scopes, total), total + 1)
  BY <1>2, <1>3, <1>5, CountedOpen
<1>8. ti + 1 \in 0 .. Len(toks)
  BY <1>2
<1>9. AssemblerState(toks', ti', obj', section', scopes', total', astate')
  BY <1>1, <1>4, <1>6, <1>7, <1>8, Zenon DEF AssemblerState
<1>. QED  BY <1>9 DEF AInv

\* .scend.
LEMMA EndScopeKeeps ==
    ASSUME AInv, EndScope
    PROVE  AInv'
<1>1. Starts({".scend"})
  BY Zenon DEF EndScope
<1>2. /\ astate = "assembling" /\ ti < Len(toks) /\ toks[ti + 1] \in {".scend"} /\ IsSequence(toks)
      /\ Len(toks) \in Nat /\ ti \in 0 .. Len(toks) - 1
  BY <1>1, StartsFacts
<1>3. CASE scopes = <<>>
  <2>1. AssemblerError
    BY <1>3, Zenon DEF EndScope
  <2>. QED  BY <2>1, StoppedKeeps
<1>4. CASE scopes # <<>>
  <2>1. /\ scopes' = Front(scopes) /\ total' = total /\ ti' = ti + 1
        /\ toks' = toks /\ obj' = obj /\ section' = section /\ astate' = astate
    BY <1>4, Zenon DEF EndScope, Take
  <2>2. toks[ti + 1] = ".scend"
    BY <1>2
  <2>3. AssemblerState(toks, ti, obj, section, scopes, total, astate)
    BY Zenon DEF AInv
  <2>4. OpenScopes(scopes, total) /\ Counted(toks, ti, scopes, total)
    BY <1>2, <2>3, Zenon DEF AssemblerState
  <2>5. OpenScopes(Front(scopes), total)
    BY <1>4, <2>4, OpenLess
  <2>6. Counted(toks, ti + 1, Front(scopes), total)
    BY <1>2, <2>2, <2>4, CountedClose
  <2>7. ti + 1 \in 0 .. Len(toks)
    BY <1>2
  <2>8. AssemblerState(toks', ti', obj', section', scopes', total', astate')
    BY <2>1, <2>3, <2>5, <2>6, <2>7, Zenon DEF AssemblerState
  <2>. QED  BY <2>8 DEF AInv
<1>. QED  BY <1>3, <1>4

\* .text, .data and .bss.
LEMMA EnterSectionKeeps ==
    ASSUME AInv, EnterSection
    PROVE  AInv'
<1>1. /\ Starts(Sections) /\ ti' = ti + 1 /\ toks' = toks /\ obj' = obj
      /\ scopes' = scopes /\ total' = total /\ astate' = astate
      /\ section' = (CASE Statement[1] = ".text" -> TEXT [] Statement[1] = ".data" -> DATA
                       [] Statement[1] = ".bss" -> BSS)
  BY Zenon DEF EnterSection, Take
<1>2. /\ astate = "assembling" /\ ti < Len(toks) /\ toks[ti + 1] \in Sections
      /\ Statement[1] = toks[ti + 1] /\ Passes(Statement, 1) /\ Sound(obj, Len(toks)) /\ obj.ok = TRUE
  BY <1>1, StartsFacts
<1>3. \A x \in Sections : x \notin ScopeTokens /\ (x = ".text" \/ x = ".data" \/ x = ".bss")
  BY DEF Sections, ScopeTokens
<1>4. toks[ti + 1] \notin ScopeTokens
  BY <1>2, <1>3, Zenon
<1>5. section' \in AllSections
  <2>1. CASE Statement[1] = ".text"
    BY <1>1, <2>1 DEF AllSections
  <2>2. CASE Statement[1] = ".data"
    BY <1>1, <2>2 DEF AllSections
  <2>3. CASE Statement[1] = ".bss"
    BY <1>1, <2>3 DEF AllSections
  <2>. QED  BY <1>2, <1>3, <2>1, <2>2, <2>3, Zenon
<1>6. Whole(obj', Len(toks))
  BY <1>1, <1>2, Zenon DEF Whole
<1>. QED  BY <1>1, <1>2, <1>4, <1>5, <1>6, StatementKeeps

\* .stop passes over the rest of the file, and what is behind it is not counted.
LEMMA StopKeeps ==
    ASSUME AInv, Stop
    PROVE  AInv'
<1>1. /\ Starts({".stop"}) /\ ti' = Len(toks) /\ toks' = toks /\ obj' = obj /\ section' = section
      /\ scopes' = scopes /\ total' = total /\ astate' = astate
  BY Zenon DEF Stop
<1>2. /\ toks[ti + 1] \in {".stop"} /\ Len(toks) \in Nat /\ ti \in 0 .. Len(toks) - 1
  BY <1>1, StartsFacts
<1>3. Contains(toks, ".stop")
  <2>1. ti + 1 \in 1 .. Len(toks) /\ toks[ti + 1] = ".stop"
    BY <1>2
  <2>. QED  BY <2>1, Zenon DEF Contains
<1>4. Counted(toks, Len(toks), scopes, total)
  BY <1>3, Zenon DEF Counted
<1>5. Len(toks) \in 0 .. Len(toks)
  BY <1>2
<1>6. AssemblerState(toks, ti, obj, section, scopes, total, astate)
  BY Zenon DEF AInv
<1>7. AssemblerState(toks', ti', obj', section', scopes', total', astate')
  BY <1>1, <1>4, <1>5, <1>6, Zenon DEF AssemblerState
<1>. QED  BY <1>7 DEF AInv

\* A token that begins no statement.
LEMMA UnknownKeeps ==
    ASSUME AInv, Unknown
    PROVE  AInv'
<1>1. AssemblerError
  BY Zenon DEF Unknown
<1>. QED  BY <1>1, StoppedKeeps

\* The end of the tokens: the local references are settled, and the object is ready.
LEMMA FinishAssemblyKeeps ==
    ASSUME AInv, FinishAssembly
    PROVE  AInv'
<1>. DEFINE done == "assembled"
            a == "assembling"
            all == {"not assembled", "assembling", "assembled", "failed"}
            n == Len(toks)
<1>1. /\ obj' = FillLocal(obj) /\ astate' = done /\ toks' = toks /\ ti' = ti /\ section' = section
      /\ scopes' = scopes /\ total' = total
  BY Zenon DEF FinishAssembly
<1>2. done \in all /\ done # a
  OBVIOUS
<1>. HIDE DEF done, a, all
<1>3. AssemblerState(toks, ti, obj, section, scopes, total, astate)
  BY Zenon DEF AInv
<1>4. IsSequence(toks) /\ Sound(obj, n) /\ obj.ok = TRUE /\ n \in Nat /\ n <= Len(toks)
  <2>1. IsSequence(toks) /\ Sound(obj, n) /\ obj.ok = TRUE
    BY <1>3, Zenon DEF AssemblerState, Whole
  <2>. QED  BY <2>1, SequenceFacts
<1>. HIDE DEF n
<1>5. Filling(obj, FillLocal(obj), n)
  BY <1>4, FillLocalFacts
<1>6. Whole(obj', Len(toks))
  BY <1>1, <1>4, <1>5, Zenon DEF Filling, Whole, n
<1>7. AssemblerState(toks', ti', obj', section', scopes', total', astate')
  BY <1>1, <1>2, <1>3, <1>6, Zenon DEF AssemblerState, a, all
<1>. QED  BY <1>7 DEF AInv

\* A file begins: no scope is open and nothing is counted.
LEMMA StartAssembleKeeps ==
    ASSUME NEW path, IsSequence(files[path]), StartAssemble(path)
    PROVE  AInv'
<1>. DEFINE ts == Tokenized(files[path])
            a == "assembling"
            all == {"not assembled", "assembling", "assembled", "failed"}
            none == <<>>
            zero == 0
            n == Len(ts)
<1>1. /\ toks' = ts /\ ti' = zero /\ obj' = EmptyObject /\ section' = NoSection
      /\ scopes' = none /\ total' = zero /\ astate' = a
  BY Zenon DEF StartAssemble
<1>2. a \in all
  OBVIOUS
<1>. HIDE DEF a, all
<1>3. IsSequence(ts)
  BY AppendedSequence DEF Tokenized
<1>. HIDE DEF ts
<1>4. n \in Nat
  BY <1>3, SequenceFacts
<1>5. zero \in 0 .. n
  BY <1>4
<1>6. Counted(ts, zero, none, zero)
  BY <1>3, CountedNone
<1>7. OpenScopes(none, zero)
  BY EmptySequence DEF OpenScopes
<1>8. Sound(EmptyObject, n) /\ EmptyObject.ok = TRUE
  <2>. HIDE DEF n
  <2>. QED  BY <1>4, SoundEmpty, EmptyFields
<1>9. NoSection \in AllSections
  BY DEF AllSections
<1>. HIDE DEF none, zero
<1>10. AssemblerState(toks', ti', obj', section', scopes', total', astate')
  BY <1>1, <1>2, <1>3, <1>5, <1>6, <1>7, <1>8, <1>9, Zenon DEF AssemblerState, Whole, all
<1>. QED  BY <1>10 DEF AInv

\* The rest of a line, which a directive takes as a list.
LEMMA LineFacts ==
    ASSUME NEW ts, IsSequence(ts), Has(ts, {NL}), ts[1] # NL, NEW end, end = First(ts, {NL})
    PROVE  Passes(ts, end - 1) /\ IsSequence(SubSeq(ts, 2, end - 1))
<1>. DEFINE W == Where(ts, {NL})
<1>1. Len(ts) \in Nat /\ DOMAIN ts = 1 .. Len(ts)
  BY SequenceFacts
<1>2. W \in SUBSET Nat /\ W # {} /\ \A k \in 1 .. Len(ts) : k \in W <=> ts[k] = NL
  <2>1. W # {}
    BY Zenon DEF Has
  <2>2. \A k \in 1 .. Len(ts) : k \in W <=> ts[k] = NL
    BY <1>1 DEF Where
  <2>3. W \subseteq 1 .. Len(ts)
    BY <1>1 DEF Where
  <2>. HIDE DEF W
  <2>4. W \in SUBSET Nat
    BY <2>3
  <2>. QED  BY <2>1, <2>2, <2>4
<1>3. end = Min(W) /\ W \subseteq 1 .. Len(ts)
  BY <1>1 DEF First, Where
<1>. HIDE DEF W
<1>4. end \in W /\ \A y \in W : end <= y
  <2>1. Min(W) \in W /\ \A y \in W : Min(W) <= y
    BY <1>2, MinNat
  <2>. QED  BY <1>3, <2>1, Zenon
<1>5. end \in 1 .. Len(ts) /\ ts[end] = NL
  BY <1>2, <1>3, <1>4
<1>6. end \in 2 .. Len(ts)
  BY <1>1, <1>5
<1>7. \A j \in 1 .. end - 1 : ts[j] # NL
  BY <1>1, <1>2, <1>4, <1>6
<1>. DEFINE m == end - 1
<1>8. m \in Nat \ {0} /\ m \in 0 .. Len(ts) /\ m <= Len(ts) /\ 2 <= m + 1
  BY <1>1, <1>6
<1>9. \A j \in 1 .. m : ts[j] # NL
  BY <1>7
<1>. HIDE DEF m
<1>10. Quiet(ts, m)
  BY <1>8, <1>9, Zenon DEF Quiet
<1>11. Passes(ts, m)
  BY <1>8, <1>10, QuietPasses
<1>12. IsSequence(SubSeq(ts, 2, m))
  BY <1>8, PartOfSequence
<1>. QED  BY <1>11, <1>12 DEF m

\* Sequences that belong to the parts of a list, one after the other.
LEMMA PartsSequence ==
    ASSUME NEW parts, IsSequence(parts), NEW f, DOMAIN f = DOMAIN parts, f = [k \in DOMAIN parts |-> f[k]],
           \A k \in DOMAIN parts : IsSequence(f[k])
    PROVE  IsSequence(FlattenSeq(f))
<1>. DEFINE n == Len(parts)
            S == {f[k] : k \in DOMAIN parts}
<1>1. n \in Nat /\ DOMAIN parts = 1 .. n
  BY SequenceFacts
<1>2. f \in [1 .. n -> S]
  BY <1>1
<1>. HIDE DEF n, S
<1>3. IsSequence(f) /\ Len(f) = n
  BY <1>1, <1>2, SequenceOf
<1>4. \A k \in 1 .. Len(f) : IsSequence(f[k])
  BY <1>1, <1>3
<1>. QED  BY <1>3, <1>4, FlattenedSequence

\* Bytes more in the data section.
LEMMA DataKeeps ==
    ASSUME AInv, NEW kinds, Starts(kinds), \A x \in kinds : x \notin ScopeTokens /\ x # NL,
           NEW bytes, IsSequence(bytes), Has(Statement, {NL}),
           Accept([obj EXCEPT !.data = @ \o bytes], First(Statement, {NL}) - 1)
    PROVE  AInv'
<1>. DEFINE x == obj.data \o bytes
            o == [obj EXCEPT !.data = x]
            n == Len(toks)
            took == First(Statement, {NL}) - 1
<1>1. /\ astate = "assembling" /\ ti < Len(toks) /\ toks[ti + 1] \in kinds
      /\ n \in Nat /\ IsSequence(Statement) /\ Statement[1] = toks[ti + 1]
      /\ Sound(obj, n) /\ obj.ok \in BOOLEAN
  BY StartsFacts
<1>2. toks[ti + 1] \notin ScopeTokens /\ Statement[1] # NL
  BY <1>1, Zenon
<1>3. Passes(Statement, took)
  BY <1>1, <1>2, LineFacts
<1>4. Accept(o, took)
  OBVIOUS
<1>5. IsSequence(obj.data) /\ IsObject(obj)
  BY <1>1, Zenon DEF Sound
<1>6. IsSequence(x) /\ Len(x) >= Len(obj.data)
  <2>1. IsSequence(x) /\ Len(x) = Len(obj.data) + Len(bytes)
    BY <1>5, JoinedSequence
  <2>2. Len(obj.data) \in Nat /\ Len(bytes) \in Nat
    BY <1>5, SequenceFacts
  <2>. QED  BY <2>1, <2>2
<1>. HIDE DEF x, n, took
<1>7. Sound(o, n) /\ o.ok = obj.ok
  BY <1>1, <1>5, <1>6, SoundData, PutData
<1>. HIDE DEF o
<1>8. Sound(o, Len(toks)) /\ o.ok \in BOOLEAN
  BY <1>1, <1>7, Zenon DEF n
<1>. QED  BY <1>1, <1>2, <1>3, <1>4, <1>8, AcceptKeeps

\* .db, .dw and the other numbers.
LEMMA DefineNumbersKeeps ==
    ASSUME AInv, DefineNumbers
    PROVE  AInv'
<1>. DEFINE end == First(Statement, {NL})
            list == SubSeq(Statement, 2, end - 1)
            parts == SplitAt(list, ",")
            item(k) == Expression(Append(parts[k], NL), 1)
            whole(k) == \E x \in item(k) : x.end = Len(parts[k])
            width == DataWidth[Statement[1]]
            f == [k \in DOMAIN parts |-> LittleEndian((CHOOSE x \in item(k) : TRUE).val, width)]
            bytes == FlattenSeq(f)
            Refused == section # DATA \/ ~Has(Statement, {NL}) \/ \E k \in DOMAIN parts : ~whole(k)
<1>1. Starts(DOMAIN DataWidth)
  BY Zenon DEF DefineNumbers
<1>2. IF Refused THEN AssemblerError ELSE Accept([obj EXCEPT !.data = @ \o bytes], end - 1)
  BY DEF DefineNumbers
<1>3. CASE Refused
  <2>. HIDE DEF Refused
  <2>1. AssemblerError
    BY <1>2, <1>3, Zenon
  <2>. QED  BY <2>1, StoppedKeeps
<1>4. CASE ~Refused
  <2>1. Accept([obj EXCEPT !.data = @ \o bytes], end - 1)
    <3>. HIDE DEF Refused
    <3>. QED  BY <1>2, <1>4, Zenon
  <2>2. Has(Statement, {NL})
    BY <1>4, Zenon
  <2>. HIDE DEF Refused
  <2>3. \A x \in DOMAIN DataWidth : x \notin ScopeTokens /\ x # NL /\ DataWidth[x] \in Nat
    BY DEF DataWidth, ScopeTokens, NL
  <2>4. IsSequence(Statement) /\ Statement[1] \in DOMAIN DataWidth
    BY <1>1, StartsFacts
  <2>5. width \in Nat /\ Statement[1] # NL
    BY <2>3, <2>4, Zenon
  <2>6. IsSequence(list)
    BY <2>2, <2>4, <2>5, LineFacts
  <2>. HIDE DEF list
  <2>7. IsSequence(parts)
    BY <2>6, SplitSequence
  <2>. HIDE DEF width, parts
  <2>8. \A k \in DOMAIN parts : IsSequence(f[k])
    <3>. SUFFICES ASSUME NEW k \in DOMAIN parts PROVE IsSequence(f[k])
      BY Zenon
    <3>. DEFINE v == (CHOOSE x \in item(k) : TRUE).val
    <3>1. f[k] = LittleEndian(v, width)
      OBVIOUS
    <3>. HIDE DEF f, v
    <3>. QED  BY <2>5, <3>1, LittleEndianFacts
  <2>9. DOMAIN f = DOMAIN parts /\ f = [k \in DOMAIN parts |-> f[k]]
    OBVIOUS
  <2>. HIDE DEF f
  <2>10. IsSequence(bytes)
    BY <2>7, <2>8, <2>9, PartsSequence
  <2>. HIDE DEF bytes
  <2>11. \A x \in DOMAIN DataWidth : x \notin ScopeTokens /\ x # NL
    BY <2>3
  <2>. QED  BY <1>1, <2>1, <2>2, <2>10, <2>11, DataKeeps
<1>. QED  BY <1>3, <1>4

\* .ascii and the other texts.
LEMMA DefineTextKeeps ==
    ASSUME AInv, DefineText
    PROVE  AInv'
<1>. DEFINE end == First(Statement, {NL})
            list == SubSeq(Statement, 2, end - 1)
            parts == SplitAt(list, ",")
            zero == IF Statement[1] = ".char" THEN <<>> ELSE <<0>>
            f == [k \in DOMAIN parts |-> BytesOf[parts[k][1]] \o zero]
            bytes == FlattenSeq(f)
            Refused == \/ section # DATA \/ ~Has(Statement, {NL})
                       \/ \E k \in DOMAIN parts : Len(parts[k]) # 1 \/ parts[k][1] \notin DOMAIN BytesOf
<1>1. Starts(Literals)
  BY Zenon DEF DefineText
<1>2. IF Refused THEN AssemblerError ELSE Accept([obj EXCEPT !.data = @ \o bytes], end - 1)
  BY DEF DefineText
<1>3. CASE Refused
  <2>. HIDE DEF Refused
  <2>1. AssemblerError
    BY <1>2, <1>3, Zenon
  <2>. QED  BY <2>1, StoppedKeeps
<1>4. CASE ~Refused
  <2>1. Accept([obj EXCEPT !.data = @ \o bytes], end - 1)
    <3>. HIDE DEF Refused
    <3>. QED  BY <1>2, <1>4, Zenon
  <2>2. Has(Statement, {NL}) /\ \A k \in DOMAIN parts : parts[k][1] \in DOMAIN BytesOf
    BY <1>4, Zenon
  <2>. HIDE DEF Refused
  <2>3. \A x \in Literals : x \notin ScopeTokens /\ x # NL
    BY DEF Literals, ScopeTokens, NL
  <2>4. IsSequence(Statement) /\ Statement[1] \in Literals
    BY <1>1, StartsFacts
  <2>5. Statement[1] # NL
    BY <2>3, <2>4, Zenon
  <2>6. IsSequence(list)
    BY <2>2, <2>4, <2>5, LineFacts
  <2>. HIDE DEF list
  <2>7. IsSequence(parts)
    BY <2>6, SplitSequence
  <2>12. IsSequence(zero)
    <3>1. IsSequence(<<>>) /\ IsSequence(<<0>>)
      BY EmptySequence, SingleSequence
    <3>. QED  BY <3>1, Zenon
  <2>. HIDE DEF zero, parts
  <2>8. \A k \in DOMAIN parts : IsSequence(f[k])
    <3>. SUFFICES ASSUME NEW k \in DOMAIN parts PROVE IsSequence(f[k])
      BY Zenon
    <3>. DEFINE b == BytesOf[parts[k][1]]
    <3>1. f[k] = b \o zero
      OBVIOUS
    <3>2. b \in Seq(0 .. 255)
      BY <2>2, TokensAssumption, Zenon
    <3>. HIDE DEF f, b
    <3>3. IsSequence(b)
      BY <3>2, Zenon DEF IsSequence
    <3>4. IsSequence(b \o zero)
      BY <2>12, <3>3, JoinedSequence
    <3>. QED  BY <3>1, <3>4, Zenon
  <2>9. DOMAIN f = DOMAIN parts /\ f = [k \in DOMAIN parts |-> f[k]]
    OBVIOUS
  <2>. HIDE DEF f
  <2>10. IsSequence(bytes)
    BY <2>7, <2>8, <2>9, PartsSequence
  <2>. HIDE DEF bytes
  <2>. QED  BY <1>1, <2>1, <2>2, <2>3, <2>10, DataKeeps
<1>. QED  BY <1>3, <1>4

\* An action of the assembler keeps its invariant.
LEMMA AssemblerKeeps ==
    ASSUME AInv, AssemblerNext
    PROVE  AInv'
  BY SkipKeeps, LabelKeeps, InstructKeeps, ReturnKeeps, DeclareKeeps, MovePlaceKeeps, BeginScopeKeeps,
     EndScopeKeeps, EnterSectionKeeps, StopKeeps, DefineNumbersKeeps, DefineTextKeeps, UnknownKeeps,
     FinishAssemblyKeeps, Zenon DEF AssemblerNext

-----------------------------------------------------------------------------
(* The other stages, as far as the invariant depends on them. *)

PStates == {"unprocessed", "processing", "processed", "failed", "hung"}

\* The preprocessor writes token by token.
Wrote == out' = out \/ \E x : out' = Append(out, x)
Turned == pstate' = pstate \/ pstate' \in PStates

LEMMA PreprocessorErrorFacts ==
    ASSUME PreprocessorError
    PROVE  Wrote /\ Turned
  BY Zenon DEF PreprocessorError, Wrote, Turned, PStates

LEMMA ContinueFacts ==
    ASSUME NEW ts, Continue(ts), out' = out
    PROVE  Wrote /\ Turned
  BY Zenon DEF Continue, Wrote, Turned

LEMMA CondBlockFacts ==
    ASSUME NEW met, NEW ts, CondBlock(met, ts)
    PROVE  Wrote /\ Turned
  BY PreprocessorErrorFacts, ContinueFacts, Zenon DEF CondBlock

\* A step of the preprocessor leaves its output a sequence when it was one.
LEMMA PreprocessorFacts ==
    ASSUME PreprocessorNext
    PROVE  Wrote /\ Turned
<1>1. CASE Write
  BY <1>1, Zenon DEF Write, Continue, Wrote, Turned
<1>2. CASE Expand
  <2>1. PreprocessorError \/ (out' = out /\ (pstate' = "hung" \/ pstate' = pstate))
    BY <1>2, Zenon DEF Expand
  <2>. QED  BY <2>1, PreprocessorErrorFacts, Zenon DEF Wrote, Turned, PStates
<1>3. CASE Define
  BY <1>3, PreprocessorErrorFacts, ContinueFacts, Zenon DEF Define
<1>4. CASE Undefine
  BY <1>4, PreprocessorErrorFacts, ContinueFacts, Zenon DEF Undefine
<1>5. CASE CondOnDef
  BY <1>5, PreprocessorErrorFacts, CondBlockFacts, Zenon DEF CondOnDef
<1>6. CASE CondOnValue
  BY <1>6, PreprocessorErrorFacts, CondBlockFacts, Zenon DEF CondOnValue
<1>7. CASE ElseOrEndif
  BY <1>7, PreprocessorErrorFacts, ContinueFacts, Zenon DEF ElseOrEndif
<1>8. CASE Include
  BY <1>8, PreprocessorErrorFacts, ContinueFacts, Zenon DEF Include
<1>9. CASE Macro
  BY <1>9, PreprocessorErrorFacts, ContinueFacts, Zenon DEF Macro
<1>10. CASE Invoke
  BY <1>10, PreprocessorErrorFacts, ContinueFacts, Zenon DEF Invoke, Wrote, Turned, PStates
<1>11. CASE Macret
  BY <1>11, PreprocessorErrorFacts, ContinueFacts, Zenon DEF Macret
<1>12. CASE Macend
  BY <1>12, PreprocessorErrorFacts, Zenon DEF Macend
<1>13. CASE Finish
  BY <1>13, Zenon DEF Finish, Wrote, Turned, PStates
<1>. QED
  BY <1>1, <1>2, <1>3, <1>4, <1>5, <1>6, <1>7, <1>8, <1>9, <1>10, <1>11, <1>12, <1>13, Zenon
  DEF PreprocessorNext

\* Loading ends one way or the other.
IsMemory(m) ==
    \E state, frames, ram, pc : m = [state |-> state, frames |-> frames, ram |-> ram, pc |-> pc]

LEMMA MemoryState ==
    ASSUME NEW m, IsMemory(m), NEW s
    PROVE  IsMemory([m EXCEPT !.state = s]) /\ [m EXCEPT !.state = s].state = s
<1>1. PICK state, frames, ram, pc : m = [state |-> state, frames |-> frames, ram |-> ram, pc |-> pc]
  BY Zenon DEF IsMemory
<1>. DEFINE r == [m EXCEPT !.state = s]
<1>2. r = [state |-> s, frames |-> frames, ram |-> ram, pc |-> pc]
  BY <1>1
<1>. HIDE DEF r
<1>3. IsMemory(r)
  BY <1>2, Zenon DEF IsMemory
<1>4. r.state = s
  BY <1>2
<1>. QED  BY <1>3, <1>4 DEF r

LEMMA MemoryPlace ==
    ASSUME NEW m, IsMemory(m), NEW s, NEW p
    PROVE  IsMemory([m EXCEPT !.state = s, !.pc = p]) /\ [m EXCEPT !.state = s, !.pc = p].state = s
<1>1. PICK state, frames, ram, pc : m = [state |-> state, frames |-> frames, ram |-> ram, pc |-> pc]
  BY Zenon DEF IsMemory
<1>. DEFINE r == [m EXCEPT !.state = s, !.pc = p]
<1>. DEFINE q == [m EXCEPT !.state = s]
<1>5. r = [q EXCEPT !.pc = p]
  OBVIOUS
<1>6. q = [state |-> s, frames |-> frames, ram |-> ram, pc |-> pc]
  BY <1>1
<1>. HIDE DEF r, q
<1>2. r = [state |-> s, frames |-> frames, ram |-> ram, pc |-> p]
  BY <1>5, <1>6
<1>. HIDE DEF r
<1>3. IsMemory(r)
  BY <1>2, Zenon DEF IsMemory
<1>4. r.state = s
  BY <1>2
<1>. QED  BY <1>3, <1>4 DEF r

LEMMA MemoryWritten ==
    ASSUME NEW m, IsMemory(m), NEW f, NEW w
    PROVE  /\ IsMemory([m EXCEPT !.frames = f, !.ram = w])
           /\ [m EXCEPT !.frames = f, !.ram = w].state = m.state
<1>1. PICK state, frames, ram, pc : m = [state |-> state, frames |-> frames, ram |-> ram, pc |-> pc]
  BY Zenon DEF IsMemory
<1>. DEFINE r == [m EXCEPT !.frames = f, !.ram = w]
<1>. DEFINE q == [m EXCEPT !.frames = f]
<1>5. r = [q EXCEPT !.ram = w]
  OBVIOUS
<1>6. q = [state |-> state, frames |-> f, ram |-> ram, pc |-> pc]
  BY <1>1
<1>. HIDE DEF r, q
<1>2. r = [state |-> state, frames |-> f, ram |-> w, pc |-> pc]
  BY <1>5, <1>6
<1>. HIDE DEF r
<1>3. IsMemory(r)
  BY <1>2, Zenon DEF IsMemory
<1>4. r.state = m.state
  BY <1>1, <1>2
<1>. QED  BY <1>3, <1>4 DEF r

\* One section written from its place on.
LEMMA LoadSectionFacts ==
    ASSUME NEW m, IsMemory(m), m.state \in {"loading", "thrown"}, NEW exe, NEW s
    PROVE  /\ IsMemory(LoadSection(m, exe, s))
           /\ LoadSection(m, exe, s).state \in {"loading", "thrown"}
<1>. DEFINE l == LoadSection(m, exe, s)
            thrown == "thrown"
<1>1. \/ l = m
      \/ l = [m EXCEPT !.state = thrown]
      \/ \E f, w : l = [m EXCEPT !.frames = f, !.ram = w]
  BY Zenon DEF LoadSection
<1>. DEFINE states == {"loading", "thrown"}
<1>2. m.state \in states /\ thrown \in states
  OBVIOUS
<1>. HIDE DEF l, thrown, states
<1>3. IsMemory(l) /\ l.state \in states
  <2>1. CASE l = m
    BY <1>2, <2>1, Zenon
  <2>2. CASE l = [m EXCEPT !.state = thrown]
    BY <1>2, <2>2, MemoryState, Zenon
  <2>3. CASE \E f, w : l = [m EXCEPT !.frames = f, !.ram = w]
    <3>1. PICK f, w : l = [m EXCEPT !.frames = f, !.ram = w]
      BY <2>3, Zenon
    <3>. QED  BY <1>2, <3>1, MemoryWritten, Zenon
  <2>. QED  BY <1>1, <2>1, <2>2, <2>3, Zenon
<1>. QED  BY <1>3 DEF l, states

\* Loading ends in one of three states.
LEMMA LoadFacts ==
    ASSUME NEW file
    PROVE  Load(file).state \in {"loaded", "failed", "thrown"}
<1>. DEFINE exe == FoldLeft(Relocated, ReadObject(file), ReadObject(file).rels)
            m == LoadSection(LoadSection(LoadSection(Empty, exe, TEXT), exe, DATA), exe, BSS)
            l == Started(m, exe)
            before == {"loading", "thrown"}
<1>1. Load(file) = l
  BY Zenon DEF Load
<1>. HIDE DEF exe
<1>2. IsMemory(Empty) /\ Empty.state \in before
  <2>1. Empty.state \in before
    BY DEF Empty
  <2>. QED  BY <2>1, Zenon DEF Empty, IsMemory
<1>3. IsMemory(m) /\ m.state \in before
  BY <1>2, LoadSectionFacts
<1>. HIDE DEF m
<1>. DEFINE failed == "failed"
            thrown == "thrown"
            loaded == "loaded"
<1>4. \/ l = m /\ m.state # "loading"
      \/ l = [m EXCEPT !.state = failed]
      \/ l = [m EXCEPT !.state = thrown]
      \/ \E p : l = [m EXCEPT !.state = loaded, !.pc = p]
  BY Zenon DEF Started
<1>. DEFINE ends == {"loaded", "failed", "thrown"}
<1>5. /\ m.state # "loading" => m.state \in ends
      /\ failed \in ends /\ thrown \in ends /\ loaded \in ends
  BY <1>3
<1>. HIDE DEF l, failed, thrown, loaded, ends
<1>6. l.state \in ends
  <2>1. CASE l = m /\ m.state # "loading"
    BY <1>5, <2>1, Zenon
  <2>2. CASE l = [m EXCEPT !.state = failed]
    BY <1>3, <1>5, <2>2, MemoryState, Zenon
  <2>3. CASE l = [m EXCEPT !.state = thrown]
    BY <1>3, <1>5, <2>3, MemoryState, Zenon
  <2>4. CASE \E p : l = [m EXCEPT !.state = loaded, !.pc = p]
    <3>1. PICK p : l = [m EXCEPT !.state = loaded, !.pc = p]
      BY <2>4, Zenon
    <3>2. [m EXCEPT !.state = loaded, !.pc = p].state = loaded
      BY <1>3, MemoryPlace
    <3>. QED  BY <1>5, <3>1, <3>2, Zenon
  <2>. QED  BY <1>4, <2>1, <2>2, <2>3, <2>4, Zenon
<1>. QED  BY <1>1, <1>6 DEF ends

-----------------------------------------------------------------------------
(* The invariant of a build. *)

Phases == Ended \cup {"preprocess", "assemble", "load"}

\* What a stage has made is there for the next one.
Made(fs, md) == IsSequence(md) /\ \A k \in 1 .. Len(md) : md[k] \in DOMAIN fs
Preprocessed(fs, md) ==
    \A k \in 1 .. Len(md) : Extension(md[k]) = "bi" /\ IsSequence(fs[md[k]])
\* A file that is removed with the first of two sources of the same name is missed later.
Waiting(fs, td) ==
    /\ IsSequence(td)
    /\ \A k \in 1 .. Len(td) : /\ Extension(td[k]) = "bi"
                               /\ td[k] \in DOMAIN fs => IsSequence(fs[td[k]])
Objects(md) == \A k \in 1 .. Len(md) : Extension(md[k]) = "bo"

BuildState(fs, ph, ps, td, md, o) ==
    /\ IsSequence(o) /\ ph \in Phases /\ ps \in PStates /\ Made(fs, md)
    /\ ph = "preprocess" => Preprocessed(fs, md)
    /\ ph = "assemble" => Waiting(fs, td) /\ Objects(md)

BInv == BuildState(files, phase, pstate, todo, made, out)
StageInv == AInv /\ BInv

\* A table with one value put into it.
LEMMA PutFacts ==
    ASSUME NEW f, NEW x, NEW v
    PROVE  /\ DOMAIN Put(f, x, v) = DOMAIN f \cup {x} /\ Put(f, x, v)[x] = v
           /\ \A y \in DOMAIN f : y # x => Put(f, x, v)[y] = f[y]
  BY DEF Put

\* The file that a stage writes has the extension of the stage.
LEMMA StageExtension ==
    ASSUME NEW path, NEW ext
    PROVE  Extension(StageFile(path, ext)) = ext
  BY DEF StageFile, Path, Extension

\* The files that were made are still there when one more is written.
LEMMA MadePut ==
    ASSUME NEW fs, NEW md, Made(fs, md), NEW x, NEW v
    PROVE  Made(Put(fs, x, v), md)
<1>1. DOMAIN Put(fs, x, v) = DOMAIN fs \cup {x}
  BY PutFacts
<1>. QED  BY <1>1, Zenon DEF Made

LEMMA PreprocessedPut ==
    ASSUME NEW fs, NEW md, Made(fs, md), Preprocessed(fs, md), NEW x, NEW v, IsSequence(v)
    PROVE  Preprocessed(Put(fs, x, v), md)
<1>. SUFFICES ASSUME NEW k \in 1 .. Len(md) PROVE IsSequence(Put(fs, x, v)[md[k]])
  BY Zenon DEF Preprocessed
<1>4. /\ DOMAIN Put(fs, x, v) = DOMAIN fs \cup {x} /\ Put(fs, x, v)[x] = v
      /\ \A y \in DOMAIN fs : y # x => Put(fs, x, v)[y] = fs[y]
  BY DEF Put
<1>1. md[k] \in DOMAIN fs /\ IsSequence(fs[md[k]])
  BY Zenon DEF Made, Preprocessed
<1>2. CASE md[k] = x
  BY <1>2, <1>4, Zenon
<1>3. CASE md[k] # x
  BY <1>1, <1>3, <1>4, Zenon
<1>. QED  BY <1>2, <1>3

LEMMA WaitingPut ==
    ASSUME NEW fs, NEW td, Waiting(fs, td), NEW x, Extension(x) = "bo", NEW v
    PROVE  Waiting(Put(fs, x, v), td)
<1>. SUFFICES ASSUME NEW k \in 1 .. Len(td), td[k] \in DOMAIN Put(fs, x, v)
              PROVE  IsSequence(Put(fs, x, v)[td[k]])
  BY Zenon DEF Waiting
<1>1. Extension(td[k]) = "bi" /\ (td[k] \in DOMAIN fs => IsSequence(fs[td[k]]))
  BY Zenon DEF Waiting
<1>. DEFINE y == td[k]
<1>4. /\ DOMAIN Put(fs, x, v) = DOMAIN fs \cup {x} /\ Put(fs, x, v)[x] = v
      /\ \A z \in DOMAIN fs : z # x => Put(fs, x, v)[z] = fs[z]
  BY DEF Put
<1>2. y # x
  <2>1. Extension(y) # Extension(x)
    BY <1>1
  <2>. QED  BY <2>1, Zenon
<1>3. y \in DOMAIN fs
  <2>1. y \in DOMAIN Put(fs, x, v)
    OBVIOUS
  <2>. QED  BY <1>2, <1>4, <2>1
<1>. QED  BY <1>1, <1>2, <1>3, <1>4, Zenon

\* What is removed is none of what has been made.
LEMMA LessFiles ==
    ASSUME NEW fs, NEW td, NEW md, Waiting(fs, td), Made(fs, md), Objects(md),
           NEW gone, \A x \in gone : Extension(x) = "bi"
    PROVE  /\ Waiting(Restrict(fs, DOMAIN fs \ gone), td)
           /\ Made(Restrict(fs, DOMAIN fs \ gone), md)
<1>. DEFINE r == Restrict(fs, DOMAIN fs \ gone)
<1>1. DOMAIN r = DOMAIN fs \ gone /\ \A x \in DOMAIN fs \ gone : r[x] = fs[x]
  BY DEF Restrict
<1>. HIDE DEF r
<1>2. Waiting(r, td)
  BY <1>1, Zenon DEF Waiting
<1>3. ASSUME NEW k \in 1 .. Len(md) PROVE md[k] \in DOMAIN r
  <2>1. md[k] \in DOMAIN fs /\ Extension(md[k]) = "bo"
    BY Zenon DEF Made, Objects
  <2>. DEFINE y == md[k]
  <2>2. y \notin gone
    <3>1. \A x \in gone : Extension(x) # Extension(y)
      BY <2>1
    <3>. QED  BY <3>1, Zenon
  <2>. QED  BY <1>1, <2>1, <2>2
<1>4. Made(r, md)
  BY <1>3, Zenon DEF Made
<1>. QED  BY <1>2, <1>4 DEF r

LEMMA ToSequence ==
    ASSUME NEW td, IsSequence(td), td # <<>>
    PROVE  /\ Head(td) = td[1] /\ 1 \in 1 .. Len(td)
           /\ IsSequence(Tail(td)) /\ Len(Tail(td)) = Len(td) - 1
           /\ \A k \in 1 .. Len(td) - 1 : Tail(td)[k] = td[k + 1]
<1>1. td \in Seq(ToSet(td)) /\ Len(td) \in Nat
  BY SequenceFacts
<1>2. Len(td) # 0
  <2>1. Len(td) = 0 => td = <<>>
    BY <1>1
  <2>. QED  BY <2>1, Zenon
<1>3. Head(td) = td[1] /\ Tail(td) \in Seq(ToSet(td)) /\ Len(Tail(td)) = Len(td) - 1
      /\ \A k \in 1 .. Len(td) - 1 : Tail(td)[k] = td[k + 1]
  BY <1>1, <1>2, HeadTailProperties
<1>. QED  BY <1>1, <1>2, <1>3 DEF IsSequence

LEMMA WaitingTail ==
    ASSUME NEW fs, NEW td, Waiting(fs, td), td # <<>>
    PROVE  Waiting(fs, Tail(td)) /\ Extension(Head(td)) = "bi"
           /\ (Head(td) \in DOMAIN fs => IsSequence(fs[Head(td)]))
<1>. DEFINE n == Len(td)
            t == Tail(td)
<1>1. /\ Head(td) = td[1] /\ 1 \in 1 .. n /\ n \in Nat
      /\ IsSequence(t) /\ Len(t) = n - 1
      /\ \A k \in 1 .. n - 1 : t[k] = td[k + 1]
  BY ToSequence, SequenceFacts, Zenon DEF Waiting
<1>2. \A k \in 1 .. n - 1 : k + 1 \in 1 .. n
  BY <1>1
<1>. HIDE DEF t
<1>3. \A k \in 1 .. Len(t) : Extension(t[k]) = "bi" /\ (t[k] \in DOMAIN fs => IsSequence(fs[t[k]]))
  BY <1>1, <1>2, Zenon DEF Waiting
<1>4. Waiting(fs, t)
  BY <1>1, <1>3, Zenon DEF Waiting
<1>5. Extension(td[1]) = "bi" /\ (td[1] \in DOMAIN fs => IsSequence(fs[td[1]]))
  BY <1>1, Zenon DEF Waiting
<1>. QED  BY <1>1, <1>4, <1>5, Zenon DEF t

\* One more file.
LEMMA MadeMore ==
    ASSUME NEW fs, NEW md, Made(fs, md), NEW x \in DOMAIN fs
    PROVE  /\ Made(fs, Append(md, x))
           /\ Preprocessed(fs, md) /\ Extension(x) = "bi" /\ IsSequence(fs[x]) =>
                Preprocessed(fs, Append(md, x))
           /\ Objects(md) /\ Extension(x) = "bo" => Objects(Append(md, x))
<1>. DEFINE n == Len(md)
            a == Append(md, x)
<1>1. n \in Nat /\ IsSequence(a) /\ Len(a) = n + 1 /\ a[n + 1] = x /\ \A k \in 1 .. n : a[k] = md[k]
  <2>1. IsSequence(md)
    BY Zenon DEF Made
  <2>2. n \in Nat
    BY <2>1, SequenceFacts
  <2>. QED  BY <2>1, <2>2, AppendedSequence
<1>2. \A k \in 1 .. n + 1 : k = n + 1 \/ k \in 1 .. n
  BY <1>1
<1>. HIDE DEF a
<1>3. Made(fs, a)
  BY <1>1, <1>2, Zenon DEF Made
<1>4. Preprocessed(fs, md) /\ Extension(x) = "bi" /\ IsSequence(fs[x]) => Preprocessed(fs, a)
  BY <1>1, <1>2, Zenon DEF Preprocessed
<1>5. Objects(md) /\ Extension(x) = "bo" => Objects(a)
  BY <1>1, <1>2, Zenon DEF Objects
<1>. QED  BY <1>3, <1>4, <1>5 DEF a

\* A step that leaves the assembler alone keeps its invariant.
LEMMA ASame ==
    ASSUME AInv, UNCHANGED <<toks, ti, obj, section, scopes, total>>,
           astate' = astate \/ astate' = "not assembled"
    PROVE  AInv'
<1>. DEFINE not == "not assembled"
            a == "assembling"
            all == {"not assembled", "assembling", "assembled", "failed"}
<1>1. not \in all /\ not # a /\ (astate' = astate \/ astate' = not)
  OBVIOUS
<1>2. toks' = toks /\ ti' = ti /\ obj' = obj /\ section' = section /\ scopes' = scopes /\ total' = total
  OBVIOUS
<1>. HIDE DEF not, a, all
<1>3. AssemblerState(toks, ti, obj, section, scopes, total, astate)
  BY Zenon DEF AInv
<1>4. AssemblerState(toks', ti', obj', section', scopes', total', astate')
  BY <1>1, <1>2, <1>3, Zenon DEF AssemblerState, a, all
<1>. QED  BY <1>4 DEF AInv

LEMMA AVars ==
    ASSUME AInv, UNCHANGED avars
    PROVE  AInv'
<1>1. UNCHANGED <<toks, ti, obj, section, scopes, total>> /\ astate' = astate
  BY DEF avars
<1>. QED  BY <1>1, ASame

\* A step that leaves the stages as they are and ends the phase, or goes on to the loading.
LEMMA PhaseEnds ==
    ASSUME BInv, phase' \in Ended \cup {"load"}, pstate' = pstate, out' = out, made' = made, NEW x, NEW v,
           files' = files \/ files' = Put(files, x, v)
    PROVE  BInv'
<1>1. phase' \in Phases /\ phase' # "preprocess" /\ phase' # "assemble"
  BY DEF Phases, Ended
<1>2. BuildState(files, phase, pstate, todo, made, out)
  BY Zenon DEF BInv
<1>3. Made(files, made) /\ IsSequence(out) /\ pstate \in PStates
  BY <1>2, Zenon DEF BuildState
<1>4. Made(files', made)
  BY <1>3, MadePut, Zenon
<1>5. BuildState(files', phase', pstate', todo', made', out')
  BY <1>1, <1>3, <1>4, Zenon DEF BuildState
<1>. QED  BY <1>5 DEF BInv

\* One lemma for each action of the build: it keeps StageInv.
LEMMA StartKeeps ==
    ASSUME StageInv, Start
    PROVE  StageInv'
<1>1. AInv'
  <2>1. UNCHANGED <<toks, ti, obj, section, scopes, total>> /\ astate' = "not assembled"
    BY Zenon DEF Start
  <2>. QED  BY <2>1, ASame DEF StageInv
<1>2. BInv'
  <2>. DEFINE none == <<>>
  <2>1. /\ phase' \in {"preprocess", "failed"} /\ pstate' = "unprocessed" /\ out' = out /\ made' = none
        /\ files' = files
    <3>1. phase' = IF job'.ok THEN "preprocess" ELSE "failed"
      BY Zenon DEF Start
    <3>2. phase' \in {"preprocess", "failed"}
      BY <3>1
    <3>. QED  BY <3>2, Zenon DEF Start
  <2>2. phase' \in Phases /\ phase' # "assemble" /\ pstate' \in PStates
    BY <2>1 DEF Phases, Ended, PStates
  <2>3. Made(files, none) /\ Preprocessed(files, none)
    BY EmptySequence DEF Made, Preprocessed
  <2>. HIDE DEF none
  <2>4. IsSequence(out)
    BY Zenon DEF StageInv, BInv, BuildState
  <2>5. BuildState(files', phase', pstate', todo', made', out')
    BY <2>1, <2>2, <2>3, <2>4, Zenon DEF BuildState
  <2>. QED  BY <2>5 DEF BInv
<1>. QED  BY <1>1, <1>2 DEF StageInv

\* Preprocessing of the next source begins.
LEMMA BeginPreprocessKeeps ==
    ASSUME StageInv, BeginPreprocess
    PROVE  StageInv'
<1>1. UNCHANGED avars
  BY Zenon DEF BeginPreprocess
<1>2. AInv'
  BY <1>1, AVars DEF StageInv
<1>3. BInv'
  <2>. DEFINE none == <<>>
              x == StageFile(Head(todo), "bi")
  <2>1. /\ phase = "preprocess" /\ phase' = phase /\ pstate' = "processing" /\ out' = none /\ made' = made
        /\ files' = Put(files, x, none)
    BY Zenon DEF BeginPreprocess, StartPreprocess
  <2>2. phase' = "preprocess" /\ phase' # "assemble" /\ pstate' \in PStates
    BY <2>1 DEF PStates
  <2>3. phase \in Phases /\ Made(files, made) /\ Preprocessed(files, made)
    BY <2>1, Zenon DEF StageInv, BInv, BuildState
  <2>4. IsSequence(none)
    BY EmptySequence
  <2>. HIDE DEF none, x
  <2>5. Made(files', made) /\ Preprocessed(files', made)
    BY <2>1, <2>3, <2>4, MadePut, PreprocessedPut, Zenon
  <2>6. BuildState(files', phase', pstate', todo', made', out')
    BY <2>1, <2>2, <2>3, <2>4, <2>5, Zenon DEF BuildState
  <2>. QED  BY <2>6 DEF BInv
<1>. QED  BY <1>2, <1>3 DEF StageInv

\* The next source is not there.
LEMMA SourceMissingKeeps ==
    ASSUME StageInv, SourceMissing
    PROVE  StageInv'
<1>1. /\ UNCHANGED avars /\ phase' = "failed" /\ pstate' = pstate /\ out' = out /\ made' = made
      /\ files' = files
  BY Zenon DEF SourceMissing, pvars
<1>2. AInv'
  BY <1>1, AVars DEF StageInv
<1>3. phase' \in Ended \cup {"load"}
  BY <1>1 DEF Ended
<1>4. BInv'
  BY <1>1, <1>3, PhaseEnds DEF StageInv
<1>. QED  BY <1>2, <1>4 DEF StageInv

\* A step of the preprocessor.
LEMMA PreprocessKeeps ==
    ASSUME StageInv, Preprocess
    PROVE  StageInv'
<1>1. /\ UNCHANGED avars /\ phase = "preprocess" /\ PreprocessorNext /\ made' = made /\ files' = files
      /\ phase' = IF pstate' = "failed" THEN "failed" ELSE phase
  BY Zenon DEF Preprocess
<1>2. AInv'
  BY <1>1, AVars DEF StageInv
<1>3. BInv'
  <2>1. BuildState(files, phase, pstate, todo, made, out)
    BY Zenon DEF StageInv, BInv
  <2>2. /\ IsSequence(out) /\ pstate \in PStates /\ Made(files, made) /\ Preprocessed(files, made)
    BY <1>1, <2>1, Zenon DEF BuildState
  <2>3. IsSequence(out') /\ pstate' \in PStates
    <3>1. Wrote /\ Turned
      BY <1>1, PreprocessorFacts
    <3>2. IsSequence(out')
      <4>1. CASE out' = out
        BY <2>2, <4>1, Zenon
      <4>2. CASE \E x : out' = Append(out, x)
        <5>1. PICK x : out' = Append(out, x)
          BY <4>2, Zenon
        <5>2. IsSequence(Append(out, x))
          BY <2>2, AppendedSequence
        <5>. QED  BY <5>1, <5>2, Zenon
      <4>. QED  BY <3>1, <4>1, <4>2, Zenon DEF Wrote
    <3>. QED  BY <2>2, <3>1, <3>2, Zenon DEF Turned
  <2>4. phase' \in Phases /\ phase' # "assemble"
    BY <1>1 DEF Phases, Ended
  <2>5. BuildState(files', phase', pstate', todo', made', out')
    BY <1>1, <2>2, <2>3, <2>4, Zenon DEF BuildState
  <2>. QED  BY <2>5 DEF BInv
<1>. QED  BY <1>2, <1>3 DEF StageInv

\* The preprocessor has made its file.
LEMMA EndPreprocessKeeps ==
    ASSUME StageInv, EndPreprocess
    PROVE  StageInv'
<1>. DEFINE x == StageFile(Head(todo), "bi")
            fs == Put(files, x, out)
<1>1. /\ UNCHANGED avars /\ phase = "preprocess" /\ phase' = phase /\ pstate' = "unprocessed" /\ out' = out
      /\ files' = fs /\ made' = Append(made, x)
  BY Zenon DEF EndPreprocess
<1>2. AInv'
  BY <1>1, AVars DEF StageInv
<1>3. Extension(x) = "bi"
  BY StageExtension
<1>. HIDE DEF x
<1>4. BInv'
  <2>1. BuildState(files, phase, pstate, todo, made, out)
    BY Zenon DEF StageInv, BInv
  <2>2. IsSequence(out) /\ phase \in Phases /\ Made(files, made) /\ Preprocessed(files, made)
    BY <1>1, <2>1, Zenon DEF BuildState
  <2>3. x \in DOMAIN fs /\ fs[x] = out
    BY DEF Put
  <2>4. Made(fs, made) /\ Preprocessed(fs, made)
    BY <2>2, MadePut, PreprocessedPut, Zenon
  <2>. HIDE DEF fs
  <2>5. IsSequence(fs[x])
    BY <2>2, <2>3, Zenon
  <2>6. Made(fs, Append(made, x)) /\ Preprocessed(fs, Append(made, x))
    <3>1. /\ Made(fs, Append(made, x))
          /\ Preprocessed(fs, made) /\ Extension(x) = "bi" /\ IsSequence(fs[x]) =>
               Preprocessed(fs, Append(made, x))
      BY <2>3, <2>4, MadeMore
    <3>. QED  BY <1>3, <2>4, <2>5, <3>1, Zenon
  <2>7. phase' # "assemble" /\ pstate' \in PStates
    BY <1>1 DEF PStates
  <2>8. BuildState(files', phase', pstate', todo', made', out')
    BY <1>1, <2>2, <2>6, <2>7, Zenon DEF BuildState
  <2>. QED  BY <2>8 DEF BInv
<1>. QED  BY <1>2, <1>4 DEF StageInv

\* Every source has been preprocessed.
LEMMA AllPreprocessedKeeps ==
    ASSUME StageInv, AllPreprocessed
    PROVE  StageInv'
<1>. DEFINE none == <<>>
<1>1. /\ UNCHANGED avars /\ phase = "preprocess" /\ phase' = "assemble" /\ pstate' = pstate /\ out' = out
      /\ files' = files /\ todo' = made /\ made' = none
  BY Zenon DEF AllPreprocessed, pvars
<1>2. AInv'
  BY <1>1, AVars DEF StageInv
<1>3. Made(files, none) /\ Objects(none)
  BY EmptySequence DEF Made, Objects
<1>. HIDE DEF none
<1>4. BuildState(files, phase, pstate, todo, made, out)
  BY Zenon DEF StageInv, BInv
<1>5. IsSequence(out) /\ pstate \in PStates /\ Made(files, made) /\ Preprocessed(files, made)
  BY <1>1, <1>4, Zenon DEF BuildState
<1>6. Waiting(files, made)
  BY <1>5, Zenon DEF Waiting, Made, Preprocessed
<1>7. phase' \in Phases /\ phase' # "preprocess"
  BY <1>1 DEF Phases
<1>8. BuildState(files', phase', pstate', todo', made', out')
  BY <1>1, <1>3, <1>5, <1>6, <1>7, Zenon DEF BuildState
<1>9. BInv'
  BY <1>8 DEF BInv
<1>. QED  BY <1>2, <1>9 DEF StageInv

\* Assembly of the next file begins.
LEMMA BeginAssembleKeeps ==
    ASSUME StageInv, BeginAssemble
    PROVE  StageInv'
<1>. DEFINE x == StageFile(Head(todo), "bo")
            none == <<>>
<1>1. /\ phase = "assemble" /\ phase' = phase /\ todo # <<>> /\ Head(todo) \in DOMAIN files
      /\ StartAssemble(Head(todo)) /\ files' = Put(files, x, none)
      /\ pstate' = pstate /\ out' = out /\ todo' = todo /\ made' = made
  BY Zenon DEF BeginAssemble, pvars
<1>2. Extension(x) = "bo"
  BY StageExtension
<1>3. BuildState(files, phase, pstate, todo, made, out)
  BY Zenon DEF StageInv, BInv
<1>4. /\ IsSequence(out) /\ phase \in Phases /\ pstate \in PStates /\ Made(files, made)
      /\ Waiting(files, todo) /\ Objects(made)
  BY <1>1, <1>3, Zenon DEF BuildState
<1>5. AInv'
  <2>1. IsSequence(files[Head(todo)])
    BY <1>1, <1>4, WaitingTail, Zenon
  <2>. QED  BY <1>1, <2>1, StartAssembleKeeps
<1>. HIDE DEF x, none
<1>6. Made(files', made) /\ Waiting(files', todo)
  BY <1>1, <1>2, <1>4, MadePut, WaitingPut, Zenon
<1>7. phase' # "preprocess"
  BY <1>1
<1>8. BuildState(files', phase', pstate', todo', made', out')
  BY <1>1, <1>4, <1>6, <1>7, Zenon DEF BuildState
<1>9. BInv'
  BY <1>8 DEF BInv
<1>. QED  BY <1>5, <1>9 DEF StageInv

\* The next preprocessed file is not there any more.
LEMMA ProcessedMissingKeeps ==
    ASSUME StageInv, ProcessedMissing
    PROVE  StageInv'
<1>. DEFINE x == StageFile(Head(todo), "bo")
            none == <<>>
<1>1. /\ UNCHANGED avars /\ phase' = "failed" /\ pstate' = pstate /\ out' = out /\ made' = made
      /\ files' = files \/ files' = Put(files, x, none)
  BY Zenon DEF ProcessedMissing, pvars
<1>2. AInv'
  BY <1>1, AVars DEF StageInv
<1>3. phase' \in Ended \cup {"load"}
  BY <1>1 DEF Ended
<1>. HIDE DEF x, none
<1>4. BInv'
  BY <1>1, <1>3, PhaseEnds DEF StageInv
<1>. QED  BY <1>2, <1>4 DEF StageInv

\* A step of the assembler.
LEMMA AssembleKeeps ==
    ASSUME StageInv, Assemble
    PROVE  StageInv'
<1>1. /\ phase = "assemble" /\ AssemblerNext /\ pstate' = pstate /\ out' = out /\ made' = made
      /\ todo' = todo /\ files' = files /\ phase' = IF astate' = "failed" THEN "failed" ELSE phase
  BY Zenon DEF Assemble, pvars
<1>2. AInv'
  BY <1>1, AssemblerKeeps DEF StageInv
<1>3. BuildState(files, phase, pstate, todo, made, out)
  BY Zenon DEF StageInv, BInv
<1>4. /\ IsSequence(out) /\ phase \in Phases /\ pstate \in PStates /\ Made(files, made)
      /\ Waiting(files, todo) /\ Objects(made)
  BY <1>1, <1>3, Zenon DEF BuildState
<1>5. phase' \in Phases /\ phase' # "preprocess"
  BY <1>1 DEF Phases, Ended
<1>6. BuildState(files', phase', pstate', todo', made', out')
  BY <1>1, <1>4, <1>5, Zenon DEF BuildState
<1>7. BInv'
  BY <1>6 DEF BInv
<1>. QED  BY <1>2, <1>7 DEF StageInv

\* The first file of the list is the one that is worked on.
\* Sources are not assembled before all are preprocessed, and while one is assembled it
\* is the first of those still to do.
Progress(ph, as, td) ==
    /\ ph = "preprocess" => as = "not assembled"
    /\ ph = "assemble" /\ as # "not assembled" => td # <<>>

\* The inductive invariant.
Inv == StageInv /\ Progress(phase, astate, todo)

\* The assembler has made its object file.
LEMMA EndAssembleKeeps ==
    ASSUME Inv, EndAssemble
    PROVE  StageInv'
<1>. DEFINE x == StageFile(Head(todo), "bo")
            gone == IF job.keep THEN {} ELSE {Head(todo)}
            less == Restrict(files, DOMAIN files \ gone)
            object == WriteObject(obj)
            fs == Put(less, x, object)
            rest0 == Tail(todo)
<1>1. /\ phase = "assemble" /\ phase' = phase /\ pstate' = pstate /\ out' = out
      /\ files' = fs /\ made' = Append(made, x) /\ todo' = rest0 /\ astate = "assembled"
      /\ UNCHANGED <<toks, ti, obj, section, scopes, total>> /\ astate' = "not assembled"
  BY Zenon DEF EndAssemble, pvars
<1>2. AInv'
  BY <1>1, ASame DEF Inv, StageInv
<1>3. Extension(x) = "bo"
  BY StageExtension
<1>4. BuildState(files, phase, pstate, todo, made, out)
  BY Zenon DEF Inv, StageInv, BInv
<1>5. /\ IsSequence(out) /\ phase \in Phases /\ pstate \in PStates /\ Made(files, made)
      /\ Waiting(files, todo) /\ Objects(made)
  BY <1>1, <1>4, Zenon DEF BuildState
<1>6. todo # <<>>
  <2>1. astate # "not assembled"
    BY <1>1
  <2>. QED  BY <1>1, <2>1, Zenon DEF Inv, Progress
<1>7. Waiting(files, rest0) /\ Extension(Head(todo)) = "bi"
  BY <1>5, <1>6, WaitingTail
<1>8. \A y \in gone : Extension(y) = "bi"
  BY <1>7
<1>. HIDE DEF x, gone, object, rest0
<1>9. Waiting(less, rest0) /\ Made(less, made)
  BY <1>5, <1>7, <1>8, LessFiles
<1>. HIDE DEF less
<1>10. Waiting(fs, rest0) /\ Made(fs, made)
  BY <1>3, <1>9, MadePut, WaitingPut
<1>11. x \in DOMAIN fs
  BY DEF Put
<1>. HIDE DEF fs
<1>12. Made(fs, Append(made, x)) /\ Objects(Append(made, x))
  <2>1. /\ Made(fs, Append(made, x))
        /\ Objects(made) /\ Extension(x) = "bo" => Objects(Append(made, x))
    BY <1>10, <1>11, MadeMore
  <2>. QED  BY <1>3, <1>5, <2>1, Zenon
<1>13. phase' # "preprocess"
  BY <1>1
<1>14. BuildState(files', phase', pstate', todo', made', out')
  BY <1>1, <1>5, <1>10, <1>12, <1>13, Zenon DEF BuildState
<1>15. BInv'
  BY <1>14 DEF BInv
<1>. QED  BY <1>2, <1>15 DEF StageInv

\* The objects become a library.
LEMMA MakeLibraryKeeps ==
    ASSUME StageInv, MakeLibrary
    PROVE  StageInv'
<1>. DEFINE x == Output("ba")
            v == WriteLibrary(made)
<1>1. /\ UNCHANGED avars /\ phase' = "done" /\ pstate' = pstate /\ out' = out /\ made' = made
      /\ files' = Put(files, x, v)
  BY Zenon DEF MakeLibrary, pvars
<1>2. AInv'
  BY <1>1, AVars DEF StageInv
<1>3. phase' \in Ended \cup {"load"}
  BY <1>1 DEF Ended
<1>. HIDE DEF x, v
<1>4. BInv'
  BY <1>1, <1>3, PhaseEnds DEF StageInv
<1>. QED  BY <1>2, <1>4 DEF StageInv

\* The build ends with the objects.
LEMMA OnlyCompileKeeps ==
    ASSUME StageInv, OnlyCompile
    PROVE  StageInv'
<1>1. /\ UNCHANGED avars /\ phase' = "done" /\ pstate' = pstate /\ out' = out /\ made' = made
      /\ files' = files
  BY Zenon DEF OnlyCompile, pvars
<1>2. AInv'
  BY <1>1, AVars DEF StageInv
<1>3. phase' \in Ended \cup {"load"}
  BY <1>1 DEF Ended
<1>4. BInv'
  BY <1>1, <1>3, PhaseEnds DEF StageInv
<1>. QED  BY <1>2, <1>4 DEF StageInv

\* The linker makes the executable file, or fails.
LEMMA LinkProgramKeeps ==
    ASSUME StageInv, LinkProgram
    PROVE  StageInv'
<1>. DEFINE exe == Link(LinkedObjects)
            x == Output("bexe")
            v == WriteObject(exe)
<1>1. /\ UNCHANGED avars /\ pstate' = pstate /\ out' = out /\ made' = made
      /\ files' = files \/ files' = Put(files, x, v)
      /\ phase' = IF exe.ok THEN "load" ELSE "failed"
  BY Zenon DEF LinkProgram, pvars
<1>2. AInv'
  BY <1>1, AVars DEF StageInv
<1>. HIDE DEF x, v, exe
<1>3. phase' \in Ended \cup {"load"}
  BY <1>1 DEF Ended
<1>4. BInv'
  BY <1>1, <1>3, PhaseEnds DEF StageInv
<1>. QED  BY <1>2, <1>4 DEF StageInv

\* The executable file goes into memory.
LEMMA LoadProgramKeeps ==
    ASSUME StageInv, LoadProgram
    PROVE  StageInv'
<1>. DEFINE file == files[Output("bexe")]
<1>1. /\ UNCHANGED avars /\ pstate' = pstate /\ out' = out /\ made' = made /\ files' = files
      /\ memory' = Load(file) /\ phase' = memory'.state
  BY Zenon DEF LoadProgram, pvars
<1>2. AInv'
  BY <1>1, AVars DEF StageInv
<1>. HIDE DEF file
<1>3. phase' \in Ended \cup {"load"}
  <2>1. Load(file).state \in {"loaded", "failed", "thrown"}
    BY LoadFacts
  <2>2. phase' \in {"loaded", "failed", "thrown"}
    BY <1>1, <2>1, Zenon
  <2>. QED  BY <2>2 DEF Ended
<1>4. BInv'
  BY <1>1, <1>3, PhaseEnds DEF StageInv
<1>. QED  BY <1>2, <1>4 DEF StageInv

\* A step that changes nothing.
LEMMA StutterKeeps ==
    ASSUME StageInv, UNCHANGED vars
    PROVE  StageInv'
<1>1. UNCHANGED avars /\ UNCHANGED <<files, phase, pstate, todo, made, out>>
  BY DEF vars, bvars, pvars
<1>2. AInv'
  BY <1>1, AVars DEF StageInv
<1>3. BuildState(files, phase, pstate, todo, made, out)
  BY Zenon DEF StageInv, BInv
<1>4. BuildState(files', phase', pstate', todo', made', out')
  BY <1>1, <1>3
<1>. QED  BY <1>2, <1>4 DEF StageInv, BInv

LEMMA AssemblerNextStarts ==
    ASSUME AssemblerNext
    PROVE  astate = "assembling"
  BY Zenon DEF AssemblerNext, Starts, Skip, Label, Instruct, Return, Declare, MovePlace, BeginScope,
               EndScope, EnterSection, Stop, DefineNumbers, DefineText, Unknown, FinishAssembly

\* The phase, the stage of the assembler and what is still to do stay in step.
LEMMA ProgressKeeps ==
    ASSUME Inv, [Next]_vars
    PROVE  Progress(phase, astate, todo)'
<1>1. Progress(phase, astate, todo)
  BY Zenon DEF Inv
<1>2. ASSUME UNCHANGED <<phase, astate, todo>> PROVE Progress(phase', astate', todo')
  BY <1>1, <1>2, Zenon
<1>3. ASSUME phase' # "preprocess", phase' # "assemble" PROVE Progress(phase', astate', todo')
  BY <1>3, Zenon DEF Progress
<1>4. CASE Start
  <2>1. phase' = IF job'.ok THEN "preprocess" ELSE "failed"
    BY <1>4, Zenon DEF Start
  <2>2. phase' # "assemble"
    BY <2>1
  <2>3. astate' = "not assembled"
    BY <1>4, Zenon DEF Start
  <2>. QED  BY <2>2, <2>3, Zenon DEF Progress
<1>5. CASE BeginPreprocess \/ EndPreprocess
  <2>1. phase' = phase /\ phase = "preprocess" /\ astate' = astate
    BY <1>5, Zenon DEF BeginPreprocess, EndPreprocess, avars
  <2>2. astate' = "not assembled" /\ phase' # "assemble"
    BY <1>1, <2>1 DEF Progress
  <2>. QED  BY <2>2, Zenon DEF Progress
<1>6. CASE SourceMissing \/ ProcessedMissing \/ MakeLibrary \/ OnlyCompile
  <2>1. phase' = "failed" \/ phase' = "done"
    BY <1>6, Zenon DEF SourceMissing, ProcessedMissing, MakeLibrary, OnlyCompile
  <2>2. phase' # "preprocess" /\ phase' # "assemble"
    BY <2>1
  <2>. QED  BY <1>3, <2>2
<1>7. CASE LinkProgram
  <2>1. phase' = IF Link(LinkedObjects).ok THEN "load" ELSE "failed"
    BY <1>7, Zenon DEF LinkProgram
  <2>. DEFINE ok == Link(LinkedObjects).ok
  <2>. HIDE DEF ok
  <2>2. phase' # "preprocess" /\ phase' # "assemble"
    BY <2>1 DEF ok
  <2>. QED  BY <1>3, <2>2
<1>8. CASE LoadProgram
  <2>. DEFINE file == files[Output("bexe")]
  <2>1. phase' = Load(file).state
    BY <1>8, Zenon DEF LoadProgram
  <2>. HIDE DEF file
  <2>2. Load(file).state \in {"loaded", "failed", "thrown"}
    BY LoadFacts
  <2>3. phase' # "preprocess" /\ phase' # "assemble"
    BY <2>1, <2>2
  <2>. QED  BY <1>3, <2>3
<1>9. CASE Preprocess
  <2>1. /\ phase' = IF pstate' = "failed" THEN "failed" ELSE phase
        /\ astate' = astate /\ todo' = todo
    BY <1>9, Zenon DEF Preprocess, avars
  <2>2. \/ UNCHANGED <<phase, astate, todo>>
        \/ phase' # "preprocess" /\ phase' # "assemble"
    BY <2>1
  <2>. QED  BY <1>2, <1>3, <2>2, Zenon
<1>10. CASE AllPreprocessed
  <2>1. phase = "preprocess" /\ phase' = "assemble" /\ astate' = astate
    BY <1>10, Zenon DEF AllPreprocessed, avars
  <2>2. astate' = "not assembled" /\ phase' # "preprocess"
    BY <1>1, <2>1 DEF Progress
  <2>. QED  BY <2>2, Zenon DEF Progress
<1>11. CASE BeginAssemble
  <2>1. phase' = "assemble" /\ todo' = todo /\ todo # <<>>
    BY <1>11, Zenon DEF BeginAssemble
  <2>2. phase' # "preprocess"
    BY <2>1
  <2>. QED  BY <2>1, <2>2, Zenon DEF Progress
<1>12. CASE Assemble
  <2>1. phase = "assemble" /\ AssemblerNext /\ todo' = todo
        /\ phase' = IF astate' = "failed" THEN "failed" ELSE phase
    BY <1>12, Zenon DEF Assemble
  <2>2. astate = "assembling"
    BY <2>1, AssemblerNextStarts
  <2>3. phase' # "preprocess" /\ astate # "not assembled"
    BY <2>1, <2>2
  <2>4. todo' # <<>>
    BY <1>1, <2>1, <2>3, Zenon DEF Progress
  <2>. QED  BY <2>3, <2>4, Zenon DEF Progress
<1>13. CASE EndAssemble
  <2>1. phase' = phase /\ phase = "assemble" /\ astate' = "not assembled"
    BY <1>13, Zenon DEF EndAssemble
  <2>. QED  BY <2>1, Zenon DEF Progress
<1>14. CASE UNCHANGED vars
  BY <1>2, <1>14 DEF vars, bvars, avars
<1>15. CASE Rest
  BY <1>14, <1>15, Zenon DEF Rest
<1>16. Progress(phase', astate', todo')
  BY <1>4, <1>5, <1>6, <1>7, <1>8, <1>9, <1>10, <1>11, <1>12, <1>13, <1>14, <1>15, Zenon DEF Next
<1>. QED  BY <1>16

\* The invariant is inductive.
LEMMA InvKeeps ==
    ASSUME Inv, [Next]_vars
    PROVE  Inv'
<1>1. Progress(phase, astate, todo)'
  BY ProgressKeeps
<1>2. StageInv'
  <2>1. StageInv
    BY Zenon DEF Inv
  <2>. QED
    BY <2>1, StartKeeps, BeginPreprocessKeeps, SourceMissingKeeps, PreprocessKeeps, EndPreprocessKeeps,
       AllPreprocessedKeeps, BeginAssembleKeeps, ProcessedMissingKeeps, AssembleKeeps, EndAssembleKeeps,
       MakeLibraryKeeps, OnlyCompileKeeps, LinkProgramKeeps, LoadProgramKeeps, StutterKeeps, Zenon
    DEF Next, Rest
<1>. QED  BY <1>1, <1>2 DEF Inv

\* It holds when no command has run.
LEMMA InitInv ==
    ASSUME Init
    PROVE  Inv
<1>. DEFINE none == <<>>
            zero == 0
            ps == "unprocessed"
            as == "not assembled"
            ph == "done"
            n == Len(none)
<1>1. /\ toks = none /\ ti = zero /\ obj = EmptyObject /\ section = NoSection
      /\ scopes = none /\ total = zero /\ astate = as
      /\ phase = ph /\ todo = none /\ made = none /\ out = none /\ pstate = ps
  BY Zenon DEF Init, AssemblerInit, PreprocessorInit
<1>2. /\ ps \in PStates /\ as # "assembling" /\ as \in {"not assembled", "assembling", "assembled", "failed"}
      /\ ph \in Phases /\ ph # "preprocess" /\ ph # "assemble"
  BY DEF PStates, Phases, Ended
<1>3. IsSequence(none) /\ n = 0 /\ zero \in 0 .. n /\ n \in Nat
  BY EmptySequence
<1>4. Made(files, none) /\ OpenScopes(none, zero)
  BY EmptySequence DEF Made, OpenScopes
<1>5. Sound(EmptyObject, n) /\ EmptyObject.ok = TRUE
  <2>. HIDE DEF n
  <2>. QED  BY <1>3, SoundEmpty, EmptyFields
<1>6. NoSection \in AllSections
  BY DEF AllSections
<1>. HIDE DEF none, zero, ps, as, ph
<1>7. AInv
  BY <1>1, <1>2, <1>3, <1>4, <1>5, <1>6, Zenon DEF AInv, AssemblerState, Whole
<1>8. BInv
  BY <1>1, <1>2, <1>3, <1>4, Zenon DEF BInv, BuildState
<1>9. Progress(phase, astate, todo)
  BY <1>1, <1>2, Zenon DEF Progress
<1>. QED  BY <1>7, <1>8, <1>9 DEF Inv, StageInv

-----------------------------------------------------------------------------
(* What the invariant says of the state. *)

\* What the counts agree on is what ScopesAgree says.
LEMMA ScopesFollow == Inv => ScopesAgree
<1>. SUFFICES ASSUME Inv, astate = "assembling", ScopesBeginLines, ~Contains(toks, ".stop")
              PROVE  scopes = ScopesAt(ti)
  BY Zenon DEF ScopesAgree
<1>1. Counted(toks, ti, scopes, total)
  BY Zenon DEF Inv, StageInv, AInv, AssemblerState
<1>2. LineScopes(toks)
  BY Zenon DEF LineScopes, ScopesBeginLines
<1>3. scopes = ScopeFold(UpTo(toks, ti)).open
  BY <1>1, <1>2, Zenon DEF Counted
<1>. QED  BY <1>3, ScopesAtFold, Zenon

\* The state of a build has its type.
LEMMA TypesFollow == Inv => TypeOK
<1>. SUFFICES ASSUME Inv PROVE TypeOK
  OBVIOUS
<1>1. AssemblerState(toks, ti, obj, section, scopes, total, astate)
  BY Zenon DEF Inv, StageInv, AInv
<1>2. BuildState(files, phase, pstate, todo, made, out)
  BY Zenon DEF Inv, StageInv, BInv
<1>3. /\ phase \in Ended \cup {"preprocess", "assemble", "load"}
      /\ pstate \in {"unprocessed", "processing", "processed", "failed", "hung"}
  BY <1>2, Zenon DEF BuildState, Phases, PStates
<1>4. /\ astate \in {"not assembled", "assembling", "assembled", "failed"}
      /\ section \in {TEXT, DATA, BSS, NoSection} /\ ti \in 0 .. Len(toks)
      /\ Sound(obj, Len(toks)) /\ OpenScopes(scopes, total)
  BY <1>1, Zenon DEF AssemblerState, Whole, AllSections
<1>. DEFINE names == Len(SectionNames)
            m == Len(obj.strings)
            t == Len(obj.text)
            d == Len(obj.data)
            b == obj.bss
<1>5. names = 8
  BY DEF SectionNames
<1>6. /\ m \in Nat /\ t \in Nat /\ d \in Nat /\ b \in Nat
      /\ Named(obj.strings, obj.symtab, t, d, b) /\ Referred(obj.rels, m, t, Len(toks))
  BY <1>4, SoundFacts, Zenon DEF Sound
<1>. HIDE DEF names
<1>7. DOMAIN obj.symtab = names + 1 .. m
  <2>1. obj.symtab = [id \in 9 .. m |-> obj.symtab[id]]
    BY <1>6, Zenon DEF Named
  <2>2. DOMAIN obj.symtab = 9 .. m
    BY <2>1, Zenon
  <2>. QED  BY <1>5, <2>2
<1>8. \A id \in DOMAIN obj.symtab :
        LET e == obj.symtab[id]
        IN  /\ e.name = id /\ e.binding \in {"local", "global", "weak"}
            /\ e.value \in 0 .. IF e.section = NoSection THEN 0 ELSE SizeOf(obj, e.section)
  <2>. SUFFICES ASSUME NEW id \in DOMAIN obj.symtab, NEW e, e = obj.symtab[id]
                PROVE  /\ e.name = id /\ e.binding \in {"local", "global", "weak"}
                       /\ e.value \in 0 .. IF e.section = NoSection THEN 0 ELSE SizeOf(obj, e.section)
    BY Zenon
  <2>1. id \in 9 .. m
    BY <1>5, <1>7
  <2>2. Entry(e, id, t, d, b)
    BY <1>6, <2>1, Zenon DEF Named
  <2>. HIDE DEF t, d, b
  <2>3. PICK v, binding, s :
          /\ e = [name |-> id, value |-> v, binding |-> binding, section |-> s]
          /\ binding \in Bindings /\ s \in AllSections /\ v \in 0 .. Extent(t, d, b, s)
    BY <2>2, Zenon DEF Entry
  <2>4. e.name = id /\ e.binding = binding /\ e.value = v /\ e.section = s
    BY <2>3
  <2>5. Extent(t, d, b, s) = IF s = NoSection THEN 0 ELSE SizeOf(obj, s)
    <3>1. s \in {0, 1, 2, -1}
      BY <2>3 DEF AllSections, TEXT, DATA, BSS, NoSection
    <3>2. s # -1 => SizeOf(obj, s) = IF s = 0 THEN 4 * t ELSE IF s = 1 THEN d ELSE b
      <4>1. CASE s = 0
        BY <4>1 DEF SizeOf, TEXT, DATA, BSS, t
      <4>2. CASE s = 1
        BY <4>2 DEF SizeOf, TEXT, DATA, BSS, d
      <4>3. CASE s = 2
        BY <4>3 DEF SizeOf, TEXT, DATA, BSS, b
      <4>. QED  BY <3>1, <4>1, <4>2, <4>3
    <3>. QED  BY <3>1, <3>2 DEF Extent, TEXT, DATA, BSS, NoSection
  <2>6. e.value \in 0 .. IF e.section = NoSection THEN 0 ELSE SizeOf(obj, e.section)
    BY <2>3, <2>4, <2>5, Zenon
  <2>. QED  BY <2>3, <2>4, <2>6, Zenon DEF Bindings
<1>9. \A rel \in ToSet(obj.rels) :
        /\ rel.sym \in DOMAIN obj.symtab /\ rel.token \in 1 .. Len(toks)
        /\ rel.offset \in {4 * k : k \in 0 .. Len(obj.text) - 1}
  <2>. SUFFICES ASSUME NEW rel \in ToSet(obj.rels)
                PROVE  /\ rel.sym \in DOMAIN obj.symtab /\ rel.token \in 1 .. Len(toks)
                       /\ rel.offset \in {4 * k : k \in 0 .. t - 1}
    BY Zenon
  <2>. DEFINE n == Len(toks)
  <2>1. IsSequence(obj.rels) /\ \A k \in 1 .. Len(obj.rels) : Reference(obj.rels[k], m, t, n)
    BY <1>6, Zenon DEF Referred
  <2>2. Reference(rel, m, t, n)
    <3>1. DOMAIN obj.rels = 1 .. Len(obj.rels)
      BY <2>1, SequenceFacts
    <3>2. PICK k \in 1 .. Len(obj.rels) : rel = obj.rels[k]
      BY <3>1, Zenon DEF ToSet
    <3>. QED  BY <2>1, <3>2, Zenon
  <2>. HIDE DEF t, m, n
  <2>3. PICK k \in 0 .. t - 1 : \E sym \in 9 .. m : \E type : \E token \in 1 .. n :
          rel = [offset |-> 4 * k, sym |-> sym, type |-> type, token |-> token]
    BY <2>2, Zenon DEF Reference
  <2>4. PICK sym \in 9 .. m : \E type : \E token \in 1 .. n :
          rel = [offset |-> 4 * k, sym |-> sym, type |-> type, token |-> token]
    BY <2>3, Zenon
  <2>5. PICK type : \E token \in 1 .. n :
          rel = [offset |-> 4 * k, sym |-> sym, type |-> type, token |-> token]
    BY <2>4, Zenon
  <2>6. PICK token \in 1 .. n :
          rel = [offset |-> 4 * k, sym |-> sym, type |-> type, token |-> token]
    BY <2>5, Zenon
  <2>7. rel.offset = 4 * k /\ rel.sym = sym /\ rel.token = token
    BY <2>6
  <2>8. rel.sym \in DOMAIN obj.symtab
    BY <1>5, <1>7, <2>7
  <2>. QED  BY <2>7, <2>8, Zenon DEF n
<1>10. \A j, k \in DOMAIN scopes : scopes[j] < total /\ (j < k => scopes[j] < scopes[k])
  <2>1. DOMAIN scopes = 1 .. Len(scopes)
    BY <1>4, SequenceFacts, Zenon DEF OpenScopes
  <2>. QED  BY <1>4, <2>1, Zenon DEF OpenScopes
<1>11. ToSet(made) \subseteq DOMAIN files
  <2>1. IsSequence(made) /\ \A k \in 1 .. Len(made) : made[k] \in DOMAIN files
    BY <1>2, Zenon DEF BuildState, Made
  <2>2. DOMAIN made = 1 .. Len(made)
    BY <2>1, SequenceFacts
  <2>. QED  BY <2>1, <2>2, Zenon DEF ToSet
<1>. QED  BY <1>3, <1>4, <1>7, <1>8, <1>9, <1>10, <1>11, Zenon DEF TypeOK, names, m

-----------------------------------------------------------------------------
(* The sections of a file are found again. *)

\* How many cells there are before the k-th part.
LensOf(seqs) == [k \in DOMAIN seqs |-> Len(seqs[k])]
CellsBefore(seqs, k) == SumFunctionOnSet(LensOf(seqs), 1 .. k - 1)

LEMMA SumIsTotal ==
    ASSUME NEW f, NEW S
    PROVE  SumFunctionOnSet(f, S) = Total(f, S)
  BY DEF SumFunctionOnSet, FoldFunctionOnSet, Total, MapThenSumSet, MapThenFoldSet

\* The cells in front of a part are those of the parts before it.
LEMMA CellsBeforeFacts ==
    ASSUME NEW seqs, IsSequence(seqs), \A k \in 1 .. Len(seqs) : IsSequence(seqs[k])
    PROVE  /\ CellsBefore(seqs, 1) = 0
           /\ \A k \in 1 .. Len(seqs) :
                 /\ CellsBefore(seqs, k) \in Nat
                 /\ CellsBefore(seqs, k + 1) = CellsBefore(seqs, k) + Len(seqs[k])
<1>. DEFINE n == Len(seqs)
            f == LensOf(seqs)
            B(k) == CellsBefore(seqs, k)
<1>1. n \in Nat /\ DOMAIN seqs = 1 .. n
  BY SequenceFacts
<1>2. \A k \in 1 .. n : f[k] = Len(seqs[k]) /\ f[k] \in Nat
  BY <1>1, SequenceFacts DEF LensOf
<1>3. ASSUME NEW k \in 0 .. n
      PROVE  /\ Total(f, 1 .. k) \in Int
             /\ 1 .. k = {} => Total(f, 1 .. k) = 0
             /\ \A x \in 1 .. k : Total(f, 1 .. k) = f[x] + Total(f, (1 .. k) \ {x})
  <2>1. IsFiniteSet(1 .. k)
    BY <1>1, FS_Interval
  <2>2. \A x \in 1 .. k : f[x] \in Int
    BY <1>1, <1>2
  <2>. HIDE DEF f
  <2>. QED  BY <2>1, <2>2, TotalFacts
<1>4. \A k \in 0 .. n : B(k + 1) = Total(f, 1 .. k)
  <2>. SUFFICES ASSUME NEW k \in 0 .. n PROVE B(k + 1) = Total(f, 1 .. k)
    BY Zenon
  <2>1. (k + 1) - 1 = k
    BY <1>1
  <2>. QED  BY <2>1, SumIsTotal, Zenon DEF CellsBefore
<1>. HIDE DEF f, B, n
<1>5. B(1) = 0
  <2>1. 0 \in 0 .. n /\ 0 + 1 = 1 /\ 1 .. 0 = {}
    BY <1>1
  <2>. QED  BY <1>3, <1>4, <2>1
<1>6. ASSUME NEW k \in 0 .. n - 1 PROVE B((k + 1) + 1) = B(k + 1) + f[k + 1]
  <2>. DEFINE m == k + 1
  <2>1. k \in 0 .. n /\ m \in 0 .. n /\ m \in 1 .. m /\ m \in 1 .. n /\ (1 .. m) \ {m} = 1 .. k
    BY <1>1
  <2>2. B(k + 1) = Total(f, 1 .. k) /\ B(m + 1) = Total(f, 1 .. m)
    <3>. HIDE DEF m
    <3>. QED  BY <1>4, <2>1
  <2>3. Total(f, 1 .. k) \in Int
    BY <1>3, <2>1
  <2>4. Total(f, 1 .. m) = f[m] + Total(f, 1 .. k)
    <3>. HIDE DEF m
    <3>. QED  BY <1>3, <2>1
  <2>5. f[m] \in Nat
    BY <1>2, <2>1
  <2>. HIDE DEF m
  <2>6. B(m + 1) = B(k + 1) + f[m]
    BY <2>2, <2>3, <2>4, <2>5
  <2>. QED  BY <2>6 DEF m
<1>. DEFINE T == {k \in 0 .. n : B(k + 1) \in Nat}
<1>7. 0 \in T
  BY <1>1, <1>5
<1>8. ASSUME NEW k \in 0 .. n - 1, k \in T PROVE k + 1 \in T
  <2>1. k + 1 \in 0 .. n /\ f[k + 1] \in Nat
    BY <1>1, <1>2
  <2>. QED  BY <1>6, <1>8, <2>1
<1>. HIDE DEF T
<1>9. \A k \in 0 .. n : k \in T
  BY <1>1, <1>7, <1>8, NatInduct
<1>10. ASSUME NEW k \in 1 .. n PROVE B(k) \in Nat /\ B(k + 1) = B(k) + f[k]
  <2>. DEFINE i == k - 1
  <2>1. i \in 0 .. n - 1 /\ i \in 0 .. n /\ i + 1 = k
    BY <1>1
  <2>. HIDE DEF i
  <2>2. B(i + 1) \in Nat /\ B((i + 1) + 1) = B(i + 1) + f[i + 1]
    BY <1>6, <1>9, <2>1 DEF T
  <2>. QED  BY <2>1, <2>2
<1>11. \A k \in 1 .. n : f[k] = Len(seqs[k])
  BY <1>2
<1>. QED  BY <1>5, <1>10, <1>11, Zenon DEF B, n

\* Part k of the parts one after the other.
LEMMA PartFound ==
    ASSUME NEW seqs, IsSequence(seqs), \A k \in 1 .. Len(seqs) : IsSequence(seqs[k]),
           NEW k \in 1 .. Len(seqs)
    PROVE  SubSeq(FlattenSeq(seqs), CellsBefore(seqs, k) + 1, CellsBefore(seqs, k) + Len(seqs[k])) = seqs[k]
<1>. DEFINE n == Len(seqs)
            B(i) == CellsBefore(seqs, i)
            L(i) == Len(seqs[i])
<1>1. n \in Nat /\ k \in 1 .. n
  BY SequenceFacts
<1>2. B(1) = 0 /\ \A i \in 1 .. n : B(i) \in Nat /\ L(i) \in Nat /\ B(i + 1) = B(i) + L(i)
  BY CellsBeforeFacts, SequenceFacts
<1>3. PICK h : /\ h[0] = <<>>
               /\ \A i \in 0 .. n - 1 : h[i + 1] = IF i = 0 THEN seqs[i + 1] ELSE h[i] \o seqs[i + 1]
               /\ FlattenSeq(seqs) = h[n]
  BY FlattenRun
<1>4. \A i \in 1 .. n : IsSequence(seqs[i])
  OBVIOUS
<1>. HIDE DEF B, n
<1>. DEFINE Good(i) == IsSequence(h[i]) /\ Len(h[i]) = B(i + 1)
<1>5. \A i \in 0 .. n : Good(i)
  <2>1. Good(0)
    <3>1. IsSequence(h[0]) /\ Len(h[0]) = 0 /\ 0 + 1 = 1
      BY <1>3, EmptySequence
    <3>. QED  BY <1>2, <3>1, Zenon
  <2>2. ASSUME NEW i \in 0 .. n - 1, Good(i) PROVE Good(i + 1)
    <3>. DEFINE j == i + 1
    <3>1. j \in 1 .. n /\ h[j] = IF i = 0 THEN seqs[j] ELSE h[i] \o seqs[j]
      BY <1>1, <1>3
    <3>2. IsSequence(h[i]) /\ Len(h[i]) = B(j)
      BY <2>2
    <3>. HIDE DEF j, L
    <3>3. B(j) \in Nat /\ L(j) \in Nat /\ B(j + 1) = B(j) + L(j) /\ IsSequence(seqs[j])
      BY <1>2, <1>4, <3>1
    <3>4. IsSequence(h[j]) /\ Len(h[j]) = B(j) + L(j)
      <4>1. CASE i = 0
        <5>1. h[j] = seqs[j] /\ Len(h[j]) = L(j)
          BY <3>1, <4>1 DEF L
        <5>2. j = 1
          BY <4>1 DEF j
        <5>3. B(j) = 0
          BY <1>2, <5>2
        <5>. QED  BY <3>3, <5>1, <5>3
      <4>2. CASE i # 0
        <5>1. h[j] = h[i] \o seqs[j]
          BY <3>1, <4>2
        <5>2. IsSequence(h[i] \o seqs[j]) /\ Len(h[i] \o seqs[j]) = Len(h[i]) + Len(seqs[j])
          BY <3>2, <3>3, JoinedSequence
        <5>. QED  BY <3>2, <5>1, <5>2, Zenon DEF L
      <4>. QED  BY <4>1, <4>2
    <3>5. Good(j)
      BY <3>3, <3>4, Zenon
    <3>. QED  BY <3>5 DEF j
  <2>. HIDE DEF Good
  <2>. DEFINE T == {i \in 0 .. n : Good(i)}
  <2>3. 0 \in T
    BY <1>1, <2>1
  <2>4. ASSUME NEW i \in 0 .. n - 1, i \in T PROVE i + 1 \in T
    <3>1. i + 1 \in 0 .. n
      BY <1>1
    <3>. QED  BY <2>2, <2>4, <3>1
  <2>5. \A i \in 0 .. n : i \in T
    <3>. HIDE DEF T
    <3>. QED  BY <1>1, <2>3, <2>4, NatInduct
  <2>. QED  BY <2>5, Zenon
<1>. DEFINE b == B(k)
            l == L(k)
            Found(i) == \A j \in 1 .. l : h[i][b + j] = seqs[k][j]
<1>6. b \in Nat /\ l \in Nat /\ B(k + 1) = b + l
  BY <1>1, <1>2
<1>. HIDE DEF Good, b, l
<1>7. Found(k)
  <2>. DEFINE i == k - 1
  <2>1. i \in 0 .. n - 1 /\ i \in 0 .. n /\ i + 1 = k
    BY <1>1
  <2>. HIDE DEF i
  <2>2. h[k] = IF i = 0 THEN seqs[k] ELSE h[i] \o seqs[k]
    BY <1>3, <2>1
  <2>3. IsSequence(h[i]) /\ Len(h[i]) = b /\ IsSequence(seqs[k]) /\ Len(seqs[k]) = l
    BY <1>1, <1>4, <1>5, <2>1 DEF Good, b, l
  <2>4. CASE i = 0
    <3>1. k = 1
      BY <2>1, <2>4
    <3>2. b = 0
      BY <1>2, <3>1 DEF b
    <3>3. \A j \in 1 .. l : b + j = j
      BY <3>2
    <3>. QED  BY <2>2, <2>4, <3>3
  <2>5. CASE i # 0
    <3>. SUFFICES ASSUME NEW j \in 1 .. l PROVE h[k][b + j] = seqs[k][j]
      OBVIOUS
    <3>1. b + j \in 1 .. b + l /\ ~(b + j <= b) /\ (b + j) - b = j
      BY <1>6
    <3>2. \A q \in 1 .. Len(h[i]) + Len(seqs[k]) :
             (h[i] \o seqs[k])[q] = IF q <= Len(h[i]) THEN h[i][q] ELSE seqs[k][q - Len(h[i])]
      BY <2>3, JoinedSequence
    <3>3. (h[i] \o seqs[k])[b + j] = seqs[k][(b + j) - b]
      BY <2>3, <3>1, <3>2
    <3>. QED  BY <2>2, <2>5, <3>1, <3>3
  <2>. QED  BY <2>4, <2>5
<1>8. ASSUME NEW i \in k .. n - 1, Found(i), b + l <= B(i + 1) PROVE Found(i + 1) /\ b + l <= B((i + 1) + 1)
  <2>. DEFINE q == i + 1
  <2>1. i \in 0 .. n - 1 /\ i \in 0 .. n /\ i # 0 /\ q \in 1 .. n
    BY <1>1
  <2>2. h[q] = h[i] \o seqs[q]
    BY <1>3, <2>1
  <2>. HIDE DEF q
  <2>3. IsSequence(h[i]) /\ Len(h[i]) = B(q) /\ IsSequence(seqs[q]) /\ L(q) \in Nat /\ B(q) \in Nat
        /\ B(q + 1) = B(q) + L(q)
    BY <1>2, <1>4, <1>5, <2>1 DEF Good, q
  <2>4. b + l <= B(q)
    BY <1>8 DEF q
  <2>5. b + l <= B(q + 1)
    BY <1>6, <2>3, <2>4
  <2>6. ASSUME NEW j \in 1 .. l PROVE h[q][b + j] = seqs[k][j]
    <3>1. b + j \in 1 .. Len(h[i]) + Len(seqs[q]) /\ b + j <= Len(h[i])
      BY <1>6, <2>3, <2>4
    <3>2. \A x \in 1 .. Len(h[i]) + Len(seqs[q]) :
             (h[i] \o seqs[q])[x] = IF x <= Len(h[i]) THEN h[i][x] ELSE seqs[q][x - Len(h[i])]
      BY <2>3, JoinedSequence
    <3>3. (h[i] \o seqs[q])[b + j] = h[i][b + j]
      BY <3>1, <3>2
    <3>. QED  BY <1>8, <2>2, <3>3
  <2>. QED  BY <2>5, <2>6 DEF q
<1>9. Found(n) /\ b + l <= B(n + 1)
  <2>. DEFINE T == {i \in 0 .. n - k : Found(k + i) /\ b + l <= B((k + i) + 1)}
              m == n - k
  <2>1. m \in Nat /\ k + m = n /\ k + 0 = k
    BY <1>1
  <2>2. 0 \in T
    <3>1. b + l <= B(k + 1)
      BY <1>6
    <3>2. 0 \in 0 .. m
      BY <2>1
    <3>. QED  BY <1>7, <2>1, <3>1, <3>2
  <2>3. ASSUME NEW i \in 0 .. m - 1, i \in T PROVE i + 1 \in T
    <3>. DEFINE c == k + i
    <3>1. c \in k .. n - 1 /\ k + (i + 1) = c + 1 /\ i + 1 \in 0 .. m
      BY <1>1, <2>1
    <3>2. Found(c) /\ b + l <= B(c + 1)
      BY <2>3
    <3>. HIDE DEF c, Found
    <3>3. Found(c + 1) /\ b + l <= B((c + 1) + 1)
      BY <1>8, <3>1, <3>2
    <3>. QED  BY <3>1, <3>3
  <2>. HIDE DEF T, Found
  <2>4. m \in T
    <3>1. \A i \in 0 .. m : i \in T
      <4>. HIDE DEF m
      <4>. QED  BY <2>1, <2>2, <2>3, NatInduct
    <3>2. m \in 0 .. m
      BY <2>1
    <3>. QED  BY <3>1, <3>2
  <2>. QED  BY <2>1, <2>4 DEF T
<1>. DEFINE all == FlattenSeq(seqs)
            s == SubSeq(all, b + 1, b + l)
<1>10. IsSequence(all) /\ Len(all) = B(n + 1) /\ \A j \in 1 .. l : all[b + j] = seqs[k][j]
  <2>1. n \in 0 .. n
    BY <1>1
  <2>. QED  BY <1>3, <1>5, <1>9, <2>1 DEF Good
<1>. HIDE DEF all
<1>11. IsSequence(s) /\ Len(s) = l /\ \A j \in 1 .. l : s[j] = seqs[k][j]
  <2>. DEFINE lo == b + 1
              hi == b + l
  <2>1. lo \in Nat \ {0} /\ hi \in Nat /\ hi <= Len(all) /\ lo <= hi + 1 /\ hi - lo + 1 = l
        /\ \A j \in 1 .. l : lo + j - 1 = b + j
    <3>1. Len(all) \in Nat
      BY <1>10, SequenceFacts
    <3>. QED  BY <1>6, <1>9, <1>10, <3>1
  <2>. HIDE DEF lo, hi
  <2>2. /\ IsSequence(SubSeq(all, lo, hi)) /\ Len(SubSeq(all, lo, hi)) = hi - lo + 1
        /\ \A j \in 1 .. hi - lo + 1 : SubSeq(all, lo, hi)[j] = all[lo + j - 1]
    BY <1>10, <2>1, PartOfSequence
  <2>3. IsSequence(SubSeq(all, lo, hi)) /\ Len(SubSeq(all, lo, hi)) = l
        /\ \A j \in 1 .. l : SubSeq(all, lo, hi)[j] = seqs[k][j]
    BY <1>10, <2>1, <2>2
  <2>. QED  BY <2>3 DEF lo, hi
<1>12. IsSequence(seqs[k]) /\ Len(seqs[k]) = l
  BY <1>1, <1>4 DEF l
<1>. HIDE DEF s
<1>13. s = seqs[k]
  BY <1>11, <1>12, SequencesEqual
<1>. QED  BY <1>13, Zenon DEF s, all, b, l, B

-----------------------------------------------------------------------------
(* What is written is read again. *)

Entries(o) == [k \in 1 .. Cardinality(DOMAIN o.symtab) |-> o.symtab[k + Len(SectionNames)]]
StoredRels(o) == [k \in DOMAIN o.rels |-> Stored(o.rels[k])]

LEMMA CellsAre ==
    ASSUME NEW o
    PROVE  Cells(o) = <<o.text, o.data, <<o.bss>>, Entries(o), StoredRels(o), <<>>, <<>>, o.strings>>
  BY Zenon DEF Cells, Entries, StoredRels

LEMMA EightSequence ==
    ASSUME NEW a, NEW b, NEW c, NEW d, NEW e, NEW f, NEW g, NEW h, NEW s,
           s = <<a, b, c, d, e, f, g, h>>
    PROVE  /\ IsSequence(s) /\ Len(s) = 8
           /\ s[1] = a /\ s[2] = b /\ s[3] = c /\ s[4] = d /\ s[5] = e /\ s[6] = f /\ s[7] = g /\ s[8] = h
<1>1. s \in Seq({a, b, c, d, e, f, g, h}) /\ Len(s) = 8
  OBVIOUS
<1>. QED  BY <1>1 DEF IsSequence

\* What each part of an object file holds.
LEMMA CellsFacts ==
    ASSUME NEW o, NEW n, Sound(o, n)
    PROVE  /\ IsSequence(Cells(o)) /\ Len(Cells(o)) = 8
           /\ \A k \in 1 .. 8 : IsSequence(Cells(o)[k])
           /\ Cells(o)[1] = o.text /\ Cells(o)[2] = o.data /\ Cells(o)[3] = <<o.bss>>
           /\ Cells(o)[4] = Entries(o) /\ Cells(o)[5] = StoredRels(o) /\ Cells(o)[8] = o.strings
<1>. DEFINE c == Cells(o)
            none == <<>>
            bss == <<o.bss>>
<1>1. c = <<o.text, o.data, bss, Entries(o), StoredRels(o), none, none, o.strings>>
  BY CellsAre
<1>2. IsSequence(o.text) /\ IsSequence(o.data) /\ IsSequence(o.strings) /\ IsSequence(o.rels)
  BY SoundFacts, Zenon DEF Sound
<1>3. IsSequence(none) /\ IsSequence(bss)
  BY EmptySequence, SingleSequence
<1>4. IsSequence(Entries(o))
  <2>. DEFINE m == Cardinality(DOMAIN o.symtab)
              e == Entries(o)
              S == {e[k] : k \in 1 .. m}
  <2>1. DOMAIN o.symtab = 9 .. Len(o.strings) /\ Len(o.strings) \in Nat
    BY SoundFacts
  <2>2. m \in Nat
    <3>1. IsFiniteSet(9 .. Len(o.strings))
      BY <2>1, FS_Interval
    <3>. QED  BY <2>1, <3>1, FS_CardinalityType
  <2>. HIDE DEF m
  <2>3. e \in [1 .. m -> S]
    BY DEF Entries, m
  <2>. HIDE DEF e, S
  <2>4. IsSequence(e)
    BY <2>2, <2>3, SequenceOf
  <2>. QED  BY <2>4 DEF e
<1>5. IsSequence(StoredRels(o))
  <2>. DEFINE m == Len(o.rels)
              e == StoredRels(o)
              S == {e[k] : k \in 1 .. m}
  <2>1. m \in Nat /\ DOMAIN o.rels = 1 .. m
    BY <1>2, SequenceFacts
  <2>. HIDE DEF m
  <2>2. e \in [1 .. m -> S]
    BY <2>1 DEF StoredRels
  <2>. HIDE DEF e, S
  <2>3. IsSequence(e)
    BY <2>1, <2>2, SequenceOf
  <2>. QED  BY <2>3 DEF e
<1>. HIDE DEF c, none, bss
<1>6. /\ IsSequence(c) /\ Len(c) = 8
      /\ c[1] = o.text /\ c[2] = o.data /\ c[3] = bss /\ c[4] = Entries(o) /\ c[5] = StoredRels(o)
      /\ c[6] = none /\ c[7] = none /\ c[8] = o.strings
  BY <1>1, EightSequence
<1>7. \A k \in 1 .. 8 : k = 1 \/ k = 2 \/ k = 3 \/ k = 4 \/ k = 5 \/ k = 6 \/ k = 7 \/ k = 8
  OBVIOUS
<1>8. \A k \in 1 .. 8 : IsSequence(c[k])
  BY <1>2, <1>3, <1>4, <1>5, <1>6, <1>7, Zenon
<1>. QED  BY <1>6, <1>8, Zenon DEF c, bss

\* The file.
PlaceOf(o, s) == IF s - 1 \in DOMAIN o.at THEN o.at[s - 1] ELSE EmptyObject.at[TEXT]
BytesOfPart(o, s) == Len(Cells(o)[s]) * CellBytes[s]

\* The header of each section says where its part begins and how long it is.
LEMMA FileFacts ==
    ASSUME NEW o, NEW file, file = WriteObject(o)
    PROVE  /\ file.cells = FlattenSeq(Cells(o))
           /\ DOMAIN file.headers = DOMAIN Cells(o)
           /\ \A s \in DOMAIN Cells(o) :
                /\ file.headers[s].size = IF s = BSS + 1 THEN o.bss ELSE BytesOfPart(o, s)
                /\ file.headers[s].at = PlaceOf(o, s)
<1>. DEFINE c == Cells(o)
            start(s) == HeaderBytes + SumFunctionOnSet([k \in DOMAIN c |-> Len(c[k]) * CellBytes[k]], 1 .. s - 1)
            size(s) == IF s = BSS + 1 THEN o.bss ELSE Len(c[s]) * CellBytes[s]
            at(s) == IF s - 1 \in DOMAIN o.at THEN o.at[s - 1] ELSE EmptyObject.at[TEXT]
            header == [s \in DOMAIN c |-> [start |-> start(s), size |-> size(s), at |-> at(s)]]
            flat == FlattenSeq(c)
<1>1. file = [cells |-> flat, headers |-> header]
  BY DEF WriteObject
<1>2. \A s : BytesOfPart(o, s) = Len(c[s]) * CellBytes[s] /\ PlaceOf(o, s) = at(s)
  BY Zenon DEF BytesOfPart, PlaceOf
<1>. HIDE DEF start, size, at
<1>3. DOMAIN header = DOMAIN c /\ \A s \in DOMAIN c : header[s].size = size(s) /\ header[s].at = at(s)
  OBVIOUS
<1>. HIDE DEF header, flat
<1>4. file.cells = flat /\ file.headers = header
  BY <1>1
<1>5. \A s \in DOMAIN c : header[s].size = (IF s = BSS + 1 THEN o.bss ELSE BytesOfPart(o, s))
                          /\ header[s].at = PlaceOf(o, s)
  BY <1>2, <1>3, Zenon DEF size
<1>. QED  BY <1>3, <1>4, <1>5, Zenon DEF flat, c

\* A part has as many cells as its size tells.
LEMMA StoredFacts ==
    ASSUME NEW o, NEW n, Sound(o, n), NEW file, file = WriteObject(o), NEW s \in 1 .. 8
    PROVE  StoredCells(file, s) = Len(Cells(o)[s])
<1>. DEFINE l == Len(Cells(o)[s])
<1>1. /\ l \in Nat /\ (s = 3 => l = 1)
  <2>1. IsSequence(Cells(o)[s]) /\ Cells(o)[3] = <<o.bss>>
    BY CellsFacts
  <2>2. l \in Nat
    BY <2>1, SequenceFacts
  <2>. QED  BY <2>1, <2>2, SingleSequence
<1>2. s \in DOMAIN Cells(o)
  <2>1. IsSequence(Cells(o)) /\ Len(Cells(o)) = 8
    BY CellsFacts
  <2>. QED  BY <2>1, SequenceFacts
<1>3. file.headers[s].size = IF s = BSS + 1 THEN o.bss ELSE BytesOfPart(o, s)
  BY <1>2, FileFacts, Zenon
<1>4. BSS + 1 = 3
  BY DEF BSS
<1>. DEFINE b == CellBytes[s]
            size == file.headers[s].size
<1>5. b \in Nat \ {0}
  BY DEF CellBytes
<1>6. s # 3 => size = l * b
  BY <1>3, <1>4, Zenon DEF BytesOfPart
<1>7. StoredCells(file, s) = IF s = 3 THEN 1 ELSE size \div b
  BY <1>4, Zenon DEF StoredCells
<1>. HIDE DEF l, b, size
<1>8. (l * b) \div b = l
  BY <1>1, <1>5
<1>9. StoredCells(file, s) = l
  BY <1>1, <1>6, <1>7, <1>8, Zenon
<1>. QED  BY <1>9 DEF l

\* What is read.
PartRead(file, s) ==
    LET before == SumFunctionOnSet([k \in DOMAIN file.headers |-> StoredCells(file, k)], 1 .. s - 1)
    IN  SubSeq(file.cells, before + 1, before + StoredCells(file, s))
TableOf(entries) ==
    [id \in {entries[k].name : k \in DOMAIN entries} |->
       entries[CHOOSE k \in DOMAIN entries : entries[k].name = id]]
PlacesOf(file) == [s \in {TEXT, DATA, BSS} |-> file.headers[s + 1].at]

\* What the reader puts together.
LEMMA ReadIs ==
    ASSUME NEW file
    PROVE  ReadObject(file) =
             [text |-> PartRead(file, 1), data |-> PartRead(file, 2), bss |-> PartRead(file, 3)[1],
              symtab |-> TableOf(PartRead(file, 4)), rels |-> PartRead(file, 5), strings |-> PartRead(file, 8),
              at |-> PlacesOf(file), ok |-> TRUE]
  BY DEF ReadObject, PartRead, TableOf, PlacesOf

\* Each part that is read is the part that was written.
LEMMA PartReadFacts ==
    ASSUME NEW o, NEW n, Sound(o, n), NEW file, file = WriteObject(o), NEW s \in 1 .. 8
    PROVE  PartRead(file, s) = Cells(o)[s]
<1>. DEFINE c == Cells(o)
            lens == [k \in DOMAIN file.headers |-> StoredCells(file, k)]
<1>1. IsSequence(c) /\ Len(c) = 8 /\ \A k \in 1 .. 8 : IsSequence(c[k])
  BY CellsFacts
<1>2. file.cells = FlattenSeq(c) /\ DOMAIN file.headers = DOMAIN c
  BY FileFacts, Zenon
<1>3. DOMAIN c = 1 .. 8
  BY <1>1, SequenceFacts
<1>4. \A k \in 1 .. 8 : StoredCells(file, k) = Len(c[k])
  BY StoredFacts
<1>5. lens = LensOf(c)
  BY <1>2, <1>3, <1>4, Zenon DEF LensOf
<1>. HIDE DEF lens
<1>6. PartRead(file, s) = SubSeq(FlattenSeq(c), CellsBefore(c, s) + 1, CellsBefore(c, s) + Len(c[s]))
  BY <1>2, <1>4, <1>5, Zenon DEF PartRead, CellsBefore, lens
<1>. HIDE DEF c
<1>7. s \in 1 .. Len(c) /\ \A k \in 1 .. Len(c) : IsSequence(c[k])
  BY <1>1
<1>8. SubSeq(FlattenSeq(c), CellsBefore(c, s) + 1, CellsBefore(c, s) + Len(c[s])) = c[s]
  BY <1>1, <1>7, PartFound
<1>. QED  BY <1>6, <1>8 DEF c

\* The table of symbols.
LEMMA TableRead ==
    ASSUME NEW o, NEW n, Sound(o, n)
    PROVE  TableOf(Entries(o)) = o.symtab
<1>. DEFINE m == Len(o.strings)
            e == Entries(o)
            size == m - 8
<1>1. m \in Nat /\ m >= 8 /\ DOMAIN o.symtab = 9 .. m
  BY SoundFacts
<1>2. o.symtab = [id \in 9 .. m |-> o.symtab[id]]
  BY Zenon DEF Sound, Named
<1>. HIDE DEF m
<1>3. Cardinality(DOMAIN o.symtab) = size /\ size \in Nat
  <2>1. Cardinality(9 .. m) = IF 9 > m THEN 0 ELSE m - 9 + 1
    BY <1>1, FS_Interval
  <2>. QED  BY <1>1, <2>1
<1>4. DOMAIN e = 1 .. size /\ \A k \in 1 .. size : e[k] = o.symtab[k + 8]
  <2>1. Len(SectionNames) = 8
    BY DEF SectionNames
  <2>. HIDE DEF size
  <2>. QED  BY <1>3, <2>1, Zenon DEF Entries
<1>5. \A id \in 9 .. m : o.symtab[id].name = id
  <2>. SUFFICES ASSUME NEW id \in 9 .. m PROVE o.symtab[id].name = id
    OBVIOUS
  <2>1. Entry(o.symtab[id], id, Len(o.text), Len(o.data), o.bss)
    BY Zenon DEF Sound, Named, m
  <2>2. PICK v, binding, s : o.symtab[id] = [name |-> id, value |-> v, binding |-> binding, section |-> s]
    BY <2>1, Zenon DEF Entry
  <2>. QED  BY <2>2
<1>6. \A k \in 1 .. size : k + 8 \in 9 .. m /\ e[k].name = k + 8
  BY <1>1, <1>4, <1>5
<1>7. {e[k].name : k \in DOMAIN e} = 9 .. m
  <2>1. \A id \in 9 .. m : id - 8 \in 1 .. size /\ (id - 8) + 8 = id
    BY <1>1
  <2>. HIDE DEF e, size
  <2>. QED  BY <1>4, <1>6, <2>1
<1>8. ASSUME NEW id \in 9 .. m
      PROVE  e[CHOOSE k \in DOMAIN e : e[k].name = id] = o.symtab[id]
  <2>. DEFINE j == CHOOSE k \in DOMAIN e : e[k].name = id
  <2>1. \E k \in DOMAIN e : e[k].name = id
    <3>1. id - 8 \in 1 .. size /\ (id - 8) + 8 = id
      BY <1>1
    <3>. HIDE DEF e, size
    <3>. QED  BY <1>4, <1>6, <3>1
  <2>2. j \in DOMAIN e /\ e[j].name = id
    BY <2>1, Zenon
  <2>. HIDE DEF j, e, size
  <2>3. j + 8 = id /\ e[j] = o.symtab[j + 8]
    BY <1>4, <1>6, <2>2
  <2>. QED  BY <2>3 DEF j
<1>9. TableOf(e) = [id \in 9 .. m |-> o.symtab[id]]
  <2>. HIDE DEF e
  <2>. DEFINE ids == {e[k].name : k \in DOMAIN e}
              at(id) == e[CHOOSE k \in DOMAIN e : e[k].name = id]
  <2>1. TableOf(e) = [id \in ids |-> at(id)]
    BY DEF TableOf
  <2>2. ids = 9 .. m /\ \A id \in 9 .. m : at(id) = o.symtab[id]
    BY <1>7, <1>8, Zenon
  <2>. HIDE DEF ids, at
  <2>. QED  BY <2>1, <2>2
<1>. QED  BY <1>2, <1>9 DEF e

Forgotten(rel) == [rel EXCEPT !.token = 0]

\* The references that are stored, without the token they came from.
LEMMA RelsRead ==
    ASSUME NEW o, NEW n, Sound(o, n)
    PROVE  StoredRels(o) = [k \in DOMAIN o.rels |-> [o.rels[k] EXCEPT !.token = 0]]
<1>1. IsSequence(o.rels) /\ \A k \in 1 .. Len(o.rels) : Reference(o.rels[k], Len(o.strings), Len(o.text), n)
  BY Zenon DEF Sound, Referred
<1>2. DOMAIN o.rels = 1 .. Len(o.rels)
  BY <1>1, SequenceFacts
<1>3. ASSUME NEW k \in DOMAIN o.rels PROVE Stored(o.rels[k]) = [o.rels[k] EXCEPT !.token = 0]
  <2>. DEFINE rel == o.rels[k]
  <2>1. PICK i, sym, type, token : rel = [offset |-> 4 * i, sym |-> sym, type |-> type, token |-> token]
    BY <1>1, <1>2, Zenon DEF Reference
  <2>. HIDE DEF rel
  <2>. DEFINE off == 4 * i
              zero == 0
  <2>2. rel = [offset |-> off, sym |-> sym, type |-> type, token |-> token]
    BY <2>1
  <2>. HIDE DEF off, zero
  <2>3. rel.offset = off /\ rel.sym = sym /\ rel.type = type
    BY <2>2
  <2>4. [rel EXCEPT !.token = zero] = [offset |-> off, sym |-> sym, type |-> type, token |-> zero]
    BY <2>2
  <2>5. Stored(rel) = [offset |-> off, sym |-> sym, type |-> type, token |-> zero]
    BY <2>3, Zenon DEF Stored, zero
  <2>6. Stored(rel) = [rel EXCEPT !.token = zero]
    BY <2>4, <2>5, Zenon
  <2>. QED  BY <2>6 DEF rel, zero
<1>. DEFINE done(k) == [o.rels[k] EXCEPT !.token = 0]
            stored(k) == Stored(o.rels[k])
<1>4. \A k \in DOMAIN o.rels : stored(k) = done(k)
  BY <1>3, Zenon
<1>5. StoredRels(o) = [k \in DOMAIN o.rels |-> stored(k)]
  BY Zenon DEF StoredRels
<1>. HIDE DEF done, stored
<1>6. StoredRels(o) = [k \in DOMAIN o.rels |-> done(k)]
  BY <1>4, <1>5, Zenon
<1>. QED  BY <1>6, Zenon DEF done

\* The places of the sections.
LEMMA PlacesRead ==
    ASSUME NEW o, NEW n, Sound(o, n), NEW file, file = WriteObject(o)
    PROVE  PlacesOf(file) = o.at
<1>. DEFINE none == [address |-> 0, physical |-> FALSE]
            three == {TEXT, DATA, BSS}
<1>1. o.at = [s \in three |-> none]
  <2>1. EmptyObject.at = [s \in three |-> none]
    BY DEF EmptyObject
  <2>. QED  BY <2>1, Zenon DEF Sound
<1>. HIDE DEF none
<1>2. ASSUME NEW s \in three PROVE file.headers[s + 1].at = o.at[s]
  <2>. DEFINE i == s + 1
  <2>1. i \in 1 .. 8 /\ i - 1 = s
    BY DEF TEXT, DATA, BSS
  <2>2. DOMAIN Cells(o) = 1 .. 8
    <3>1. IsSequence(Cells(o)) /\ Len(Cells(o)) = 8
      BY CellsFacts
    <3>. QED  BY <3>1, SequenceFacts
  <2>. HIDE DEF i
  <2>3. file.headers[i].at = PlaceOf(o, i)
    BY <2>1, <2>2, FileFacts, Zenon
  <2>4. DOMAIN o.at = three
    BY <1>1, Zenon
  <2>5. PlaceOf(o, i) = o.at[s]
    BY <2>1, <2>4, Zenon DEF PlaceOf
  <2>. QED  BY <2>3, <2>5 DEF i
<1>3. PlacesOf(file) = [s \in three |-> o.at[s]]
  BY <1>2, Zenon DEF PlacesOf
<1>. HIDE DEF three
<1>. QED  BY <1>1, <1>3

WithRels(o, rels) == [o EXCEPT !.rels = rels]

\* Two objects with the same fields are one.
LEMMA ObjectsEqual ==
    ASSUME NEW o, NEW r, IsObject(o), IsObject(r),
           r.text = o.text, r.data = o.data, r.bss = o.bss, r.symtab = o.symtab,
           r.rels = o.rels, r.strings = o.strings, r.at = o.at, r.ok = o.ok
    PROVE  r = o
<1>1. PICK text, data, bss, symtab, rels, strings, at, ok :
        o = [text |-> text, data |-> data, bss |-> bss, symtab |-> symtab, rels |-> rels,
             strings |-> strings, at |-> at, ok |-> ok]
  BY Zenon DEF IsObject
<1>2. PICK text2, data2, bss2, symtab2, rels2, strings2, at2, ok2 :
        r = [text |-> text2, data |-> data2, bss |-> bss2, symtab |-> symtab2, rels |-> rels2,
             strings |-> strings2, at |-> at2, ok |-> ok2]
  BY Zenon DEF IsObject
<1>3. /\ text2 = text /\ data2 = data /\ bss2 = bss /\ symtab2 = symtab
      /\ rels2 = rels /\ strings2 = strings /\ at2 = at /\ ok2 = ok
  <2>1. /\ o.text = text /\ o.data = data /\ o.bss = bss /\ o.symtab = symtab
        /\ o.rels = rels /\ o.strings = strings /\ o.at = at /\ o.ok = ok
    BY <1>1, Zenon
  <2>2. /\ r.text = text2 /\ r.data = data2 /\ r.bss = bss2 /\ r.symtab = symtab2
        /\ r.rels = rels2 /\ r.strings = strings2 /\ r.at = at2 /\ r.ok = ok2
    BY <1>2, Zenon
  <2>. QED  BY <2>1, <2>2, Zenon
<1>. QED  BY <1>1, <1>2, <1>3, Zenon

(* A sound object that is written and read is the same object, apart from the tokens
   that its references came from. *)
LEMMA ObjectRead ==
    ASSUME NEW o, NEW n, Sound(o, n), o.ok = TRUE
    PROVE  ReadObject(WriteObject(o)) =
             [o EXCEPT !.rels = [k \in DOMAIN @ |-> [@[k] EXCEPT !.token = 0]]]
<1>. DEFINE file == WriteObject(o)
            rels == StoredRels(o)
            yes == TRUE
            r == ReadObject(file)
<1>1. /\ PartRead(file, 1) = o.text /\ PartRead(file, 2) = o.data /\ PartRead(file, 3) = <<o.bss>>
      /\ PartRead(file, 4) = Entries(o) /\ PartRead(file, 5) = rels /\ PartRead(file, 8) = o.strings
  <2>1. 1 \in 1 .. 8 /\ 2 \in 1 .. 8 /\ 3 \in 1 .. 8 /\ 4 \in 1 .. 8 /\ 5 \in 1 .. 8 /\ 8 \in 1 .. 8
    OBVIOUS
  <2>2. \A s \in 1 .. 8 : PartRead(file, s) = Cells(o)[s]
    BY PartReadFacts
  <2>3. /\ Cells(o)[1] = o.text /\ Cells(o)[2] = o.data /\ Cells(o)[3] = <<o.bss>>
        /\ Cells(o)[4] = Entries(o) /\ Cells(o)[5] = rels /\ Cells(o)[8] = o.strings
    BY CellsFacts
  <2>. HIDE DEF file, rels
  <2>. QED  BY <2>1, <2>2, <2>3, Zenon
<1>2. <<o.bss>>[1] = o.bss
  BY SingleSequence
<1>3. TableOf(Entries(o)) = o.symtab /\ PlacesOf(file) = o.at
  BY TableRead, PlacesRead
<1>4. r = [text |-> PartRead(file, 1), data |-> PartRead(file, 2), bss |-> PartRead(file, 3)[1],
           symtab |-> TableOf(PartRead(file, 4)), rels |-> PartRead(file, 5), strings |-> PartRead(file, 8),
           at |-> PlacesOf(file), ok |-> yes]
  BY ReadIs
<1>5. o.ok = yes
  OBVIOUS
<1>. HIDE DEF file, rels, yes, r
<1>6. r = [text |-> o.text, data |-> o.data, bss |-> o.bss, symtab |-> o.symtab, rels |-> rels,
           strings |-> o.strings, at |-> o.at, ok |-> o.ok]
  BY <1>1, <1>2, <1>3, <1>4, <1>5, Zenon
<1>7. r = WithRels(o, rels)
  <2>. DEFINE q == WithRels(o, rels)
  <2>1. /\ IsObject(q) /\ q.text = o.text /\ q.data = o.data /\ q.bss = o.bss /\ q.symtab = o.symtab
        /\ q.rels = rels /\ q.strings = o.strings /\ q.at = o.at /\ q.ok = o.ok
    BY PutRels, Zenon DEF Sound, WithRels
  <2>2. /\ IsObject(r) /\ r.text = o.text /\ r.data = o.data /\ r.bss = o.bss /\ r.symtab = o.symtab
        /\ r.rels = rels /\ r.strings = o.strings /\ r.at = o.at /\ r.ok = o.ok
    BY <1>6, Zenon DEF IsObject
  <2>. HIDE DEF q
  <2>3. r = q
    BY <2>1, <2>2, ObjectsEqual, Zenon
  <2>. QED  BY <2>3 DEF q
<1>8. rels = [k \in DOMAIN o.rels |-> [o.rels[k] EXCEPT !.token = 0]]
  BY RelsRead DEF rels
<1>9. r = [o EXCEPT !.rels = [k \in DOMAIN @ |-> [@[k] EXCEPT !.token = 0]]]
  <2>1. [o EXCEPT !.rels = [k \in DOMAIN @ |-> [@[k] EXCEPT !.token = 0]]]
          = [o EXCEPT !.rels = [k \in DOMAIN o.rels |-> [o.rels[k] EXCEPT !.token = 0]]]
    OBVIOUS
  <2>. QED  BY <1>7, <1>8, <2>1, Zenon DEF WithRels
<1>. QED  BY <1>9 DEF r, file

\* The assembler has only sound objects.
LEMMA ObjectsFollow == Inv => ObjectsSurvive
<1>. SUFFICES ASSUME Inv PROVE ReadObject(WriteObject(obj)) =
                                 [obj EXCEPT !.rels = [k \in DOMAIN @ |-> [@[k] EXCEPT !.token = 0]]]
  BY Zenon DEF ObjectsSurvive
<1>1. Sound(obj, Len(toks)) /\ obj.ok = TRUE
  BY Zenon DEF Inv, StageInv, AInv, AssemblerState, Whole
<1>. QED  BY <1>1, ObjectRead

-----------------------------------------------------------------------------
(* Theorems. *)

(* The invariant of a build holds in every state, for every set of programs and every word
   width: the object in the making is sound (each symbol and each reference lies within its
   section and names an entry that is there), the scopes the assembler counts are those of
   the tokens, and each stage finds the files that the stage before it made. *)
THEOREM BuildInv == Spec => []Inv
<1>1. Init => Inv
  BY InitInv
<1>2. Inv /\ [Next]_vars => Inv'
  BY InvKeeps
<1>. QED  BY <1>1, <1>2, PTL DEF Spec

\* Each variable of a build keeps its type, for every set of programs.
THEOREM BuildTypeOK == Spec => []TypeOK
<1>1. Inv => TypeOK
  BY TypesFollow
<1>. QED  BY <1>1, BuildInv, PTL

(* At the beginning of every line without a .stop the assembler (directives.cpp, .scope and
   .scend) and the settling of local references (assembler.cpp, fill_local) have the same
   scopes open, for every source text. *)
THEOREM BuildScopesAgree == Spec => []ScopesAgree
<1>1. Inv => ScopesAgree
  BY ScopesFollow
<1>. QED  BY <1>1, BuildInv, PTL

(* An object that is written to a file and read again is the object the assembler made,
   apart from the tokens that a relocation came from, for every object a source can
   produce (object_file.cpp, write_object_file and disassemble). *)
THEOREM BuildObjectsSurvive == Spec => []ObjectsSurvive
<1>1. Inv => ObjectsSurvive
  BY ObjectsFollow
<1>. QED  BY <1>1, BuildInv, PTL

=============================================================================
