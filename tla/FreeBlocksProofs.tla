-------------------------- MODULE FreeBlocksProofs --------------------------
(***************************************************************************)
(* What the operators of FreeBlocks do to a sound list, for every range    *)
(* and every list.                                                         *)
(***************************************************************************)
EXTENDS FreeBlocks, DataLemmas

-----------------------------------------------------------------------------
(* Lists of blocks. *)

\* Address and length of every block are words.
LEMMA BlockWords ==
    ASSUME NEW bs \in Seq(FreeBlock)
    PROVE  /\ Len(bs) \in Nat
           /\ \A i \in 1 .. Len(bs) :
                 /\ bs[i] \in FreeBlock
                 /\ bs[i].addr \in Word
                 /\ bs[i].len \in Word
<1>1. Len(bs) \in Nat /\ \A i \in 1 .. Len(bs) : bs[i] \in FreeBlock
  BY ElementOfSeq, LenProperties
<1>. QED  BY <1>1 DEF FreeBlock

\* An address is offered exactly when it lies in some block.
LEMMA FreeSetMember ==
    ASSUME NEW bs \in Seq(FreeBlock), NEW x
    PROVE  x \in FreeSet(bs) <=>
              /\ x \in Int
              /\ \E i \in 1 .. Len(bs) :
                    bs[i].addr <= x /\ x < bs[i].addr + bs[i].len
<1>1. \A i \in 1 .. Len(bs) : bs[i].addr \in Int /\ bs[i].len \in Int
  BY BlockWords DEF Word
<1>2. \A i \in 1 .. Len(bs) :
        x \in Span(bs[i].addr, bs[i].len) <=>
           x \in Int /\ bs[i].addr <= x /\ x < bs[i].addr + bs[i].len
  BY <1>1 DEF Span
<1>. QED  BY <1>2 DEF FreeSet

\* No address lies in two blocks of a sound list.
LEMMA BlocksDisjoint ==
    ASSUME NEW bs \in Seq(FreeBlock), SoundList(bs),
           NEW i \in 1 .. Len(bs), NEW j \in 1 .. Len(bs), NEW x \in Int,
           bs[i].addr <= x, x < bs[i].addr + bs[i].len,
           bs[j].addr <= x, x < bs[j].addr + bs[j].len
    PROVE  i = j
<1>1. /\ bs[i].addr \in Int /\ bs[i].len \in Int
      /\ bs[j].addr \in Int /\ bs[j].len \in Int
      /\ i \in Int /\ j \in Int
  BY BlockWords DEF Word
<1>2. /\ i < j => bs[i].addr + bs[i].len <= bs[j].addr
      /\ j < i => bs[j].addr + bs[j].len <= bs[i].addr
  BY DEF SoundList
<1>. QED  BY <1>1, <1>2

\* Inserting a block adds its addresses.
LEMMA FreeSetInsert ==
    ASSUME NEW bs \in Seq(FreeBlock), NEW i \in 1 .. Len(bs) + 1,
           NEW b \in FreeBlock
    PROVE  FreeSet(InsertAt(bs, i, b)) = FreeSet(bs) \cup Span(b.addr, b.len)
<1>. DEFINE cs == InsertAt(bs, i, b)
<1>1. /\ cs \in Seq(FreeBlock) /\ Len(cs) = Len(bs) + 1
      /\ \A j \in 1 .. Len(bs) + 1 :
            cs[j] = IF j < i THEN bs[j] ELSE IF j = i THEN b ELSE bs[j - 1]
  BY InsertAtFacts
<1>2. Len(bs) \in Nat /\ b.addr \in Int /\ b.len \in Int
  BY BlockWords DEF FreeBlock, Word
<1>. HIDE DEF cs
<1>3. ASSUME NEW x \in FreeSet(cs)
      PROVE  x \in FreeSet(bs) \cup Span(b.addr, b.len)
  <2>1. PICK j \in 1 .. Len(cs) : cs[j].addr <= x /\ x < cs[j].addr + cs[j].len
    BY <1>1, <1>3, FreeSetMember
  <2>2. x \in Int
    BY <1>1, <1>3, FreeSetMember
  <2>3. CASE j < i
    <3>1. j \in 1 .. Len(bs) /\ cs[j] = bs[j]
      BY <2>3, <1>1, <1>2
    <3>. QED  BY <3>1, <2>1, <2>2, FreeSetMember
  <2>4. CASE j = i
    BY <2>1, <2>2, <2>4, <1>1, <1>2 DEF Span
  <2>5. CASE j > i
    <3>1. j - 1 \in 1 .. Len(bs) /\ cs[j] = bs[j - 1]
      BY <2>5, <1>1, <1>2
    <3>. QED  BY <3>1, <2>1, <2>2, FreeSetMember
  <2>. QED  BY <2>3, <2>4, <2>5, <1>2
<1>4. ASSUME NEW x \in FreeSet(bs)
      PROVE  x \in FreeSet(cs)
  <2>1. PICK j \in 1 .. Len(bs) : bs[j].addr <= x /\ x < bs[j].addr + bs[j].len
    BY <1>4, FreeSetMember
  <2>2. x \in Int
    BY <1>4, FreeSetMember
  <2>3. CASE j < i
    <3>1. j \in 1 .. Len(cs) /\ cs[j] = bs[j]
      BY <2>3, <1>1, <1>2
    <3>. QED  BY <3>1, <2>1, <2>2, <1>1, FreeSetMember
  <2>4. CASE ~(j < i)
    <3>1. j + 1 \in 1 .. Len(cs) /\ cs[j + 1] = bs[j]
      BY <2>4, <1>1, <1>2
    <3>. QED  BY <3>1, <2>1, <2>2, <1>1, FreeSetMember
  <2>. QED  BY <2>3, <2>4
<1>5. ASSUME NEW x \in Span(b.addr, b.len)
      PROVE  x \in FreeSet(cs)
  <2>1. i \in 1 .. Len(cs) /\ cs[i] = b
    BY <1>1, <1>2
  <2>2. x \in Int /\ b.addr <= x /\ x < b.addr + b.len
    BY <1>5, <1>2 DEF Span
  <2>. QED  BY <2>1, <2>2, <1>1, FreeSetMember
<1>. QED  BY <1>3, <1>4, <1>5 DEF cs

\* Removing a block of a sound list takes exactly its addresses away.
LEMMA FreeSetRemove ==
    ASSUME NEW bs \in Seq(FreeBlock), SoundList(bs), NEW i \in 1 .. Len(bs)
    PROVE  FreeSet(RemoveAt(bs, i)) = FreeSet(bs) \ Span(bs[i].addr, bs[i].len)
<1>. DEFINE cs == RemoveAt(bs, i)
<1>1. /\ cs \in Seq(FreeBlock) /\ Len(cs) = Len(bs) - 1
      /\ \A j \in 1 .. Len(bs) - 1 : cs[j] = IF j < i THEN bs[j] ELSE bs[j + 1]
  BY RemoveAtFacts
<1>2. Len(bs) \in Nat /\ bs[i].addr \in Int /\ bs[i].len \in Int
  BY BlockWords DEF Word
<1>. HIDE DEF cs
<1>3. ASSUME NEW x \in FreeSet(cs)
      PROVE  x \in FreeSet(bs) /\ x \notin Span(bs[i].addr, bs[i].len)
  <2>1. PICK j \in 1 .. Len(cs) : cs[j].addr <= x /\ x < cs[j].addr + cs[j].len
    BY <1>1, <1>3, FreeSetMember
  <2>2. x \in Int
    BY <1>1, <1>3, FreeSetMember
  <2>3. PICK k \in 1 .. Len(bs) : k # i /\ cs[j] = bs[k]
    <3>1. CASE j < i
      BY <3>1, <1>1, <1>2
    <3>2. CASE ~(j < i)
      <4>1. j + 1 \in 1 .. Len(bs) /\ cs[j] = bs[j + 1] /\ j + 1 # i
        BY <3>2, <1>1, <1>2
      <4>. QED  BY <4>1
    <3>. QED  BY <3>1, <3>2
  <2>4. x \in FreeSet(bs)
    BY <2>1, <2>2, <2>3, FreeSetMember
  <2>5. x \notin Span(bs[i].addr, bs[i].len)
    BY <2>1, <2>2, <2>3, <1>2, BlocksDisjoint DEF Span
  <2>. QED  BY <2>4, <2>5
<1>4. ASSUME NEW x \in FreeSet(bs), x \notin Span(bs[i].addr, bs[i].len)
      PROVE  x \in FreeSet(cs)
  <2>1. PICK j \in 1 .. Len(bs) : bs[j].addr <= x /\ x < bs[j].addr + bs[j].len
    BY <1>4, FreeSetMember
  <2>2. x \in Int
    BY <1>4, FreeSetMember
  <2>3. j # i
    BY <2>1, <2>2, <1>2, <1>4 DEF Span
  <2>4. CASE j < i
    <3>1. j \in 1 .. Len(cs) /\ cs[j] = bs[j]
      BY <2>4, <1>1, <1>2
    <3>. QED  BY <3>1, <2>1, <2>2, <1>1, FreeSetMember
  <2>5. CASE j > i
    <3>1. j - 1 \in 1 .. Len(cs) /\ cs[j - 1] = bs[j]
      BY <2>5, <1>1, <1>2
    <3>. QED  BY <3>1, <2>1, <2>2, <1>1, FreeSetMember
  <2>. QED  BY <2>3, <2>4, <2>5
<1>. QED  BY <1>3, <1>4 DEF cs

\* Replacing a block of a sound list exchanges its addresses for the new ones.
LEMMA FreeSetReplace ==
    ASSUME NEW bs \in Seq(FreeBlock), SoundList(bs), NEW i \in 1 .. Len(bs),
           NEW b \in FreeBlock
    PROVE  FreeSet([bs EXCEPT ![i] = b]) =
              (FreeSet(bs) \ Span(bs[i].addr, bs[i].len)) \cup Span(b.addr, b.len)
<1>. DEFINE cs == [bs EXCEPT ![i] = b]
<1>1. /\ cs \in Seq(FreeBlock) /\ Len(cs) = Len(bs)
      /\ \A j \in 1 .. Len(bs) : cs[j] = IF j = i THEN b ELSE bs[j]
  BY ExceptSeq
<1>2. /\ bs[i].addr \in Int /\ bs[i].len \in Int
      /\ b.addr \in Int /\ b.len \in Int
  <2>1. bs[i].addr \in Int /\ bs[i].len \in Int
    BY BlockWords DEF Word
  <2>2. b.addr \in Int /\ b.len \in Int
    BY DEF FreeBlock, Word
  <2>. QED  BY <2>1, <2>2
<1>. HIDE DEF cs
<1>3. ASSUME NEW x \in FreeSet(cs)
      PROVE  \/ x \in FreeSet(bs) /\ x \notin Span(bs[i].addr, bs[i].len)
             \/ x \in Span(b.addr, b.len)
  <2>1. PICK j \in 1 .. Len(bs) : cs[j].addr <= x /\ x < cs[j].addr + cs[j].len
    BY <1>1, <1>3, FreeSetMember
  <2>2. x \in Int
    BY <1>1, <1>3, FreeSetMember
  <2>3. CASE j = i
    BY <2>1, <2>2, <2>3, <1>1, <1>2 DEF Span
  <2>4. CASE j # i
    <3>1. cs[j] = bs[j]
      BY <2>4, <1>1
    <3>2. x \in FreeSet(bs)
      BY <2>1, <2>2, <3>1, FreeSetMember
    <3>3. x \notin Span(bs[i].addr, bs[i].len)
      BY <2>1, <2>2, <2>4, <3>1, <1>2, BlocksDisjoint DEF Span
    <3>. QED  BY <3>2, <3>3
  <2>. QED  BY <2>3, <2>4
<1>4. ASSUME NEW x \in FreeSet(bs), x \notin Span(bs[i].addr, bs[i].len)
      PROVE  x \in FreeSet(cs)
  <2>1. PICK j \in 1 .. Len(bs) : bs[j].addr <= x /\ x < bs[j].addr + bs[j].len
    BY <1>4, FreeSetMember
  <2>2. x \in Int
    BY <1>4, FreeSetMember
  <2>3. j # i
    BY <2>1, <2>2, <1>2, <1>4 DEF Span
  <2>4. j \in 1 .. Len(cs) /\ cs[j] = bs[j]
    BY <2>3, <1>1
  <2>. QED  BY <2>4, <2>1, <2>2, <1>1, FreeSetMember
<1>5. ASSUME NEW x \in Span(b.addr, b.len)
      PROVE  x \in FreeSet(cs)
  <2>1. i \in 1 .. Len(cs) /\ cs[i] = b
    BY <1>1
  <2>2. x \in Int /\ b.addr <= x /\ x < b.addr + b.len
    BY <1>5, <1>2 DEF Span
  <2>. QED  BY <2>1, <2>2, <1>1, FreeSetMember
<1>. QED  BY <1>3, <1>4, <1>5 DEF cs

\* In a sound and joined list there is a gap between any two blocks.
LEMMA GapBetween ==
    ASSUME NEW bs \in Seq(FreeBlock), SoundList(bs), Joined(bs),
           NEW i \in 1 .. Len(bs), NEW j \in 1 .. Len(bs), i < j
    PROVE  bs[i].addr + bs[i].len < bs[j].addr
<1>1. /\ Len(bs) \in Nat
      /\ bs[i].addr \in Int /\ bs[i].len \in Int /\ bs[j].addr \in Int
  BY BlockWords DEF Word
<1>2. i + 1 \in 1 .. Len(bs) /\ i \in 1 .. Len(bs) - 1
  BY <1>1
<1>3. bs[i].addr + bs[i].len < bs[i + 1].addr
  BY <1>2 DEF Joined
<1>4. CASE i + 1 = j
  BY <1>3, <1>4
<1>5. CASE i + 1 < j
  <2>1. /\ bs[i + 1].addr + bs[i + 1].len <= bs[j].addr
        /\ bs[i + 1].len >= 1
    BY <1>2, <1>5 DEF SoundList
  <2>2. bs[i + 1].addr \in Int /\ bs[i + 1].len \in Int
    BY <1>2, BlockWords DEF Word
  <2>. QED  BY <1>1, <1>3, <2>1, <2>2
<1>. QED  BY <1>1, <1>4, <1>5

\* Removing a block keeps a list sound and joined.
LEMMA SoundRemove ==
    ASSUME NEW bs \in Seq(FreeBlock), SoundList(bs), NEW i \in 1 .. Len(bs)
    PROVE  /\ SoundList(RemoveAt(bs, i))
           /\ Joined(bs) => Joined(RemoveAt(bs, i))
<1>. DEFINE cs == RemoveAt(bs, i)
            from(j) == IF j < i THEN j ELSE j + 1
<1>1. Len(bs) \in Nat
  BY BlockWords
<1>2. /\ cs \in Seq(FreeBlock) /\ Len(cs) = Len(bs) - 1
      /\ \A j \in 1 .. Len(cs) : from(j) \in 1 .. Len(bs) /\ cs[j] = bs[from(j)]
      /\ \A j, k \in 1 .. Len(cs) : j < k => from(j) < from(k)
  <2>1. /\ cs \in Seq(FreeBlock) /\ Len(cs) = Len(bs) - 1
        /\ \A j \in 1 .. Len(bs) - 1 : cs[j] = IF j < i THEN bs[j] ELSE bs[j + 1]
    BY RemoveAtFacts
  <2>. HIDE DEF cs
  <2>2. \A j \in 1 .. Len(cs) : from(j) \in 1 .. Len(bs) /\ cs[j] = bs[from(j)]
    BY <1>1, <2>1
  <2>3. \A j, k \in 1 .. Len(cs) : j < k => from(j) < from(k)
    BY <1>1, <2>1
  <2>. QED  BY <2>1, <2>2, <2>3
<1>. HIDE DEF cs, from
<1>3. SoundList(cs)
  BY <1>2 DEF SoundList
<1>4. ASSUME Joined(bs)
      PROVE  Joined(cs)
  <2>. SUFFICES ASSUME NEW j \in 1 .. Len(cs) - 1
                PROVE  cs[j].addr + cs[j].len < cs[j + 1].addr
    BY DEF Joined
  <2>1. j \in 1 .. Len(cs) /\ j + 1 \in 1 .. Len(cs) /\ j < j + 1
    BY <1>1, <1>2
  <2>. QED  BY <2>1, <1>2, <1>4, GapBetween
<1>. QED  BY <1>3, <1>4 DEF cs

\* So does narrowing a block.
LEMMA SoundNarrow ==
    ASSUME NEW bs \in Seq(FreeBlock), SoundList(bs), NEW i \in 1 .. Len(bs),
           NEW b \in FreeBlock, b.len >= 1, bs[i].addr <= b.addr,
           b.addr + b.len <= bs[i].addr + bs[i].len
    PROVE  /\ SoundList([bs EXCEPT ![i] = b])
           /\ Joined(bs) => Joined([bs EXCEPT ![i] = b])
<1>. DEFINE cs == [bs EXCEPT ![i] = b]
<1>1. /\ cs \in Seq(FreeBlock) /\ Len(cs) = Len(bs) /\ Len(bs) \in Nat
      /\ \A j \in 1 .. Len(bs) : cs[j] = IF j = i THEN b ELSE bs[j]
  BY ExceptSeq, BlockWords
<1>. HIDE DEF cs
<1>2. ASSUME NEW j \in 1 .. Len(bs)
      PROVE  /\ cs[j].addr \in Int /\ cs[j].len \in Int
             /\ bs[j].addr \in Int /\ bs[j].len \in Int
             /\ cs[j].len >= 1 /\ bs[j].addr <= cs[j].addr
             /\ cs[j].addr + cs[j].len <= bs[j].addr + bs[j].len
  <2>1. /\ cs[j].addr \in Int /\ cs[j].len \in Int
        /\ bs[j].addr \in Int /\ bs[j].len \in Int
    BY <1>1, BlockWords DEF Word
  <2>2. bs[j].len >= 1
    BY DEF SoundList
  <2>. QED  BY <1>1, <2>1, <2>2
<1>3. SoundList(cs)
  <2>1. ASSUME NEW j \in 1 .. Len(bs)
        PROVE  /\ cs[j].len >= 1 /\ cs[j].addr >= Begin
               /\ cs[j].addr + cs[j].len <= Begin + Extent
    <3>1. bs[j].addr >= Begin /\ bs[j].addr + bs[j].len <= Begin + Extent
      BY DEF SoundList
    <3>. QED  BY <1>2, <3>1, RangeAssumption
  <2>2. ASSUME NEW j \in 1 .. Len(bs), NEW k \in 1 .. Len(bs), j < k
        PROVE  cs[j].addr + cs[j].len <= cs[k].addr
    <3>1. bs[j].addr + bs[j].len <= bs[k].addr
      BY <2>2 DEF SoundList
    <3>. QED  BY <1>2, <3>1
  <2>. QED  BY <1>1, <2>1, <2>2 DEF SoundList
<1>4. ASSUME Joined(bs)
      PROVE  Joined(cs)
  <2>. SUFFICES ASSUME NEW j \in 1 .. Len(bs) - 1
                PROVE  cs[j].addr + cs[j].len < cs[j + 1].addr
    BY <1>1 DEF Joined
  <2>1. bs[j].addr + bs[j].len < bs[j + 1].addr
    BY <1>4 DEF Joined
  <2>2. j \in 1 .. Len(bs) /\ j + 1 \in 1 .. Len(bs)
    BY <1>1
  <2>3. /\ cs[j].addr \in Int /\ cs[j].len \in Int
        /\ bs[j].addr \in Int /\ bs[j].len \in Int
        /\ cs[j].addr + cs[j].len <= bs[j].addr + bs[j].len
    BY <2>2, <1>2
  <2>4. /\ cs[j + 1].addr \in Int /\ bs[j + 1].addr \in Int
        /\ bs[j + 1].addr <= cs[j + 1].addr
    BY <2>2, <1>2
  <2>. QED  BY <2>1, <2>3, <2>4
<1>. QED  BY <1>3, <1>4 DEF cs

-----------------------------------------------------------------------------
(* The operations. *)

\* The first n addresses of a range and the others.
LEMMA SpanSplit ==
    ASSUME NEW a \in Int, NEW n \in Nat, NEW k \in Nat, n <= k
    PROVE  /\ Span(a, k) = Span(a, n) \cup Span(a + n, k - n)
           /\ Span(a, n) \cap Span(a + n, k - n) = {}
BY DEF Span

\* get_free_block takes n addresses that were all free, and nothing else.
LEMMA TakeFirstFacts ==
    ASSUME NEW bs \in Seq(FreeBlock), SoundList(bs),
           NEW n \in Nat \ {0}, CanFit(bs, n)
    PROVE  /\ TakeFirst(bs, n) \in Seq(FreeBlock)
           /\ SoundList(TakeFirst(bs, n))
           /\ Joined(bs) => Joined(TakeFirst(bs, n))
           /\ TakenAddr(bs, n) \in Word
           /\ Span(TakenAddr(bs, n), n) \subseteq FreeSet(bs)
           /\ FreeSet(TakeFirst(bs, n)) =
                 FreeSet(bs) \ Span(TakenAddr(bs, n), n)
<1>. DEFINE i == Find(bs, n)
            b == [addr |-> Plus(bs[i].addr, n), len |-> bs[i].len - n]
<1>1. i \in 1 .. Len(bs) /\ bs[i].len >= n
  <2>1. Fits(bs, n) \in SUBSET Nat
    BY BlockWords DEF Fits
  <2>2. i \in Fits(bs, n)
    BY <2>1, MinNat DEF CanFit, Find
  <2>. QED  BY <2>2 DEF Fits
<1>. HIDE DEF i
<1>2. /\ Len(bs) \in Nat
      /\ bs[i] \in FreeBlock /\ bs[i].addr \in Nat /\ bs[i].len \in Nat
      /\ bs[i].addr >= Begin
      /\ bs[i].addr + bs[i].len <= Begin + Extent
  BY <1>1, BlockWords DEF SoundList, Word
<1>3. /\ b.addr = bs[i].addr + n
      /\ b.len = bs[i].len - n
      /\ b \in FreeBlock
  BY <1>1, <1>2, RangeAssumption DEF Plus, FreeBlock, Word
<1>. HIDE DEF b
<1>4. TakenAddr(bs, n) = bs[i].addr /\ TakenAddr(bs, n) \in Word
  BY <1>1, BlockWords DEF TakenAddr, i
<1>5. Span(bs[i].addr, n) \subseteq FreeSet(bs)
  <2>. SUFFICES ASSUME NEW x \in Span(bs[i].addr, n)
                PROVE  x \in FreeSet(bs)
    OBVIOUS
  <2>1. x \in Int /\ bs[i].addr <= x /\ x < bs[i].addr + bs[i].len
    BY <1>1, <1>2 DEF Span
  <2>. QED  BY <2>1, <1>1, FreeSetMember
<1>6. CASE b.len = 0
  <2>. DEFINE cs == RemoveAt(bs, i)
  <2>1. TakeFirst(bs, n) = cs
    BY <1>6 DEF TakeFirst, i, b
  <2>2. /\ cs \in Seq(FreeBlock) /\ Len(cs) = Len(bs) - 1
        /\ \A j \in 1 .. Len(bs) - 1 : cs[j] = IF j < i THEN bs[j] ELSE bs[j + 1]
    BY <1>1, RemoveAtFacts
  <2>3. FreeSet(cs) = FreeSet(bs) \ Span(bs[i].addr, n)
    BY <1>1, <1>2, <1>3, <1>6, FreeSetRemove
  <2>4. SoundList(cs) /\ (Joined(bs) => Joined(cs))
    BY <1>1, SoundRemove DEF cs
  <2>. QED  BY <1>4, <1>5, <2>1, <2>2, <2>3, <2>4
<1>7. CASE b.len # 0
  <2>. DEFINE cs == [bs EXCEPT ![i] = b]
  <2>1. TakeFirst(bs, n) = cs
    BY <1>7 DEF TakeFirst, i, b
  <2>2. /\ cs \in Seq(FreeBlock) /\ Len(cs) = Len(bs)
        /\ \A j \in 1 .. Len(bs) : cs[j] = IF j = i THEN b ELSE bs[j]
    BY <1>1, <1>3, ExceptSeq
  <2>3. FreeSet(cs) = FreeSet(bs) \ Span(bs[i].addr, n)
    <3>1. FreeSet(cs) =
            (FreeSet(bs) \ Span(bs[i].addr, bs[i].len)) \cup Span(b.addr, b.len)
      BY <1>1, <1>3, FreeSetReplace
    <3>2. /\ Span(bs[i].addr, bs[i].len) = Span(bs[i].addr, n) \cup Span(b.addr, b.len)
          /\ Span(bs[i].addr, n) \cap Span(b.addr, b.len) = {}
      BY <1>1, <1>2, <1>3, SpanSplit
    <3>3. Span(b.addr, b.len) \subseteq FreeSet(bs)
      <4>1. \A x \in Span(bs[i].addr, bs[i].len) : x \in FreeSet(bs)
        BY <1>1, <1>2, FreeSetMember DEF Span
      <4>. QED  BY <3>2, <4>1
    <3>. QED  BY <3>1, <3>2, <3>3
  <2>4. SoundList(cs) /\ (Joined(bs) => Joined(cs))
    BY <1>1, <1>2, <1>3, <1>7, SoundNarrow
  <2>. QED  BY <1>4, <1>5, <2>1, <2>2, <2>3, <2>4
<1>. QED  BY <1>6, <1>7

\* insert finds the place where a belongs.
LEMMA InsertPosFacts ==
    ASSUME NEW bs \in Seq(FreeBlock), SoundList(bs), NEW a \in Int
    PROVE  /\ InsertPos(bs, a) \in 1 .. Len(bs) + 1
           /\ \A j \in 1 .. Len(bs) :
                 /\ j < InsertPos(bs, a) => bs[j].addr <= a
                 /\ j >= InsertPos(bs, a) => bs[j].addr >= a
<1>. DEFINE g == Min(Gaps(bs, a))
<1>1. /\ Len(bs) \in Nat
      /\ \A j \in 1 .. Len(bs) : bs[j].addr \in Int /\ bs[j].len \in Int
  BY BlockWords DEF Word
<1>2. \A j, k \in 1 .. Len(bs) : j < k => bs[j].addr <= bs[k].addr
  <2>. SUFFICES ASSUME NEW j \in 1 .. Len(bs), NEW k \in 1 .. Len(bs), j < k
                PROVE  bs[j].addr <= bs[k].addr
    OBVIOUS
  <2>1. bs[j].addr + bs[j].len <= bs[k].addr /\ bs[j].len >= 1
    BY DEF SoundList
  <2>. QED  BY <2>1, <1>1
<1>3. CASE bs = <<>> \/ a < bs[1].addr
  <2>1. InsertPos(bs, a) = 1
    BY <1>3 DEF InsertPos
  <2>2. \A j \in 1 .. Len(bs) : bs[j].addr >= a
    <3>1. CASE bs = <<>>
      BY <3>1
    <3>2. CASE bs # <<>> /\ a < bs[1].addr
      <4>. SUFFICES ASSUME NEW j \in 1 .. Len(bs)
                    PROVE  bs[j].addr >= a
        OBVIOUS
      <4>1. 1 \in 1 .. Len(bs) /\ (1 < j => bs[1].addr <= bs[j].addr)
        BY <1>1, <1>2
      <4>. QED  BY <1>1, <3>2, <4>1
    <3>. QED  BY <1>3, <3>1, <3>2
  <2>. QED  BY <2>1, <2>2, <1>1
<1>4. CASE bs # <<>> /\ ~(a < bs[1].addr)
  <2>1. InsertPos(bs, a) = 1 + g
    BY <1>4 DEF InsertPos
  <2>2. Len(bs) \in 1 .. Len(bs)
    BY <1>1, <1>4, EmptySeq
  <2>3. Gaps(bs, a) \in SUBSET Nat /\ Len(bs) \in Gaps(bs, a)
    BY <2>2, <1>1 DEF Gaps
  <2>4. g \in Gaps(bs, a) /\ \A k \in Gaps(bs, a) : g <= k
    BY <2>3, MinNat
  <2>. HIDE DEF g
  <2>5. g \in 1 .. Len(bs) /\ (g < Len(bs) => bs[g + 1].addr >= a)
    BY <2>4 DEF Gaps
  <2>6. ASSUME NEW j \in 1 .. Len(bs), j <= g
        PROVE  bs[j].addr <= a
    <3>1. CASE j = 1
      BY <3>1, <1>1, <1>4
    <3>2. CASE j > 1
      <4>1. j - 1 \in 1 .. Len(bs) /\ j - 1 < g /\ (j - 1) + 1 = j
        BY <3>2, <2>5, <2>6, <1>1
      <4>2. j - 1 \notin Gaps(bs, a)
        BY <4>1, <2>4, <2>5
      <4>. QED  BY <4>1, <4>2, <1>1 DEF Gaps
    <3>. QED  BY <3>1, <3>2
  <2>7. ASSUME NEW j \in 1 .. Len(bs), j > g
        PROVE  bs[j].addr >= a
    <3>1. g + 1 \in 1 .. Len(bs) /\ g < Len(bs)
      BY <2>5, <2>7
    <3>2. bs[g + 1].addr >= a /\ (g + 1 < j => bs[g + 1].addr <= bs[j].addr)
      BY <3>1, <2>5, <1>2
    <3>. QED  BY <3>1, <3>2, <2>5, <2>7, <1>1
  <2>. QED  BY <2>1, <2>5, <2>6, <2>7, <1>1
<1>. QED  BY <1>3, <1>4

\* Every place but those of S separates two blocks with a gap.
JoinedExcept(bs, S) ==
    \A j \in 1 .. Len(bs) - 1 :
        j \in S \/ bs[j].addr + bs[j].len < bs[j + 1].addr

\* Inserting a range that is inside the managed one and not free: the node goes
\* between the blocks below and above it, overlaps neither, and adds the part
\* of the range that its length covers.
LEMMA InsertFacts ==
    ASSUME NEW bs \in Seq(FreeBlock), SoundList(bs),
           NEW a \in Int, NEW n \in Nat \ {0},
           Begin <= a, a + n <= Begin + Extent,
           Span(a, n) \cap FreeSet(bs) = {}
    PROVE  LET i == InsertPos(bs, a)
               m == InsertLen(bs, a, n)
               cs == Insert(bs, a, n)
           IN  /\ m \in 1 .. n
               /\ i \in 1 .. Len(bs) + 1
               /\ cs \in Seq(FreeBlock) /\ Len(cs) = Len(bs) + 1
               /\ SoundList(cs)
               /\ FreeSet(cs) = FreeSet(bs) \cup Span(a, m)
               /\ Joined(bs) => JoinedExcept(cs, {i - 1, i})
               /\ ~Intersects(cs, i, a, n)
<1>. DEFINE i == InsertPos(bs, a)
            m == InsertLen(bs, a, n)
            b == [addr |-> a, len |-> m]
            cs == Insert(bs, a, n)
<1>1. m \in 1 .. n
  BY DEF InsertLen
<1>2. i \in 1 .. Len(bs) + 1 /\ Len(bs) \in Nat
  BY InsertPosFacts, BlockWords
<1>3. /\ a \in Word /\ m \in Word /\ b \in FreeBlock
      /\ a + m <= Begin + Extent /\ a + n < WordMod
  <2>1. a \in Word /\ m \in Word /\ a + m <= Begin + Extent /\ a + n < WordMod
    BY <1>1, RangeAssumption DEF Word
  <2>. QED  BY <2>1 DEF FreeBlock
<1>4. ASSUME NEW j \in 1 .. Len(bs)
      PROVE  /\ bs[j].addr \in Int /\ bs[j].len \in Int
             /\ j < i => bs[j].addr + bs[j].len <= a
             /\ j >= i => a + n <= bs[j].addr
  <2>1. bs[j].addr \in Int /\ bs[j].len \in Int /\ bs[j].len >= 1
    BY BlockWords DEF Word, SoundList
  <2>2. a \notin FreeSet(bs)
    BY DEF Span
  <2>3. ~(bs[j].addr <= a /\ a < bs[j].addr + bs[j].len)
    BY <2>2, FreeSetMember
  <2>4. bs[j].addr \in FreeSet(bs)
    BY <2>1, FreeSetMember
  <2>5. ~(a <= bs[j].addr /\ bs[j].addr < a + n)
    BY <2>1, <2>4 DEF Span
  <2>6. /\ j < i => bs[j].addr <= a
        /\ j >= i => bs[j].addr >= a
    BY InsertPosFacts
  <2>. QED  BY <2>1, <2>3, <2>5, <2>6
<1>. HIDE DEF i, m
<1>5. /\ cs = InsertAt(bs, i, b)
      /\ cs \in Seq(FreeBlock) /\ Len(cs) = Len(bs) + 1
      /\ \A j \in 1 .. Len(bs) + 1 :
            cs[j] = IF j < i THEN bs[j] ELSE IF j = i THEN b ELSE bs[j - 1]
  <2>1. cs = InsertAt(bs, i, b)
    BY DEF Insert, i, m
  <2>. HIDE DEF b, cs
  <2>. QED  BY <2>1, <1>2, <1>3, InsertAtFacts
<1>6. FreeSet(cs) = FreeSet(bs) \cup Span(a, m)
  BY <1>2, <1>3, <1>5, FreeSetInsert
<1>. HIDE DEF cs
<1>7. ASSUME NEW j \in 1 .. Len(cs)
      PROVE  /\ cs[j].addr \in Int /\ cs[j].len \in Int
             /\ cs[j].len >= 1 /\ cs[j].addr >= Begin
             /\ cs[j].addr + cs[j].len <= Begin + Extent
  <2>1. CASE j < i
    <3>1. cs[j] = bs[j] /\ j \in 1 .. Len(bs)
      BY <2>1, <1>2, <1>5
    <3>. QED  BY <3>1, <1>4 DEF SoundList
  <2>2. CASE j = i
    BY <2>2, <1>1, <1>2, <1>3, <1>5
  <2>3. CASE j > i
    <3>1. cs[j] = bs[j - 1] /\ j - 1 \in 1 .. Len(bs)
      BY <2>3, <1>2, <1>5
    <3>. QED  BY <3>1, <1>4 DEF SoundList
  <2>. QED  BY <2>1, <2>2, <2>3, <1>2
<1>8. ASSUME NEW j \in 1 .. Len(cs), NEW k \in 1 .. Len(cs), j < k
      PROVE  cs[j].addr + cs[j].len <= cs[k].addr
  <2>1. CASE k < i
    <3>1. cs[j] = bs[j] /\ cs[k] = bs[k] /\ j \in 1 .. Len(bs) /\ k \in 1 .. Len(bs)
      BY <2>1, <1>2, <1>5, <1>8
    <3>. QED  BY <3>1, <1>8 DEF SoundList
  <2>2. CASE k = i
    <3>1. cs[j] = bs[j] /\ cs[k] = b /\ j \in 1 .. Len(bs) /\ j < i
      BY <2>2, <1>2, <1>5, <1>8
    <3>. QED  BY <3>1, <1>4
  <2>3. CASE j = i
    <3>1. cs[j] = b /\ cs[k] = bs[k - 1] /\ k - 1 \in 1 .. Len(bs) /\ k - 1 >= i
      BY <2>3, <1>2, <1>5, <1>8
    <3>. QED  BY <3>1, <1>1, <1>4
  <2>4. CASE j < i /\ k > i
    <3>1. /\ cs[j] = bs[j] /\ cs[k] = bs[k - 1]
          /\ j \in 1 .. Len(bs) /\ k - 1 \in 1 .. Len(bs) /\ j < k - 1
      BY <2>4, <1>2, <1>5
    <3>. QED  BY <3>1 DEF SoundList
  <2>5. CASE j > i
    <3>1. /\ cs[j] = bs[j - 1] /\ cs[k] = bs[k - 1]
          /\ j - 1 \in 1 .. Len(bs) /\ k - 1 \in 1 .. Len(bs) /\ j - 1 < k - 1
      BY <2>5, <1>2, <1>5, <1>8
    <3>. QED  BY <3>1 DEF SoundList
  <2>. QED  BY <2>1, <2>2, <2>3, <2>4, <2>5, <1>2, <1>5, <1>8
<1>9. SoundList(cs)
  BY <1>7, <1>8 DEF SoundList
<1>10. ASSUME Joined(bs)
       PROVE  JoinedExcept(cs, {i - 1, i})
  <2>. SUFFICES ASSUME NEW j \in 1 .. Len(cs) - 1, j # i - 1, j # i
                PROVE  cs[j].addr + cs[j].len < cs[j + 1].addr
    BY DEF JoinedExcept
  <2>1. CASE j < i
    <3>1. /\ cs[j] = bs[j] /\ cs[j + 1] = bs[j + 1]
          /\ j \in 1 .. Len(bs) - 1
      BY <2>1, <1>2, <1>5
    <3>. QED  BY <3>1, <1>10 DEF Joined
  <2>2. CASE j > i
    <3>1. /\ cs[j] = bs[j - 1] /\ cs[j + 1] = bs[(j - 1) + 1]
          /\ j - 1 \in 1 .. Len(bs) - 1
      BY <2>2, <1>2, <1>5
    <3>. QED  BY <3>1, <1>10 DEF Joined
  <2>. QED  BY <2>1, <2>2, <1>2, <1>5
<1>11. ~Intersects(cs, i, a, n)
  <2>1. ASSUME i > 1
        PROVE  ~(EndOf(cs[i - 1]) > a)
    <3>1. i - 1 \in 1 .. Len(cs) /\ i \in 1 .. Len(cs) /\ i - 1 < i /\ cs[i] = b
      BY <2>1, <1>2, <1>5
    <3>2. cs[i - 1].addr + cs[i - 1].len <= a
      BY <3>1, <1>8
    <3>3. cs[i - 1].addr \in Int /\ cs[i - 1].len \in Int
      BY <3>1, <1>7
    <3>4. a < WordMod
      BY <1>3, RangeAssumption DEF Word
    <3>5. EndOf(cs[i - 1]) = cs[i - 1].addr + cs[i - 1].len
      BY <3>2, <3>3, <3>4, RangeAssumption DEF EndOf, Plus
    <3>. QED  BY <3>2, <3>3, <3>5
  <2>2. ASSUME i < Len(cs)
        PROVE  ~(cs[i + 1].addr < Plus(a, n))
    <3>1. i \in 1 .. Len(bs) /\ i + 1 \in 1 .. Len(bs) + 1
      BY <2>2, <1>2, <1>5
    <3>2. cs[i + 1] = bs[(i + 1) - 1] /\ (i + 1) - 1 = i
      BY <3>1, <1>5
    <3>3. bs[i].addr \in Int /\ a + n <= bs[i].addr
      BY <3>1, <1>4
    <3>. QED  BY <3>2, <3>3, <1>3 DEF Plus
  <2>. QED  BY <2>1, <2>2 DEF Intersects
<1>. QED  BY <1>1, <1>2, <1>5, <1>6, <1>9, <1>10, <1>11 DEF i, m, cs

\* Coalescing at i closes that place and keeps the list and its addresses.
LEMMA CoalesceFacts ==
    ASSUME NEW bs \in Seq(FreeBlock), SoundList(bs), NEW i \in Int
    PROVE  LET cs == Coalesce(bs, i)
           IN  /\ cs \in Seq(FreeBlock)
               /\ SoundList(cs)
               /\ FreeSet(cs) = FreeSet(bs)
               /\ \A S \in SUBSET (0 .. i - 1) :
                     JoinedExcept(bs, S \cup {i}) => JoinedExcept(cs, S)
<1>. DEFINE cs == Coalesce(bs, i)
<1>1. /\ Len(bs) \in Nat
      /\ \A j \in 1 .. Len(bs) :
            /\ bs[j].addr \in Int /\ bs[j].len \in Int
            /\ bs[j].len >= 1 /\ bs[j].addr >= Begin
            /\ bs[j].addr + bs[j].len <= Begin + Extent
            /\ EndOf(bs[j]) = bs[j].addr + bs[j].len
  <2>1. ASSUME NEW j \in 1 .. Len(bs)
        PROVE  /\ bs[j].addr \in Int /\ bs[j].len \in Int
               /\ bs[j].len >= 1 /\ bs[j].addr >= Begin
               /\ bs[j].addr + bs[j].len <= Begin + Extent
    BY BlockWords DEF SoundList, Word
  <2>2. ASSUME NEW j \in 1 .. Len(bs)
        PROVE  EndOf(bs[j]) = bs[j].addr + bs[j].len
    BY <2>1, RangeAssumption DEF EndOf, Plus
  <2>. QED  BY <2>1, <2>2, BlockWords
<1>2. CASE ~(i \in 1 .. Len(bs) - 1 /\ bs[i + 1].addr = EndOf(bs[i]))
  <2>1. cs = bs
    BY <1>2 DEF Coalesce
  <2>2. ASSUME NEW S \in SUBSET (0 .. i - 1), JoinedExcept(bs, S \cup {i})
        PROVE  JoinedExcept(bs, S)
    <3>. SUFFICES ASSUME NEW j \in 1 .. Len(bs) - 1, j \notin S
                  PROVE  bs[j].addr + bs[j].len < bs[j + 1].addr
      BY DEF JoinedExcept
    <3>1. CASE j # i
      BY <3>1, <2>2 DEF JoinedExcept
    <3>2. CASE j = i
      <4>1. i \in 1 .. Len(bs) /\ i + 1 \in 1 .. Len(bs) /\ i < i + 1
        BY <3>2, <1>1
      <4>2. bs[i].addr + bs[i].len <= bs[i + 1].addr
        BY <4>1 DEF SoundList
      <4>3. /\ bs[i].addr \in Int /\ bs[i].len \in Int /\ bs[i + 1].addr \in Int
            /\ EndOf(bs[i]) = bs[i].addr + bs[i].len
        BY <4>1, <1>1
      <4>4. bs[i + 1].addr # EndOf(bs[i])
        BY <3>2, <1>2
      <4>. QED  BY <4>2, <4>3, <4>4, <3>2
    <3>. QED  BY <3>1, <3>2
  <2>. QED  BY <2>1, <2>2
<1>3. CASE i \in 1 .. Len(bs) - 1 /\ bs[i + 1].addr = EndOf(bs[i])
  <2>. DEFINE b == [addr |-> bs[i].addr, len |-> Plus(bs[i].len, bs[i + 1].len)]
              ms == [bs EXCEPT ![i] = b]
  <2>1. i \in 1 .. Len(bs) /\ i + 1 \in 1 .. Len(bs)
    BY <1>1, <1>3
  <2>2. /\ b.addr = bs[i].addr
        /\ b.len = bs[i].len + bs[i + 1].len
        /\ bs[i + 1].addr = bs[i].addr + bs[i].len
        /\ b \in FreeBlock
    <3>1. bs[i].addr \in Word
      BY <2>1, BlockWords
    <3>2. /\ bs[i].addr \in Int /\ bs[i].len \in Int /\ bs[i + 1].len \in Int
          /\ bs[i].addr >= Begin /\ bs[i].len >= 1 /\ bs[i + 1].len >= 1
          /\ bs[i + 1].addr + bs[i + 1].len <= Begin + Extent
          /\ EndOf(bs[i]) = bs[i].addr + bs[i].len
      BY <2>1, <1>1
    <3>3. bs[i + 1].addr = bs[i].addr + bs[i].len
      BY <3>2, <1>3
    <3>4. bs[i].len + bs[i + 1].len \in Nat /\ bs[i].len + bs[i + 1].len < WordMod
      BY <3>2, <3>3, RangeAssumption
    <3>5. Plus(bs[i].len, bs[i + 1].len) = bs[i].len + bs[i + 1].len
      BY <3>4 DEF Plus
    <3>6. bs[i].len + bs[i + 1].len \in Word
      BY <3>4, RangeAssumption DEF Word
    <3>. QED  BY <3>1, <3>3, <3>5, <3>6 DEF FreeBlock
  <2>3. cs = RemoveAt(ms, i + 1)
    BY <1>3 DEF Coalesce
  <2>. HIDE DEF b
  <2>4. /\ ms \in Seq(FreeBlock) /\ Len(ms) = Len(bs)
        /\ \A j \in 1 .. Len(bs) : ms[j] = IF j = i THEN b ELSE bs[j]
    BY <2>1, <2>2, ExceptSeq
  <2>. HIDE DEF ms, cs
  <2>5. /\ cs \in Seq(FreeBlock) /\ Len(cs) = Len(bs) - 1
        /\ \A j \in 1 .. Len(bs) - 1 :
              cs[j] = IF j < i + 1 THEN ms[j] ELSE ms[j + 1]
    BY <2>1, <2>3, <2>4, RemoveAtFacts
  <2>6. ASSUME NEW j \in 1 .. Len(cs)
        PROVE  /\ j < i => j \in 1 .. Len(bs) /\ cs[j] = bs[j]
               /\ j = i => cs[j] = b
               /\ j > i => j + 1 \in 1 .. Len(bs) /\ cs[j] = bs[j + 1]
    <3>1. j \in 1 .. Len(bs) /\ j + 1 \in 1 .. Len(bs) /\ j \in 1 .. Len(bs) - 1
      BY <2>5, <1>1
    <3>2. ms[j] = (IF j = i THEN b ELSE bs[j]) /\ ms[j + 1] = (IF j + 1 = i THEN b ELSE bs[j + 1])
      BY <3>1, <2>4
    <3>. QED  BY <3>1, <3>2, <2>5
  <2>6a. /\ b.addr \in Int /\ b.len \in Int
        /\ b.addr + b.len = bs[i + 1].addr + bs[i + 1].len
    <3>1. /\ bs[i].addr \in Int /\ bs[i].len \in Int
          /\ bs[i + 1].addr \in Int /\ bs[i + 1].len \in Int
      BY <2>1, <1>1
    <3>. QED  BY <3>1, <2>2
  <2>6b. ASSUME NEW j \in 1 .. Len(cs)
        PROVE  cs[j].addr + cs[j].len =
                 IF j < i THEN bs[j].addr + bs[j].len
                          ELSE bs[j + 1].addr + bs[j + 1].len
    <3>1. j \in Int /\ i \in Int
      OBVIOUS
    <3>2. CASE j < i
      BY <3>2, <2>6
    <3>3. CASE j = i
      BY <3>3, <2>6, <2>6a
    <3>4. CASE j > i
      BY <3>4, <2>6
    <3>. QED  BY <3>1, <3>2, <3>3, <3>4
  <2>7. ASSUME NEW x \in FreeSet(cs)
        PROVE  x \in FreeSet(bs)
    <3>1. PICK j \in 1 .. Len(cs) : cs[j].addr <= x /\ x < cs[j].addr + cs[j].len
      BY <2>5, <2>7, FreeSetMember
    <3>2. x \in Int
      BY <2>5, <2>7, FreeSetMember
    <3>3. CASE j < i
      BY <3>1, <3>2, <3>3, <2>6, FreeSetMember
    <3>4. CASE j > i
      BY <3>1, <3>2, <3>4, <2>6, FreeSetMember
    <3>5. CASE j = i
      <4>1. b.addr <= x /\ x < b.addr + b.len
        BY <3>1, <3>5, <2>6
      <4>2. /\ bs[i].addr \in Int /\ bs[i].len \in Int /\ bs[i + 1].len \in Int
        BY <2>1, <1>1
      <4>3. \/ bs[i].addr <= x /\ x < bs[i].addr + bs[i].len
            \/ bs[i + 1].addr <= x /\ x < bs[i + 1].addr + bs[i + 1].len
        BY <4>1, <4>2, <3>2, <2>2
      <4>. QED  BY <4>3, <3>2, <2>1, FreeSetMember
    <3>. QED  BY <3>3, <3>4, <3>5
  <2>8. ASSUME NEW x \in FreeSet(bs)
        PROVE  x \in FreeSet(cs)
    <3>1. PICK j \in 1 .. Len(bs) : bs[j].addr <= x /\ x < bs[j].addr + bs[j].len
      BY <2>8, FreeSetMember
    <3>2. x \in Int
      BY <2>8, FreeSetMember
    <3>3. CASE j < i
      <4>1. j \in 1 .. Len(cs)
        BY <3>3, <2>1, <2>5, <1>1
      <4>2. cs[j] = bs[j]
        BY <4>1, <3>3, <2>6
      <4>. QED  BY <4>1, <4>2, <3>1, <3>2, <2>5, FreeSetMember
    <3>4. CASE j = i \/ j = i + 1
      <4>1. i \in 1 .. Len(cs) /\ cs[i] = b
        BY <2>1, <2>5, <2>6, <1>1
      <4>2. /\ bs[i].addr \in Int /\ bs[i].len \in Int /\ bs[i + 1].len \in Int
            /\ bs[i].len >= 1 /\ bs[i + 1].len >= 1
        BY <2>1, <1>1
      <4>3. b.addr <= x /\ x < b.addr + b.len
        BY <4>2, <3>1, <3>2, <3>4, <2>2
      <4>. QED  BY <4>1, <4>3, <3>2, <2>5, FreeSetMember
    <3>5. CASE j > i + 1
      <4>1. j - 1 \in 1 .. Len(cs) /\ cs[j - 1] = bs[(j - 1) + 1]
        BY <3>5, <2>1, <2>5, <2>6, <1>1
      <4>. QED  BY <4>1, <3>1, <3>2, <2>5, FreeSetMember
    <3>. QED  BY <3>3, <3>4, <3>5
  <2>9. ASSUME NEW j \in 1 .. Len(cs)
        PROVE  /\ cs[j].len >= 1 /\ cs[j].addr >= Begin
               /\ cs[j].addr + cs[j].len <= Begin + Extent
    <3>1. CASE j < i
      BY <3>1, <2>6, <1>1
    <3>2. CASE j > i
      BY <3>2, <2>6, <1>1
    <3>3. CASE j = i
      BY <3>3, <2>1, <2>2, <2>6, <1>1
    <3>. QED  BY <3>1, <3>2, <3>3
  <2>10. ASSUME NEW j \in 1 .. Len(cs), NEW k \in 1 .. Len(cs), j < k
         PROVE  cs[j].addr + cs[j].len <= cs[k].addr
    <3>. DEFINE last == IF j < i THEN j ELSE j + 1
                next == IF k <= i THEN k ELSE k + 1
    <3>1. last \in 1 .. Len(bs) /\ next \in 1 .. Len(bs) /\ last < next
      BY <2>1, <2>5, <2>10, <1>1
    <3>2. cs[j].addr + cs[j].len = bs[last].addr + bs[last].len
      BY <2>6b
    <3>3. cs[k].addr = bs[next].addr
      <4>1. k \in Int /\ (k < i \/ k = i \/ k > i)
        OBVIOUS
      <4>2. CASE k < i
        BY <4>2, <2>6
      <4>3. CASE k = i
        BY <4>3, <2>2, <2>6
      <4>4. CASE k > i
        BY <4>4, <2>6
      <4>. QED  BY <4>1, <4>2, <4>3, <4>4
    <3>. QED  BY <3>1, <3>2, <3>3 DEF SoundList
  <2>11. SoundList(cs)
    BY <2>9, <2>10 DEF SoundList
  <2>12. ASSUME NEW S \in SUBSET (0 .. i - 1), JoinedExcept(bs, S \cup {i})
         PROVE  JoinedExcept(cs, S)
    <3>. SUFFICES ASSUME NEW j \in 1 .. Len(cs) - 1, j \notin S
                  PROVE  cs[j].addr + cs[j].len < cs[j + 1].addr
      BY DEF JoinedExcept
    <3>. DEFINE last == IF j < i THEN j ELSE j + 1
    <3>0. j \in 1 .. Len(cs) /\ j + 1 \in 1 .. Len(cs)
      BY <2>5, <1>1
    <3>1. last \in 1 .. Len(bs) - 1 /\ last \notin S \cup {i}
      BY <2>1, <2>5, <1>1
    <3>2. bs[last].addr + bs[last].len < bs[last + 1].addr
      BY <3>1, <2>12 DEF JoinedExcept
    <3>3. cs[j].addr + cs[j].len = bs[last].addr + bs[last].len
      BY <3>0, <2>6b
    <3>4. cs[j + 1].addr = bs[last + 1].addr
      <4>1. j \in Int /\ i \in Int
        OBVIOUS
      <4>2. CASE j + 1 < i
        BY <4>1, <4>2, <3>0, <2>6
      <4>3. CASE j + 1 = i
        BY <4>1, <4>3, <3>0, <2>2, <2>6
      <4>4. CASE j + 1 > i
        <5>1. ~(j < i) /\ cs[j + 1] = bs[(j + 1) + 1]
          BY <4>1, <4>4, <3>0, <2>6
        <5>. QED  BY <5>1
      <4>. QED  BY <4>1, <4>2, <4>3, <4>4
    <3>. QED  BY <3>2, <3>3, <3>4
  <2>. QED  BY <2>5, <2>7, <2>8, <2>11, <2>12 DEF cs
<1>. QED  BY <1>2, <1>3

\* return_block of a range that is not free succeeds, adds some of the range's
\* addresses (all of them for a single page) and no other, and leaves a sound
\* list, joined if it was.
LEMMA ReturnBlockFacts ==
    ASSUME NEW bs \in Seq(FreeBlock), SoundList(bs),
           NEW a \in Int, NEW n \in Nat \ {0},
           Begin <= a, a + n <= Begin + Extent,
           Span(a, n) \cap FreeSet(bs) = {}
    PROVE  LET r == ReturnBlock(bs, a, n)
           IN  /\ r.status = "ok"
               /\ r.blocks \in Seq(FreeBlock)
               /\ SoundList(r.blocks)
               /\ Joined(bs) => Joined(r.blocks)
               /\ FreeSet(r.blocks) \subseteq FreeSet(bs) \cup Span(a, n)
               /\ FreeSet(bs) \cup {a} \subseteq FreeSet(r.blocks)
               /\ n = 1 => FreeSet(r.blocks) = FreeSet(bs) \cup Span(a, n)
<1>. DEFINE i == InsertPos(bs, a)
            m == InsertLen(bs, a, n)
            cs == Insert(bs, a, n)
            ds == Coalesce(cs, i)
            es == Coalesce(ds, i - 1)
            r == ReturnBlock(bs, a, n)
<1>1. /\ m \in 1 .. n /\ i \in 1 .. Len(bs) + 1 /\ Len(bs) \in Nat
      /\ cs \in Seq(FreeBlock) /\ SoundList(cs)
      /\ FreeSet(cs) = FreeSet(bs) \cup Span(a, m)
      /\ Joined(bs) => JoinedExcept(cs, {i - 1, i})
      /\ ~Intersects(cs, i, a, n)
  BY InsertFacts, BlockWords
<1>2. InRange(a, n)
  BY RangeAssumption DEF InRange, Plus
<1>3. r.status = "ok" /\ r.blocks = es
  BY <1>1, <1>2 DEF ReturnBlock
<1>. HIDE DEF cs, r, i, m
<1>4. /\ ds \in Seq(FreeBlock) /\ SoundList(ds)
      /\ FreeSet(ds) = FreeSet(cs)
      /\ Joined(bs) => JoinedExcept(ds, {i - 1})
  <2>1. i \in Int /\ {i - 1} \in SUBSET (0 .. i - 1) /\ {i - 1} \cup {i} = {i - 1, i}
    BY <1>1
  <2>2. /\ ds \in Seq(FreeBlock) /\ SoundList(ds) /\ FreeSet(ds) = FreeSet(cs)
        /\ \A S \in SUBSET (0 .. i - 1) :
              JoinedExcept(cs, S \cup {i}) => JoinedExcept(ds, S)
    BY <1>1, <2>1, CoalesceFacts
  <2>3. JoinedExcept(cs, {i - 1} \cup {i}) => JoinedExcept(ds, {i - 1})
    BY <2>1, <2>2
  <2>. QED  BY <1>1, <2>1, <2>2, <2>3
<1>. HIDE DEF ds
<1>5. /\ es \in Seq(FreeBlock) /\ SoundList(es)
      /\ FreeSet(es) = FreeSet(ds)
      /\ Joined(bs) => JoinedExcept(es, {})
  <2>1. i - 1 \in Int /\ {} \cup {i - 1} = {i - 1}
    BY <1>1
  <2>2. /\ es \in Seq(FreeBlock) /\ SoundList(es) /\ FreeSet(es) = FreeSet(ds)
        /\ \A S \in SUBSET (0 .. (i - 1) - 1) :
              JoinedExcept(ds, S \cup {i - 1}) => JoinedExcept(es, S)
    BY <1>4, <2>1, CoalesceFacts
  <2>3. JoinedExcept(ds, {} \cup {i - 1}) => JoinedExcept(es, {})
    BY <2>2
  <2>. QED  BY <1>4, <2>1, <2>2, <2>3
<1>. HIDE DEF es
<1>6. Joined(bs) => Joined(es)
  BY <1>5 DEF Joined, JoinedExcept
<1>7. /\ Span(a, m) \subseteq Span(a, n) /\ (n = 1 => Span(a, m) = Span(a, n))
      /\ a \in Span(a, m)
  BY <1>1 DEF Span
<1>. QED  BY <1>1, <1>3, <1>4, <1>5, <1>6, <1>7 DEF r

\* In a sound and joined list, a run of free addresses lies in one block.
LEMMA RunInOneBlock ==
    ASSUME NEW bs \in Seq(FreeBlock), SoundList(bs), Joined(bs),
           NEW a \in Int, NEW n \in Nat \ {0}, Span(a, n) \subseteq FreeSet(bs)
    PROVE  \E i \in 1 .. Len(bs) :
              bs[i].addr <= a /\ a + n <= bs[i].addr + bs[i].len
<1>1. PICK i \in 1 .. Len(bs) : bs[i].addr <= a /\ a < bs[i].addr + bs[i].len
  <2>1. a \in FreeSet(bs)
    BY DEF Span
  <2>. QED  BY <2>1, FreeSetMember
<1>. DEFINE e == bs[i].addr + bs[i].len
<1>2. bs[i].addr \in Int /\ bs[i].len \in Int
  BY BlockWords DEF Word
<1>3. SUFFICES ASSUME e < a + n
               PROVE  FALSE
  BY <1>1, <1>2
<1>4. e \in FreeSet(bs)
  BY <1>1, <1>2, <1>3 DEF Span
<1>5. PICK j \in 1 .. Len(bs) : bs[j].addr <= e /\ e < bs[j].addr + bs[j].len
  BY <1>4, FreeSetMember
<1>6. bs[j].addr \in Int /\ bs[j].len \in Int
  BY BlockWords DEF Word
<1>7. CASE i < j
  BY <1>5, <1>6, <1>7, <1>2, GapBetween
<1>8. CASE j < i
  <2>1. bs[j].addr + bs[j].len < bs[i].addr
    BY <1>8, GapBetween
  <2>. QED  BY <2>1, <1>1, <1>2, <1>5, <1>6
<1>9. CASE i = j
  BY <1>9, <1>2, <1>5
<1>. QED  BY <1>7, <1>8, <1>9

-----------------------------------------------------------------------------
(* The full list, and the range of any. *)

\* One block that covers the range.
LEMMA OneBlock ==
    ASSUME NEW bs \in Seq(FreeBlock),
           Len(bs) = 1, bs[1].addr = Begin, bs[1].len = Extent
    PROVE  SoundList(bs) /\ Joined(bs) /\ FreeSet(bs) = Span(Begin, Extent)
<1>1. 1 \in 1 .. Len(bs) /\ \A i \in 1 .. Len(bs) : i = 1
  OBVIOUS
<1>2. SoundList(bs) /\ Joined(bs)
  BY RangeAssumption DEF SoundList, Joined
<1>3. FreeSet(bs) = Span(Begin, Extent)
  BY <1>1, Zenon DEF FreeSet
<1>. QED  BY <1>2, <1>3

\* The list of a fresh constructor, or after return_all.
LEMMA FullList ==
    /\ InitialBlocks(TRUE) \in Seq(FreeBlock)
    /\ SoundList(InitialBlocks(TRUE))
    /\ Joined(InitialBlocks(TRUE))
    /\ FreeSet(InitialBlocks(TRUE)) = Span(Begin, Extent)
<1>1. Begin \in Word /\ Extent \in Word
  BY RangeAssumption DEF Word
<1>. DEFINE b == [addr |-> Begin, len |-> Extent]
<1>2. b \in FreeBlock /\ b.addr = Begin /\ b.len = Extent
  BY <1>1 DEF FreeBlock
<1>3. InitialBlocks(TRUE) = <<b>>
  BY Zenon DEF InitialBlocks
<1>. HIDE DEF b
<1>4. Len(<<b>>) = 1 /\ <<b>>[1] = b /\ <<b>> \in Seq(FreeBlock)
  BY <1>2
<1>5. SoundList(<<b>>) /\ Joined(<<b>>) /\ FreeSet(<<b>>) = Span(Begin, Extent)
  BY <1>2, <1>4, OneBlock
<1>. QED  BY <1>3, <1>4, <1>5, Zenon

\* A sound list offers addresses of the managed range only.
LEMMA FreeInRange ==
    ASSUME NEW bs \in Seq(FreeBlock), SoundList(bs)
    PROVE  FreeSet(bs) \subseteq Span(Begin, Extent)
<1>. SUFFICES ASSUME NEW x \in FreeSet(bs)
              PROVE  x \in Span(Begin, Extent)
  OBVIOUS
<1>1. PICK i \in 1 .. Len(bs) : bs[i].addr <= x /\ x < bs[i].addr + bs[i].len
  BY FreeSetMember
<1>2. x \in Int /\ bs[i].addr \in Int /\ bs[i].len \in Int
  BY FreeSetMember, BlockWords DEF Word
<1>3. bs[i].addr >= Begin /\ bs[i].addr + bs[i].len <= Begin + Extent
  BY DEF SoundList
<1>. QED  BY <1>1, <1>2, <1>3, RangeAssumption DEF Span

-----------------------------------------------------------------------------
(* Single addresses. *)

GoodList(bs) == bs \in Seq(FreeBlock) /\ SoundList(bs) /\ Joined(bs)

\* A single address is refused exactly when none is free.
LEMMA SingleFits ==
    ASSUME NEW bs, GoodList(bs)
    PROVE  CanFit(bs, 1) <=> FreeSet(bs) # {}
<1>1. bs \in Seq(FreeBlock) /\ SoundList(bs)
  BY DEF GoodList
<1>2. ASSUME NEW a \in FreeSet(bs)
      PROVE  CanFit(bs, 1)
  <2>1. PICK i \in 1 .. Len(bs) : bs[i].addr <= a /\ a < bs[i].addr + bs[i].len
    BY <1>1, FreeSetMember
  <2>2. bs[i].len >= 1
    BY <1>1 DEF SoundList
  <2>. QED  BY <2>2 DEF CanFit, Fits
<1>3. ASSUME CanFit(bs, 1)
      PROVE  FreeSet(bs) # {}
  <2>1. Span(TakenAddr(bs, 1), 1) \subseteq FreeSet(bs) /\ TakenAddr(bs, 1) \in Int
    BY <1>1, <1>3, TakeFirstFacts DEF Word
  <2>2. TakenAddr(bs, 1) \in Span(TakenAddr(bs, 1), 1)
    BY <2>1 DEF Span
  <2>. QED  BY <2>1, <2>2
<1>. QED  BY <1>2, <1>3

\* get_free_block of one address.
LEMMA TakeOne ==
    ASSUME NEW bs, GoodList(bs), CanFit(bs, 1)
    PROVE  /\ GoodList(TakeFirst(bs, 1))
           /\ TakenAddr(bs, 1) \in FreeSet(bs)
           /\ FreeSet(TakeFirst(bs, 1)) = FreeSet(bs) \ {TakenAddr(bs, 1)}
<1>1. /\ TakeFirst(bs, 1) \in Seq(FreeBlock)
      /\ SoundList(TakeFirst(bs, 1)) /\ Joined(TakeFirst(bs, 1))
      /\ TakenAddr(bs, 1) \in Int
      /\ Span(TakenAddr(bs, 1), 1) \subseteq FreeSet(bs)
      /\ FreeSet(TakeFirst(bs, 1)) = FreeSet(bs) \ Span(TakenAddr(bs, 1), 1)
  BY TakeFirstFacts DEF GoodList, Word
<1>2. Span(TakenAddr(bs, 1), 1) = {TakenAddr(bs, 1)}
  BY <1>1 DEF Span
<1>. QED  BY <1>1, <1>2 DEF GoodList

\* return_block of one address that is not free.
LEMMA ReturnOne ==
    ASSUME NEW bs, GoodList(bs), NEW a \in Span(Begin, Extent), a \notin FreeSet(bs)
    PROVE  /\ ReturnBlock(bs, a, 1).status = "ok"
           /\ GoodList(ReturnBlock(bs, a, 1).blocks)
           /\ FreeSet(ReturnBlock(bs, a, 1).blocks) = FreeSet(bs) \cup {a}
<1>1. /\ a \in Int /\ Begin <= a /\ a + 1 <= Begin + Extent /\ Span(a, 1) = {a}
      /\ 1 \in Nat \ {0}
  BY RangeAssumption DEF Span
<1>2. bs \in Seq(FreeBlock) /\ SoundList(bs) /\ Joined(bs)
  BY DEF GoodList
<1>3. Span(a, 1) \cap FreeSet(bs) = {}
  BY <1>1
<1>. DEFINE r == ReturnBlock(bs, a, 1)
<1>4. /\ r.status = "ok" /\ r.blocks \in Seq(FreeBlock) /\ SoundList(r.blocks)
      /\ Joined(r.blocks) /\ FreeSet(r.blocks) = FreeSet(bs) \cup Span(a, 1)
  BY <1>1, <1>2, <1>3, ReturnBlockFacts
<1>. HIDE DEF r
<1>5. r.status = "ok" /\ GoodList(r.blocks) /\ FreeSet(r.blocks) = FreeSet(bs) \cup {a}
  BY <1>1, <1>4 DEF GoodList
<1>. QED  BY <1>5 DEF r

-----------------------------------------------------------------------------
(* Many single addresses, one after the other. *)

\* Returning addresses that are not free, one by one, frees exactly those.
LEMMA ReturnEachFacts ==
    ASSUME NEW bs, GoodList(bs),
           NEW S \in SUBSET Span(Begin, Extent), S \cap FreeSet(bs) = {}
    PROVE  /\ GoodList(ReturnEach(bs, S))
           /\ FreeSet(ReturnEach(bs, S)) = FreeSet(bs) \cup S
<1>. DEFINE V == {cs \in Seq(FreeBlock) : GoodList(cs)}
            R == [s \in SUBSET S |-> {cs \in V : FreeSet(cs) = FreeSet(bs) \cup s}]
            pick == [s \in SUBSET S |-> CHOOSE x \in s : TRUE]
            step == [xv \in S \X V |-> ReturnBlock(xv[2], xv[1], 1).blocks]
<1>0. IsFiniteSet(S)
  <2>1. IsFiniteSet(Begin .. Begin + Extent - 1)
    BY RangeAssumption, FS_Interval
  <2>. QED  BY <2>1, FS_Subset DEF Span
<1>1. ASSUME NEW s \in SUBSET S, NEW x \in s, NEW cs \in R[s \ {x}]
      PROVE  ReturnBlock(cs, x, 1).blocks \in R[s]
  <2>1. GoodList(cs) /\ FreeSet(cs) = FreeSet(bs) \cup (s \ {x})
    OBVIOUS
  <2>2. x \in Span(Begin, Extent) /\ x \notin FreeSet(cs)
    BY <2>1
  <2>. DEFINE r == ReturnBlock(cs, x, 1)
  <2>3. GoodList(r.blocks) /\ FreeSet(r.blocks) = FreeSet(cs) \cup {x}
    BY <2>1, <2>2, ReturnOne
  <2>. HIDE DEF r
  <2>4. FreeSet(r.blocks) = FreeSet(bs) \cup s /\ r.blocks \in Seq(FreeBlock)
    BY <2>1, <2>3 DEF GoodList
  <2>5. r.blocks \in R[s]
    BY <2>3, <2>4
  <2>. QED  BY <2>5 DEF r
<1>2. bs \in R[{}]
  BY DEF GoodList
<1>3. \A s \in SUBSET S : s # {} => pick[s] \in s
  OBVIOUS
<1>4. ASSUME NEW s \in SUBSET S, s # {}, NEW cs \in R[s \ {pick[s]}]
      PROVE  /\ step[<<pick[s], cs>>] = ReturnBlock(cs, pick[s], 1).blocks
             /\ step[<<pick[s], cs>>] \in R[s]
  <2>1. pick[s] \in s /\ pick[s] \in S /\ cs \in V
    BY <1>3, <1>4
  <2>. HIDE DEF R, V, pick
  <2>2. step[<<pick[s], cs>>] = ReturnBlock(cs, pick[s], 1).blocks
    BY <2>1
  <2>. HIDE DEF step
  <2>. QED  BY <1>1, <1>4, <2>1, <2>2
<1>. DEFINE body(g) == [s \in SUBSET S |->
                          IF s = {} THEN bs
                          ELSE ReturnBlock(g[s \ {CHOOSE x \in s : TRUE}],
                                           CHOOSE x \in s : TRUE, 1).blocks]
            iter == CHOOSE g : g = body(g)
<1>5. \E g : g = body(g)
  <2>1. PICK g : FoldOf(g, S, bs, pick, step) /\ \A s \in SUBSET S : g[s] \in R[s]
    <3>. HIDE DEF R, pick, step
    <3>1. FoldWithin(S, R, bs, pick, step)
      BY <1>2, <1>3, <1>4 DEF FoldWithin
    <3>. QED  BY <1>0, <3>1, FoldExists
  <2>2. \A s \in SUBSET S : s # {} =>
           step[<<pick[s], g[s \ {pick[s]}]>>] = ReturnBlock(g[s \ {pick[s]}], pick[s], 1).blocks
    <3>. HIDE DEF R, pick, step
    <3>. QED  BY <1>4, <2>1
  <2>3. g = [s \in SUBSET S |->
               IF s = {} THEN bs ELSE ReturnBlock(g[s \ {pick[s]}], pick[s], 1).blocks]
    <3>. HIDE DEF R, pick, step
    <3>. QED  BY <2>1, <2>2 DEF FoldOf
  <2>4. g = body(g)
    BY <2>3
  <2>. QED  BY <2>4
<1>6. iter = body(iter)
  <2>. HIDE DEF body
  <2>. QED  BY <1>5
<1>7. \A s \in SUBSET S : iter[s] \in R[s]
  <2>. DEFINE T == {s \in SUBSET S : iter[s] \in R[s]}
  <2>1. {} \in T
    BY <1>2, <1>6
  <2>2. ASSUME NEW s \in SUBSET S, s # {}, \A x \in s : s \ {x} \in T
        PROVE  s \in T
    <3>. DEFINE x == CHOOSE y \in s : TRUE
    <3>1. x \in s
      BY <2>2
    <3>2. iter[s] = ReturnBlock(iter[s \ {x}], x, 1).blocks
      BY <1>6, <2>2
    <3>3. iter[s \ {x}] \in R[s \ {x}]
      BY <2>2, <3>1
    <3>. HIDE DEF x, R, iter
    <3>. QED  BY <1>1, <3>1, <3>2, <3>3
  <2>. HIDE DEF T
  <2>3. \A s \in SUBSET S : s \in T
    BY <1>0, <2>1, <2>2, SubsetInduct
  <2>. QED  BY <2>3 DEF T
<1>8. ReturnEach(bs, S) = iter[S]
  BY DEF ReturnEach, FoldSet, MapThenFoldSet
<1>. HIDE DEF iter
<1>. QED  BY <1>7, <1>8

-----------------------------------------------------------------------------
(* force_return_block: one block may overlap its neighbours for a while.   *)

\* Sorted by address, and sound but for the block at position `at`.
SoundAround(bs, at) ==
    /\ at \in 1 .. Len(bs)
    /\ \A i \in 1 .. Len(bs) :
          /\ bs[i].len >= 1
          /\ bs[i].addr >= Begin
          /\ bs[i].addr + bs[i].len <= Begin + Extent
    /\ \A i, j \in 1 .. Len(bs) :
          /\ i < j => bs[i].addr <= bs[j].addr
          /\ i < j /\ i # at /\ j # at => bs[i].addr + bs[i].len <= bs[j].addr

ClearBefore(bs, at) ==
    \A i \in 1 .. Len(bs) : i < at => bs[i].addr + bs[i].len <= bs[at].addr

ClearAfter(bs, at) ==
    \A i \in 1 .. Len(bs) : at < i => bs[at].addr + bs[at].len <= bs[i].addr

Work == [blocks : Seq(FreeBlock), at : Nat]

\* Replacing the blocks at lo and lo + 1, one of which is the unsound one, by a
\* block within their addresses.
LEMMA Merge ==
    ASSUME NEW bs \in Seq(FreeBlock), NEW lo \in 1 .. Len(bs) - 1,
           NEW at \in {lo, lo + 1}, SoundAround(bs, at),
           NEW b \in FreeBlock, b.len >= 1, b.addr = bs[lo].addr,
           b.addr + b.len <= Begin + Extent,
           Span(b.addr, b.len) \subseteq FreeSet(bs),
           NEW cs \in Seq(FreeBlock), Len(cs) = Len(bs) - 1,
           \A j \in 1 .. Len(bs) - 1 :
              cs[j] = IF j < lo THEN bs[j] ELSE IF j = lo THEN b ELSE bs[j + 1]
    PROVE  /\ SoundAround(cs, lo)
           /\ FreeSet(cs) \subseteq FreeSet(bs)
           /\ at = lo + 1 \/ ClearBefore(bs, at) => ClearBefore(cs, lo)
<1>. DEFINE old(j) == IF j <= lo THEN j ELSE j + 1
<1>1. /\ Len(bs) \in Nat /\ b.addr \in Int /\ b.len \in Int
      /\ \A j \in 1 .. Len(bs) :
            /\ bs[j].addr \in Int /\ bs[j].len \in Int
            /\ bs[j].len >= 1 /\ bs[j].addr >= Begin
            /\ bs[j].addr + bs[j].len <= Begin + Extent
  <2>1. b.addr \in Word /\ b.len \in Word
    BY DEF FreeBlock
  <2>2. /\ Len(bs) \in Nat
        /\ \A j \in 1 .. Len(bs) : bs[j].addr \in Word /\ bs[j].len \in Word
    BY BlockWords
  <2>. QED  BY <2>1, <2>2 DEF SoundAround, Word
<1>2. ASSUME NEW j \in 1 .. Len(cs)
      PROVE  /\ old(j) \in 1 .. Len(bs)
             /\ cs[j].addr = bs[old(j)].addr
             /\ j # lo => cs[j] = bs[old(j)] /\ old(j) # lo /\ old(j) # lo + 1
             /\ cs[j].len \in Int /\ cs[j].len >= 1
             /\ cs[j].addr >= Begin /\ cs[j].addr + cs[j].len <= Begin + Extent
  <2>1. CASE j < lo
    <3>1. cs[j] = bs[j] /\ j \in 1 .. Len(bs) /\ old(j) = j
      BY <2>1
    <3>. QED  BY <1>1, <2>1, <3>1
  <2>2. CASE j = lo
    <3>1. cs[j] = b /\ lo \in 1 .. Len(bs) /\ old(j) = lo
      BY <2>2
    <3>. QED  BY <1>1, <2>2, <3>1
  <2>3. CASE j > lo
    <3>1. cs[j] = bs[j + 1] /\ j + 1 \in 1 .. Len(bs) /\ old(j) = j + 1
      BY <1>1, <2>3
    <3>. QED  BY <1>1, <2>3, <3>1
  <2>. QED  BY <2>1, <2>2, <2>3
<1>3. ASSUME NEW i \in 1 .. Len(cs), NEW j \in 1 .. Len(cs), i < j
      PROVE  /\ cs[i].addr <= cs[j].addr
             /\ i # lo /\ j # lo => cs[i].addr + cs[i].len <= cs[j].addr
  <2>1. old(i) < old(j)
    BY <1>3
  <2>2. /\ old(i) \in 1 .. Len(bs) /\ old(j) \in 1 .. Len(bs)
        /\ cs[i].addr = bs[old(i)].addr /\ cs[j].addr = bs[old(j)].addr
        /\ i # lo => cs[i] = bs[old(i)] /\ old(i) # at
        /\ j # lo => old(j) # at
    BY <1>2
  <2>. HIDE DEF old
  <2>. QED  BY <2>1, <2>2 DEF SoundAround
<1>4. SoundAround(cs, lo)
  BY <1>1, <1>2, <1>3 DEF SoundAround
<1>5. ASSUME NEW x \in FreeSet(cs)
      PROVE  x \in FreeSet(bs)
  <2>1. PICK j \in 1 .. Len(cs) : cs[j].addr <= x /\ x < cs[j].addr + cs[j].len
    BY FreeSetMember
  <2>2. x \in Int
    BY FreeSetMember
  <2>3. CASE j = lo
    <3>1. cs[j] = b
      BY <2>3
    <3>2. x \in Span(b.addr, b.len)
      BY <1>1, <2>1, <2>2, <3>1 DEF Span
    <3>. QED  BY <3>2
  <2>4. CASE j # lo
    <3>1. old(j) \in 1 .. Len(bs) /\ cs[j] = bs[old(j)]
      BY <1>2, <2>4
    <3>. HIDE DEF old
    <3>. QED  BY <2>1, <2>2, <3>1, FreeSetMember
  <2>. QED  BY <2>3, <2>4
<1>6. ASSUME at = lo + 1 \/ ClearBefore(bs, at)
      PROVE  ClearBefore(cs, lo)
  <2>. SUFFICES ASSUME NEW i \in 1 .. Len(cs), i < lo
                PROVE  cs[i].addr + cs[i].len <= cs[lo].addr
    BY DEF ClearBefore
  <2>1. /\ i \in 1 .. Len(bs) /\ cs[i] = bs[i] /\ lo \in 1 .. Len(bs)
        /\ cs[lo].addr = bs[lo].addr
    BY <1>1
  <2>2. CASE at = lo + 1
    BY <2>1, <2>2 DEF SoundAround
  <2>3. CASE at = lo
    BY <1>6, <2>1, <2>3 DEF ClearBefore
  <2>. QED  BY <2>2, <2>3
<1>. QED  BY <1>4, <1>5, <1>6

\* One round of the first loop is enough: the block before the predecessor ends
\* before the predecessor begins.
LEMMA AbsorbPrevFacts ==
    ASSUME NEW s \in Work, SoundAround(s.blocks, s.at)
    PROVE  LET t == AbsorbPrev(s)
           IN  /\ t \in Work /\ SoundAround(t.blocks, t.at)
               /\ ClearBefore(t.blocks, t.at)
               /\ FreeSet(t.blocks) \subseteq FreeSet(s.blocks)
               /\ Len(t.blocks) <= Len(s.blocks)
<1>. DEFINE bs == s.blocks
            at == s.at
            b == bs[at]
            p == bs[at - 1]
            reach == IF EndOf(p) > EndOf(b)
                     THEN Plus(b.len, Minus(EndOf(p), EndOf(b))) ELSE b.len
            merged == [addr |-> p.addr, len |-> Plus(reach, Minus(b.addr, p.addr))]
            cs == RemoveAt([bs EXCEPT ![at] = merged], at - 1)
            t == AbsorbPrev(s)
<1>1. /\ bs \in Seq(FreeBlock) /\ at \in Nat /\ at \in 1 .. Len(bs) /\ Len(bs) \in Nat
      /\ SoundAround(bs, at)
  BY LenProperties DEF Work, SoundAround
<1>2. \A j \in 1 .. Len(bs) : /\ bs[j].addr \in Nat /\ bs[j].len \in Nat
                              /\ bs[j].addr < WordMod /\ bs[j].len < WordMod
                              /\ bs[j].len >= 1 /\ bs[j].addr >= Begin
                              /\ bs[j].addr + bs[j].len <= Begin + Extent
                              /\ EndOf(bs[j]) = bs[j].addr + bs[j].len
  <2>1. \A j \in 1 .. Len(bs) : /\ bs[j].addr \in Word /\ bs[j].len \in Word
                              /\ bs[j].len >= 1 /\ bs[j].addr >= Begin
                              /\ bs[j].addr + bs[j].len <= Begin + Extent
    BY <1>1, BlockWords DEF SoundAround
  <2>. QED  BY <2>1, RangeAssumption DEF EndOf, Plus, Word
<1>. HIDE DEF bs, at
<1>3. CASE at > 1 /\ EndOf(p) > b.addr
  <2>1. t = [blocks |-> cs, at |-> at - 1]
    BY <1>3 DEF AbsorbPrev, bs, at
  <2>2. /\ at - 1 \in 1 .. Len(bs) - 1 /\ at - 1 \in 1 .. Len(bs)
        /\ p.addr <= b.addr
    BY <1>1, <1>3 DEF SoundAround
  <2>3. /\ p.addr \in Nat /\ p.len \in Nat /\ b.addr \in Nat /\ b.len \in Nat
        /\ EndOf(p) = p.addr + p.len /\ EndOf(b) = b.addr + b.len
        /\ p.addr + p.len <= Begin + Extent /\ b.addr + b.len <= Begin + Extent
        /\ p.len >= 1 /\ b.len >= 1
        /\ p.addr >= Begin
    BY <1>1, <1>2, <2>2
  <2>. HIDE DEF b, p
  <2>4. Minus(b.addr, p.addr) = b.addr - p.addr
    BY <2>2, <2>3 DEF Minus
  <2>5. reach = IF EndOf(p) > EndOf(b) THEN EndOf(p) - b.addr ELSE b.len
    <3>1. CASE EndOf(p) > EndOf(b)
      <4>1. Minus(EndOf(p), EndOf(b)) = EndOf(p) - EndOf(b)
        BY <2>3, <3>1 DEF Minus
      <4>2. Plus(b.len, EndOf(p) - EndOf(b)) = EndOf(p) - b.addr
        BY <2>3, <3>1, RangeAssumption DEF Plus
      <4>. QED  BY <3>1, <4>1, <4>2
    <3>2. CASE ~(EndOf(p) > EndOf(b))
      BY <3>2
    <3>. QED  BY <3>1, <3>2
  <2>6. /\ merged.addr = p.addr
        /\ merged.len = IF EndOf(p) > EndOf(b) THEN p.len ELSE b.addr + b.len - p.addr
    <3>1. CASE EndOf(p) > EndOf(b)
      <4>1. reach = EndOf(p) - b.addr
        BY <2>5, <3>1
      <4>. HIDE DEF reach
      <4>2. Plus(EndOf(p) - b.addr, b.addr - p.addr) = p.len
        BY <2>2, <2>3, <3>1, RangeAssumption DEF Plus
      <4>. QED  BY <2>4, <3>1, <4>1, <4>2
    <3>2. CASE ~(EndOf(p) > EndOf(b))
      <4>1. reach = b.len
        BY <2>5, <3>2
      <4>. HIDE DEF reach
      <4>2. Plus(b.len, b.addr - p.addr) = b.addr + b.len - p.addr
        BY <2>2, <2>3, RangeAssumption DEF Plus
      <4>. QED  BY <2>4, <3>2, <4>1, <4>2
    <3>. QED  BY <3>1, <3>2
  <2>. HIDE DEF reach
  <2>7. merged \in FreeBlock
    <3>1. merged.addr \in Word /\ merged.len \in Word
      BY <2>2, <2>3, <2>6, RangeAssumption DEF Word
    <3>. QED  BY <3>1 DEF FreeBlock
  <2>. HIDE DEF merged
  <2>8. merged.len >= 1 /\ merged.addr + merged.len <= Begin + Extent
    BY <2>2, <2>3, <2>6
  <2>9. Span(merged.addr, merged.len) \subseteq FreeSet(bs)
    <3>. SUFFICES ASSUME NEW x \in Span(merged.addr, merged.len)
                  PROVE  x \in FreeSet(bs)
      OBVIOUS
    <3>1. /\ x \in Int
          /\ \/ p.addr <= x /\ x < p.addr + p.len
             \/ b.addr <= x /\ x < b.addr + b.len
      BY <1>3, <2>2, <2>3, <2>6 DEF Span
    <3>2. /\ bs \in Seq(FreeBlock)
          /\ \E i \in 1 .. Len(bs) : bs[i].addr <= x /\ x < bs[i].addr + bs[i].len
      BY <1>1, <2>2, <3>1 DEF b, p
    <3>. QED  BY <3>1, <3>2, FreeSetMember
  <2>10. /\ cs \in Seq(FreeBlock) /\ Len(cs) = Len(bs) - 1
         /\ \A j \in 1 .. Len(bs) - 1 :
               cs[j] = IF j < at - 1 THEN bs[j] ELSE IF j = at - 1 THEN merged ELSE bs[j + 1]
    <3>. DEFINE ds == [bs EXCEPT ![at] = merged]
    <3>1. /\ ds \in Seq(FreeBlock) /\ Len(ds) = Len(bs)
          /\ \A j \in 1 .. Len(bs) : ds[j] = IF j = at THEN merged ELSE bs[j]
      BY <1>1, <2>7, ExceptSeq
    <3>. HIDE DEF ds
    <3>2. at - 1 \in 1 .. Len(ds) /\ cs = RemoveAt(ds, at - 1)
      BY <2>2, <3>1 DEF ds
    <3>. HIDE DEF cs
    <3>3. /\ cs \in Seq(FreeBlock) /\ Len(cs) = Len(ds) - 1
          /\ \A j \in 1 .. Len(ds) - 1 : cs[j] = IF j < at - 1 THEN ds[j] ELSE ds[j + 1]
      BY <3>1, <3>2, RemoveAtFacts
    <3>4. ASSUME NEW j \in 1 .. Len(bs) - 1
          PROVE  cs[j] = IF j < at - 1 THEN bs[j] ELSE IF j = at - 1 THEN merged ELSE bs[j + 1]
      <4>1. j \in 1 .. Len(bs) /\ j + 1 \in 1 .. Len(bs) /\ (j = at - 1 <=> j + 1 = at)
        BY <1>1
      <4>. QED  BY <1>1, <3>1, <3>3, <4>1
    <3>. QED  BY <3>1, <3>3, <3>4
  <2>. HIDE DEF cs
  <2>11. /\ SoundAround(cs, at - 1) /\ FreeSet(cs) \subseteq FreeSet(bs)
         /\ ClearBefore(cs, at - 1)
    <3>. DEFINE lo == at - 1
    <3>1. /\ lo \in 1 .. Len(bs) - 1 /\ at \in {lo, lo + 1} /\ at = lo + 1
          /\ merged.addr = bs[lo].addr
      BY <1>1, <2>2, <2>6 DEF p
    <3>2. \A j \in 1 .. Len(bs) - 1 :
             cs[j] = IF j < lo THEN bs[j] ELSE IF j = lo THEN merged ELSE bs[j + 1]
      BY <2>10
    <3>. HIDE DEF lo
    <3>3. /\ SoundAround(cs, lo) /\ FreeSet(cs) \subseteq FreeSet(bs)
          /\ at = lo + 1 \/ ClearBefore(bs, at) => ClearBefore(cs, lo)
      BY <1>1, <2>7, <2>8, <2>9, <2>10, <3>1, <3>2, Merge
    <3>. QED  BY <3>1, <3>3 DEF lo
  <2>. QED  BY <1>1, <2>1, <2>2, <2>10, <2>11 DEF Work, bs
<1>4. CASE ~(at > 1 /\ EndOf(p) > b.addr)
  <2>1. t = s
    BY <1>4 DEF AbsorbPrev, bs, at
  <2>2. ClearBefore(bs, at)
    <3>. SUFFICES ASSUME NEW i \in 1 .. Len(bs), i < at
                  PROVE  bs[i].addr + bs[i].len <= bs[at].addr
      BY DEF ClearBefore
    <3>1. at - 1 \in 1 .. Len(bs) /\ at > 1
      BY <1>1
    <3>2. p.addr + p.len <= b.addr
      BY <1>1, <1>2, <1>4, <3>1
    <3>3. i # at - 1 => bs[i].addr + bs[i].len <= p.addr
      BY <1>1, <3>1 DEF SoundAround
    <3>4. bs[i].addr \in Nat /\ bs[i].len \in Nat /\ p.addr \in Nat /\ p.len \in Nat
          /\ b.addr \in Nat
      BY <1>1, <1>2, <3>1
    <3>. QED  BY <3>2, <3>3, <3>4
  <2>. QED  BY <1>1, <2>1, <2>2 DEF bs, at
<1>. QED  BY <1>3, <1>4 DEF bs

\* A round of the second loop either leaves one block less behind `at` or finds
\* nothing to absorb there.
LEMMA AbsorbNextFacts ==
    ASSUME NEW s \in Work, SoundAround(s.blocks, s.at), ClearBefore(s.blocks, s.at)
    PROVE  LET t == AbsorbNext(s)
           IN  /\ t \in Work /\ SoundAround(t.blocks, t.at)
               /\ ClearBefore(t.blocks, t.at)
               /\ FreeSet(t.blocks) \subseteq FreeSet(s.blocks)
               /\ \/ t = s /\ ClearAfter(s.blocks, s.at)
                  \/ /\ ~ClearAfter(s.blocks, s.at) /\ t.at = s.at
                     /\ Len(t.blocks) = Len(s.blocks) - 1
<1>. DEFINE bs == s.blocks
            at == s.at
            b == bs[at]
            q == bs[at + 1]
            merged == [b EXCEPT !.len = Plus(@, Minus(EndOf(q), EndOf(b)))]
            cs == RemoveAt([bs EXCEPT ![at] = merged], at + 1)
            t == AbsorbNext(s)
<1>1. /\ bs \in Seq(FreeBlock) /\ at \in Nat /\ at \in 1 .. Len(bs) /\ Len(bs) \in Nat
      /\ SoundAround(bs, at) /\ ClearBefore(bs, at)
  BY LenProperties DEF Work, SoundAround
<1>2. \A j \in 1 .. Len(bs) : /\ bs[j].addr \in Nat /\ bs[j].len \in Nat
                              /\ bs[j].addr < WordMod /\ bs[j].len < WordMod
                              /\ bs[j].len >= 1 /\ bs[j].addr >= Begin
                              /\ bs[j].addr + bs[j].len <= Begin + Extent
                              /\ EndOf(bs[j]) = bs[j].addr + bs[j].len
  <2>1. \A j \in 1 .. Len(bs) : /\ bs[j].addr \in Word /\ bs[j].len \in Word
                              /\ bs[j].len >= 1 /\ bs[j].addr >= Begin
                              /\ bs[j].addr + bs[j].len <= Begin + Extent
    BY <1>1, BlockWords DEF SoundAround
  <2>. QED  BY <2>1, RangeAssumption DEF EndOf, Plus, Word
<1>. HIDE DEF bs, at
<1>3. CASE at < Len(bs) /\ q.addr < EndOf(b)
  <2>1. t = [blocks |-> cs, at |-> at]
    BY <1>3 DEF AbsorbNext, bs, at
  <2>2. /\ at \in 1 .. Len(bs) - 1 /\ at + 1 \in 1 .. Len(bs)
        /\ b.addr <= q.addr /\ b \in FreeBlock
    <3>1. at \in 1 .. Len(bs) - 1 /\ at + 1 \in 1 .. Len(bs)
      BY <1>1, <1>3
    <3>2. b \in FreeBlock
      BY <1>1, BlockWords
    <3>. QED  BY <1>1, <3>1, <3>2 DEF SoundAround
  <2>3. /\ q.addr \in Nat /\ q.len \in Nat /\ b.addr \in Nat /\ b.len \in Nat
        /\ EndOf(q) = q.addr + q.len /\ EndOf(b) = b.addr + b.len
        /\ q.addr + q.len <= Begin + Extent /\ b.addr + b.len <= Begin + Extent
        /\ q.len >= 1 /\ b.len >= 1
        /\ b.addr >= Begin /\ b.addr < WordMod
    BY <1>1, <1>2, <2>2
  <2>4. ~ClearAfter(bs, at)
    BY <1>1, <1>3, <2>2, <2>3 DEF ClearAfter
  <2>. HIDE DEF b, q
  <2>5. Plus(b.len, Minus(EndOf(q), EndOf(b))) = q.addr + q.len - b.addr
    <3>1. CASE EndOf(b) <= EndOf(q)
      <4>1. Minus(EndOf(q), EndOf(b)) = EndOf(q) - EndOf(b)
        BY <3>1 DEF Minus
      <4>2. /\ EndOf(q) - EndOf(b) = (q.addr + q.len) - (b.addr + b.len)
            /\ b.len + (EndOf(q) - EndOf(b)) = q.addr + q.len - b.addr
        BY <2>3
      <4>3. q.addr + q.len - b.addr < WordMod
        BY <2>3, RangeAssumption
      <4>. QED  BY <4>1, <4>2, <4>3 DEF Plus
    <3>2. CASE ~(EndOf(b) <= EndOf(q))
      <4>1. Minus(EndOf(q), EndOf(b)) = EndOf(q) - EndOf(b) + WordMod
        BY <3>2 DEF Minus
      <4>2. /\ EndOf(q) - EndOf(b) + WordMod = (q.addr + q.len) - (b.addr + b.len) + WordMod
            /\ b.len + (EndOf(q) - EndOf(b) + WordMod) = q.addr + q.len - b.addr + WordMod
            /\ b.len + (EndOf(q) - EndOf(b) + WordMod) - WordMod = q.addr + q.len - b.addr
        BY <2>3, RangeAssumption
      <4>3. ~(q.addr + q.len - b.addr + WordMod < WordMod)
        BY <2>2, <2>3, RangeAssumption
      <4>. QED  BY <4>1, <4>2, <4>3 DEF Plus
    <3>. QED  BY <3>1, <3>2
  <2>6. /\ merged.addr = b.addr /\ merged.len = q.addr + q.len - b.addr
        /\ merged \in FreeBlock
    <3>1. merged = [addr |-> b.addr, len |-> q.addr + q.len - b.addr]
      BY <2>2, <2>5 DEF FreeBlock
    <3>. HIDE DEF merged
    <3>2. b.addr \in Word /\ q.addr + q.len - b.addr \in Word
      BY <2>2, <2>3, RangeAssumption DEF Word
    <3>. QED  BY <3>1, <3>2 DEF FreeBlock
  <2>. HIDE DEF merged
  <2>7. merged.len >= 1 /\ merged.addr + merged.len <= Begin + Extent
    BY <2>2, <2>3, <2>6
  <2>8. Span(merged.addr, merged.len) \subseteq FreeSet(bs)
    <3>. SUFFICES ASSUME NEW x \in Span(merged.addr, merged.len)
                  PROVE  x \in FreeSet(bs)
      OBVIOUS
    <3>1. /\ x \in Int
          /\ \/ q.addr <= x /\ x < q.addr + q.len
             \/ b.addr <= x /\ x < b.addr + b.len
      BY <1>3, <2>2, <2>3, <2>6 DEF Span
    <3>2. /\ bs \in Seq(FreeBlock)
          /\ \E i \in 1 .. Len(bs) : bs[i].addr <= x /\ x < bs[i].addr + bs[i].len
      BY <1>1, <2>2, <3>1 DEF b, q
    <3>. QED  BY <3>1, <3>2, FreeSetMember
  <2>9. /\ cs \in Seq(FreeBlock) /\ Len(cs) = Len(bs) - 1
        /\ \A j \in 1 .. Len(bs) - 1 :
              cs[j] = IF j < at THEN bs[j] ELSE IF j = at THEN merged ELSE bs[j + 1]
    <3>. DEFINE ds == [bs EXCEPT ![at] = merged]
    <3>1. /\ ds \in Seq(FreeBlock) /\ Len(ds) = Len(bs)
          /\ \A j \in 1 .. Len(bs) : ds[j] = IF j = at THEN merged ELSE bs[j]
      BY <1>1, <2>6, ExceptSeq
    <3>. HIDE DEF ds
    <3>2. at + 1 \in 1 .. Len(ds) /\ cs = RemoveAt(ds, at + 1)
      BY <2>2, <3>1 DEF ds
    <3>. HIDE DEF cs
    <3>3. /\ cs \in Seq(FreeBlock) /\ Len(cs) = Len(ds) - 1
          /\ \A j \in 1 .. Len(ds) - 1 : cs[j] = IF j < at + 1 THEN ds[j] ELSE ds[j + 1]
      BY <3>1, <3>2, RemoveAtFacts
    <3>4. ASSUME NEW j \in 1 .. Len(bs) - 1
          PROVE  cs[j] = IF j < at THEN bs[j] ELSE IF j = at THEN merged ELSE bs[j + 1]
      <4>1. j \in 1 .. Len(bs) /\ j + 1 \in 1 .. Len(bs) 
        BY <1>1
      <4>2. CASE j < at
        BY <1>1, <3>1, <3>3, <4>1, <4>2
      <4>3. CASE j = at
        BY <1>1, <3>1, <3>3, <4>3
      <4>4. CASE j > at
        BY <1>1, <3>1, <3>3, <4>1, <4>4
      <4>. QED  BY <1>1, <4>2, <4>3, <4>4
    <3>. QED  BY <3>1, <3>3, <3>4
  <2>. HIDE DEF cs
  <2>10. /\ SoundAround(cs, at) /\ FreeSet(cs) \subseteq FreeSet(bs)
         /\ ClearBefore(cs, at)
    <3>1. merged.addr = bs[at].addr /\ at \in {at, at + 1}
      BY <2>6 DEF b
    <3>. QED  BY <1>1, <2>2, <2>6, <2>7, <2>8, <2>9, <3>1, Merge
  <2>11. t.blocks = cs /\ t.at = at /\ t \in Work
    BY <1>1, <2>1, <2>9 DEF Work
  <2>. HIDE DEF t
  <2>12. t.at = at /\ Len(t.blocks) = Len(bs) - 1
    BY <1>1, <2>9, <2>11
  <2>. QED  BY <2>4, <2>10, <2>11, <2>12 DEF bs, at, t
<1>4. CASE ~(at < Len(bs) /\ q.addr < EndOf(b))
  <2>1. t = s
    BY <1>4 DEF AbsorbNext, bs, at
  <2>2. ClearAfter(bs, at)
    <3>. SUFFICES ASSUME NEW i \in 1 .. Len(bs), at < i
                  PROVE  bs[at].addr + bs[at].len <= bs[i].addr
      BY DEF ClearAfter
    <3>1. at + 1 \in 1 .. Len(bs) /\ at < Len(bs)
      BY <1>1
    <3>2. b.addr + b.len <= q.addr
      BY <1>1, <1>2, <1>4, <3>1
    <3>3. q.addr <= bs[i].addr
      <4>1. CASE i = at + 1
        BY <1>2, <4>1
      <4>2. CASE i > at + 1
        BY <1>1, <3>1, <4>2 DEF SoundAround
      <4>. QED  BY <1>1, <4>1, <4>2
    <3>4. bs[i].addr \in Nat /\ q.addr \in Nat /\ b.addr \in Nat /\ b.len \in Nat
      BY <1>1, <1>2, <3>1
    <3>. QED  BY <3>2, <3>3, <3>4
  <2>. QED  BY <1>1, <2>1, <2>2 DEF bs, at
<1>. QED  BY <1>3, <1>4 DEF bs, at

\* A sorted list whose block at `at` is clear on both sides is sound.
LEMMA ClearSound ==
    ASSUME NEW bs \in Seq(FreeBlock), NEW at,
           SoundAround(bs, at), ClearBefore(bs, at), ClearAfter(bs, at)
    PROVE  SoundList(bs)
BY DEF SoundAround, ClearBefore, ClearAfter, SoundList

\* The list force_return_block starts from: the new block is in its place by
\* address, but may overlap its neighbours.
LEMMA ForceStart ==
    ASSUME NEW bs \in Seq(FreeBlock), SoundList(bs), NEW a \in Int, NEW n \in Nat \ {0},
           Begin <= a, a + n <= Begin + Extent
    PROVE  LET i == InsertPos(bs, a)
               cs == Insert(bs, a, n)
           IN  /\ cs \in Seq(FreeBlock) /\ Len(cs) = Len(bs) + 1
               /\ SoundAround(cs, i)
               /\ FreeSet(cs) \subseteq FreeSet(bs) \cup Span(a, n)
<1>. DEFINE i == InsertPos(bs, a)
            m == InsertLen(bs, a, n)
            b == [addr |-> a, len |-> m]
            cs == Insert(bs, a, n)
            old(j) == IF j < i THEN j ELSE j - 1
<1>1. m \in Nat /\ 1 <= m /\ m <= n
  BY DEF InsertLen
<1>. HIDE DEF m
<1>2. a \in Word /\ m \in Word
  BY <1>1, RangeAssumption DEF Word
<1>3. b \in FreeBlock /\ b.addr = a /\ b.len = m
  BY <1>2 DEF FreeBlock
<1>4. /\ i \in 1 .. Len(bs) + 1
      /\ \A j \in 1 .. Len(bs) : /\ j < i => bs[j].addr <= a
                                 /\ j >= i => bs[j].addr >= a
  BY InsertPosFacts
<1>5. cs = InsertAt(bs, i, b)
  BY DEF Insert, m
<1>. HIDE DEF i, b, cs
<1>6. /\ cs \in Seq(FreeBlock) /\ Len(cs) = Len(bs) + 1
      /\ \A j \in 1 .. Len(bs) + 1 :
            cs[j] = IF j < i THEN bs[j] ELSE IF j = i THEN b ELSE bs[j - 1]
  BY <1>3, <1>4, <1>5, InsertAtFacts
<1>7. FreeSet(cs) = FreeSet(bs) \cup Span(a, m)
  BY <1>3, <1>4, <1>5, FreeSetInsert
<1>8. Span(a, m) \subseteq Span(a, n)
  BY <1>1 DEF Span
<1>9. /\ Len(bs) \in Nat
      /\ \A j \in 1 .. Len(bs) :
            /\ bs[j].addr \in Int /\ bs[j].len \in Int
            /\ bs[j].len >= 1 /\ bs[j].addr >= Begin
            /\ bs[j].addr + bs[j].len <= Begin + Extent
  <2>1. /\ Len(bs) \in Nat
        /\ \A j \in 1 .. Len(bs) : bs[j].addr \in Word /\ bs[j].len \in Word
    BY BlockWords
  <2>. QED  BY <2>1 DEF SoundList, Word
<1>10. ASSUME NEW j \in 1 .. Len(cs)
       PROVE  /\ j = i => cs[j] = b
              /\ j # i => cs[j] = bs[old(j)] /\ old(j) \in 1 .. Len(bs)
              /\ cs[j].len >= 1 /\ cs[j].addr >= Begin
              /\ cs[j].addr + cs[j].len <= Begin + Extent
  <2>1. CASE j < i
    <3>1. cs[j] = bs[j] /\ old(j) = j /\ j \in 1 .. Len(bs)
      BY <1>4, <1>6, <1>9, <2>1
    <3>. QED  BY <1>4, <1>9, <2>1, <3>1
  <2>2. CASE j = i
    <3>1. cs[j] = b
      BY <1>6, <2>2
    <3>. QED  BY <1>1, <1>3, <2>2, <3>1, RangeAssumption
  <2>3. CASE j > i
    <3>1. cs[j] = bs[j - 1] /\ old(j) = j - 1 /\ j - 1 \in 1 .. Len(bs)
      BY <1>4, <1>6, <1>9, <2>3
    <3>. QED  BY <1>4, <1>9, <2>3, <3>1
  <2>. QED  BY <1>4, <2>1, <2>2, <2>3
<1>11. ASSUME NEW j \in 1 .. Len(cs), NEW k \in 1 .. Len(cs), j < k
       PROVE  /\ cs[j].addr <= cs[k].addr
              /\ j # i /\ k # i => cs[j].addr + cs[j].len <= cs[k].addr
  <2>1. CASE j # i /\ k # i
    <3>1. /\ old(j) \in 1 .. Len(bs) /\ old(k) \in 1 .. Len(bs)
          /\ cs[j] = bs[old(j)] /\ cs[k] = bs[old(k)]
      BY <1>10, <2>1
    <3>2. old(j) < old(k)
      BY <1>4, <1>11, <2>1
    <3>. HIDE DEF old
    <3>3. bs[old(j)].addr + bs[old(j)].len <= bs[old(k)].addr
      BY <3>1, <3>2 DEF SoundList
    <3>. QED  BY <1>9, <3>1, <3>3
  <2>2. CASE j = i
    <3>1. cs[j].addr = a /\ cs[k] = bs[k - 1] /\ k - 1 \in 1 .. Len(bs) /\ k - 1 >= i
      BY <1>3, <1>4, <1>6, <1>9, <1>11, <2>2
    <3>. QED  BY <1>4, <2>2, <3>1
  <2>3. CASE k = i
    <3>1. cs[k].addr = a /\ cs[j] = bs[j] /\ j \in 1 .. Len(bs) /\ j < i
      BY <1>3, <1>4, <1>6, <1>9, <1>11, <2>3
    <3>. QED  BY <1>4, <2>3, <3>1
  <2>. QED  BY <2>1, <2>2, <2>3
<1>12. SoundAround(cs, i)
  <2>1. i \in 1 .. Len(cs)
    BY <1>4, <1>6
  <2>. QED  BY <2>1, <1>10, <1>11 DEF SoundAround
<1>. QED  BY <1>6, <1>7, <1>8, <1>12 DEF i, cs

\* What every round of the first loop keeps, the loop keeps.
LEMMA PrevLoop ==
    ASSUME NEW n \in Nat, NEW start, NEW iter,
           iter = CHOOSE g : g = [k \in 0 .. n |-> IF k = 0 THEN start ELSE AbsorbPrev(g[k - 1])],
           NEW R, start \in R[0], \A k \in 0 .. n : R[k] \subseteq Work,
           \A k \in 1 .. n : \A s \in R[k - 1] : AbsorbPrev(s) \in R[k]
    PROVE  iter[n] \in R[n]
<1>. DEFINE body(g) == [k \in 0 .. n |-> IF k = 0 THEN start ELSE AbsorbPrev(g[k - 1])]
            step == [ks \in (1 .. n) \X Work |-> AbsorbPrev(ks[2])]
<1>1. ASSUME NEW k \in 1 .. n, NEW s \in R[k - 1]
      PROVE  step[<<k, s>>] = AbsorbPrev(s) /\ step[<<k, s>>] \in R[k]
  <2>1. k - 1 \in 0 .. n
    OBVIOUS
  <2>2. s \in Work
    BY <2>1
  <2>. QED  BY <2>2
<1>. HIDE DEF step
<1>2. PICK g : LoopOf(g, n, start, step) /\ \A k \in 0 .. n : g[k] \in R[k]
  <2>1. LoopWithin(n, R, start, step)
    BY <1>1 DEF LoopWithin
  <2>. QED  BY <2>1, LoopExists
<1>3. g = body(g)
  <2>1. \A k \in 1 .. n : k - 1 \in 0 .. n /\ step[<<k, g[k - 1]>>] = AbsorbPrev(g[k - 1])
    BY <1>1, <1>2
  <2>2. \A k \in 0 .. n : k = 0 \/ k \in 1 .. n
    OBVIOUS
  <2>3. g = [k \in 0 .. n |-> IF k = 0 THEN start ELSE step[<<k, g[k - 1]>>]]
    BY <1>2 DEF LoopOf
  <2>. QED  BY <2>1, <2>2, <2>3
<1>4. iter = body(iter)
  <2>1. iter = CHOOSE f : f = body(f)
    OBVIOUS
  <2>. HIDE DEF body
  <2>. QED  BY <1>3, <2>1
<1>5. \A k \in 0 .. n : iter[k] \in R[k]
  <2>. DEFINE T == {k \in 0 .. n : iter[k] \in R[k]}
  <2>1. 0 \in T
    <3>1. 0 \in 0 .. n
      OBVIOUS
    <3>2. iter[0] = start
      BY <1>4, <3>1
    <3>. QED  BY <3>1, <3>2
  <2>2. ASSUME NEW k \in 0 .. n - 1, k \in T
        PROVE  k + 1 \in T
    <3>1. /\ k + 1 \in 1 .. n /\ k + 1 \in 0 .. n /\ (k + 1) - 1 = k
          /\ k + 1 # 0
      OBVIOUS
    <3>2. iter[k + 1] = AbsorbPrev(iter[k])
      BY <1>4, <3>1
    <3>3. iter[k] \in R[k]
      BY <2>2
    <3>. QED  BY <3>1, <3>2, <3>3
  <2>. HIDE DEF T
  <2>3. \A k \in 0 .. n : k \in T
    BY <2>1, <2>2, NatInduct
  <2>. QED  BY <2>3 DEF T
<1>. QED  BY <1>5

\* And the second loop likewise.
LEMMA NextLoop ==
    ASSUME NEW n \in Nat, NEW start, NEW iter,
           iter = CHOOSE g : g = [k \in 0 .. n |-> IF k = 0 THEN start ELSE AbsorbNext(g[k - 1])],
           NEW R, start \in R[0], \A k \in 0 .. n : R[k] \subseteq Work,
           \A k \in 1 .. n : \A s \in R[k - 1] : AbsorbNext(s) \in R[k]
    PROVE  iter[n] \in R[n]
<1>. DEFINE body(g) == [k \in 0 .. n |-> IF k = 0 THEN start ELSE AbsorbNext(g[k - 1])]
            step == [ks \in (1 .. n) \X Work |-> AbsorbNext(ks[2])]
<1>1. ASSUME NEW k \in 1 .. n, NEW s \in R[k - 1]
      PROVE  step[<<k, s>>] = AbsorbNext(s) /\ step[<<k, s>>] \in R[k]
  <2>1. k - 1 \in 0 .. n
    OBVIOUS
  <2>2. s \in Work
    BY <2>1
  <2>. QED  BY <2>2
<1>. HIDE DEF step
<1>2. PICK g : LoopOf(g, n, start, step) /\ \A k \in 0 .. n : g[k] \in R[k]
  <2>1. LoopWithin(n, R, start, step)
    BY <1>1 DEF LoopWithin
  <2>. QED  BY <2>1, LoopExists
<1>3. g = body(g)
  <2>1. \A k \in 1 .. n : k - 1 \in 0 .. n /\ step[<<k, g[k - 1]>>] = AbsorbNext(g[k - 1])
    BY <1>1, <1>2
  <2>2. \A k \in 0 .. n : k = 0 \/ k \in 1 .. n
    OBVIOUS
  <2>3. g = [k \in 0 .. n |-> IF k = 0 THEN start ELSE step[<<k, g[k - 1]>>]]
    BY <1>2 DEF LoopOf
  <2>. QED  BY <2>1, <2>2, <2>3
<1>4. iter = body(iter)
  <2>1. iter = CHOOSE f : f = body(f)
    OBVIOUS
  <2>. HIDE DEF body
  <2>. QED  BY <1>3, <2>1
<1>5. \A k \in 0 .. n : iter[k] \in R[k]
  <2>. DEFINE T == {k \in 0 .. n : iter[k] \in R[k]}
  <2>1. 0 \in T
    <3>1. 0 \in 0 .. n
      OBVIOUS
    <3>2. iter[0] = start
      BY <1>4, <3>1
    <3>. QED  BY <3>1, <3>2
  <2>2. ASSUME NEW k \in 0 .. n - 1, k \in T
        PROVE  k + 1 \in T
    <3>1. /\ k + 1 \in 1 .. n /\ k + 1 \in 0 .. n /\ (k + 1) - 1 = k
          /\ k + 1 # 0
      OBVIOUS
    <3>2. iter[k + 1] = AbsorbNext(iter[k])
      BY <1>4, <3>1
    <3>3. iter[k] \in R[k]
      BY <2>2
    <3>. QED  BY <3>1, <3>2, <3>3
  <2>. HIDE DEF T
  <2>3. \A k \in 0 .. n : k \in T
    BY <2>1, <2>2, NatInduct
  <2>. QED  BY <2>3 DEF T
<1>. QED  BY <1>5

\* force_return_block of a range that may be free in part: the list is sound
\* again when the two loops are done, and offers nothing but what it offered and
\* what was returned.
LEMMA ForceReturnBlockFacts ==
    ASSUME NEW bs \in Seq(FreeBlock), SoundList(bs), NEW a \in Int, NEW n \in Nat \ {0},
           Begin <= a, a + n <= Begin + Extent
    PROVE  LET r == ForceReturnBlock(bs, a, n)
           IN  /\ r.status = "ok"
               /\ r.blocks \in Seq(FreeBlock)
               /\ SoundList(r.blocks)
               /\ FreeSet(r.blocks) \subseteq FreeSet(bs) \cup Span(a, n)
<1>. DEFINE N == Len(bs)
            start == [blocks |-> Insert(bs, a, n), at |-> InsertPos(bs, a)]
            prevs == CHOOSE g : g = [k \in 0 .. N |->
                        IF k = 0 THEN start ELSE AbsorbPrev(g[k - 1])]
            nexts == CHOOSE g : g = [k \in 0 .. N |->
                        IF k = 0 THEN prevs[N] ELSE AbsorbNext(g[k - 1])]
            Sorted == {s \in Work : /\ SoundAround(s.blocks, s.at)
                                    /\ FreeSet(s.blocks) \subseteq FreeSet(bs) \cup Span(a, n)
                                    /\ Len(s.blocks) <= N + 1}
            P == [k \in 0 .. N |->
                    {s \in Sorted : k >= 1 \/ N = 0 => ClearBefore(s.blocks, s.at)}]
            Q == [k \in 0 .. N |->
                    {s \in Sorted : /\ ClearBefore(s.blocks, s.at)
                                    /\ \/ ClearAfter(s.blocks, s.at)
                                       \/ Len(s.blocks) - s.at <= N - k}]
<1>1. N \in Nat
  BY BlockWords
<1>2. InRange(a, n)
  BY RangeAssumption DEF InRange, Plus
<1>3. start \in P[0]
  <2>1. /\ Insert(bs, a, n) \in Seq(FreeBlock) /\ Len(Insert(bs, a, n)) = N + 1
        /\ SoundAround(Insert(bs, a, n), InsertPos(bs, a))
        /\ FreeSet(Insert(bs, a, n)) \subseteq FreeSet(bs) \cup Span(a, n)
    BY ForceStart
  <2>2. InsertPos(bs, a) \in 1 .. N + 1 /\ InsertPos(bs, a) \in Nat
    BY <1>1, <2>1 DEF SoundAround
  <2>3. start \in Sorted
    BY <1>1, <2>1, <2>2 DEF Work
  <2>4. N = 0 => ClearBefore(start.blocks, start.at)
    BY <2>1, <2>2 DEF ClearBefore
  <2>. QED  BY <1>1, <2>3, <2>4
<1>. HIDE DEF start
<1>4. ASSUME NEW k \in 1 .. N, NEW s \in P[k - 1]
      PROVE  AbsorbPrev(s) \in P[k]
  <2>1. /\ k - 1 \in 0 .. N /\ k \in 0 .. N
    BY <1>1
  <2>2. /\ s \in Work /\ SoundAround(s.blocks, s.at) /\ Len(s.blocks) <= N + 1
        /\ FreeSet(s.blocks) \subseteq FreeSet(bs) \cup Span(a, n)
    BY <2>1
  <2>. DEFINE t == AbsorbPrev(s)
  <2>3. /\ t \in Work /\ SoundAround(t.blocks, t.at) /\ ClearBefore(t.blocks, t.at)
        /\ FreeSet(t.blocks) \subseteq FreeSet(s.blocks)
        /\ Len(t.blocks) <= Len(s.blocks)
    BY <2>2, AbsorbPrevFacts
  <2>. HIDE DEF t
  <2>4. Len(t.blocks) \in Nat /\ Len(s.blocks) \in Nat
    BY <2>2, <2>3, LenProperties DEF Work
  <2>5. t \in P[k]
    BY <1>1, <2>1, <2>2, <2>3, <2>4
  <2>. QED  BY <2>5 DEF t
<1>5. \A k \in 0 .. N : P[k] \subseteq Work /\ Q[k] \subseteq Work
  OBVIOUS
<1>6. prevs[N] \in P[N]
  <2>1. \A k \in 0 .. N : P[k] \subseteq Work
    BY <1>5
  <2>. HIDE DEF P
  <2>2. prevs = CHOOSE g : g = [k \in 0 .. N |-> IF k = 0 THEN start ELSE AbsorbPrev(g[k - 1])]
    OBVIOUS
  <2>. HIDE DEF prevs, N
  <2>. QED  BY <1>1, <1>3, <1>4, <2>1, <2>2, PrevLoop
<1>. HIDE DEF prevs
<1>7. prevs[N] \in Q[0]
  <2>. DEFINE s == prevs[N]
  <2>1. s \in Sorted /\ ClearBefore(s.blocks, s.at)
    BY <1>1, <1>6
  <2>. HIDE DEF s
  <2>2. s.at \in Nat /\ s.at >= 1 /\ Len(s.blocks) \in Nat
    BY <2>1, LenProperties DEF Work, SoundAround
  <2>3. Len(s.blocks) - s.at <= N - 0
    BY <1>1, <2>1, <2>2
  <2>4. s \in Q[0]
    BY <1>1, <2>1, <2>3
  <2>. QED  BY <2>4 DEF s
<1>8. ASSUME NEW k \in 1 .. N, NEW s \in Q[k - 1]
      PROVE  AbsorbNext(s) \in Q[k]
  <2>1. /\ k - 1 \in 0 .. N /\ k \in 0 .. N
    BY <1>1
  <2>2. /\ s \in Work /\ SoundAround(s.blocks, s.at) /\ Len(s.blocks) <= N + 1
        /\ FreeSet(s.blocks) \subseteq FreeSet(bs) \cup Span(a, n)
        /\ ClearBefore(s.blocks, s.at)
        /\ ClearAfter(s.blocks, s.at) \/ Len(s.blocks) - s.at <= N - (k - 1)
    BY <2>1
  <2>. DEFINE t == AbsorbNext(s)
  <2>3. /\ t \in Work /\ SoundAround(t.blocks, t.at) /\ ClearBefore(t.blocks, t.at)
        /\ FreeSet(t.blocks) \subseteq FreeSet(s.blocks)
        /\ \/ t = s /\ ClearAfter(s.blocks, s.at)
           \/ /\ ~ClearAfter(s.blocks, s.at) /\ t.at = s.at
              /\ Len(t.blocks) = Len(s.blocks) - 1
    BY <2>2, AbsorbNextFacts
  <2>. HIDE DEF t
  <2>4. /\ Len(t.blocks) \in Nat /\ Len(s.blocks) \in Nat
        /\ s.at \in Nat /\ t.at \in Nat
    BY <2>2, <2>3, LenProperties DEF Work
  <2>5. /\ Len(t.blocks) <= N + 1
        /\ ClearAfter(t.blocks, t.at) \/ Len(t.blocks) - t.at <= N - k
    BY <1>1, <2>2, <2>3, <2>4
  <2>6. t \in Q[k]
    BY <2>1, <2>2, <2>3, <2>5
  <2>. QED  BY <2>6 DEF t
<1>9. nexts[N] \in Q[N]
  <2>1. \A k \in 0 .. N : Q[k] \subseteq Work
    BY <1>5
  <2>. HIDE DEF Q
  <2>2. nexts = CHOOSE g : g = [k \in 0 .. N |-> IF k = 0 THEN prevs[N] ELSE AbsorbNext(g[k - 1])]
    OBVIOUS
  <2>. HIDE DEF nexts, N
  <2>. QED  BY <1>1, <1>7, <1>8, <2>1, <2>2, NextLoop
<1>10. ForceReturnBlock(bs, a, n) = [status |-> "ok", blocks |-> nexts[N].blocks]
  BY <1>2 DEF ForceReturnBlock, prevs, start
<1>. HIDE DEF nexts
<1>11. /\ nexts[N] \in Work /\ SoundAround(nexts[N].blocks, nexts[N].at)
       /\ ClearBefore(nexts[N].blocks, nexts[N].at)
       /\ ClearAfter(nexts[N].blocks, nexts[N].at)
       /\ FreeSet(nexts[N].blocks) \subseteq FreeSet(bs) \cup Span(a, n)
  <2>. DEFINE s == nexts[N]
  <2>1. /\ s \in Sorted /\ ClearBefore(s.blocks, s.at)
        /\ ClearAfter(s.blocks, s.at) \/ Len(s.blocks) - s.at <= N - N
    BY <1>1, <1>9
  <2>. HIDE DEF s
  <2>2. Len(s.blocks) \in Nat /\ s.at \in Nat
    BY <2>1, LenProperties DEF Work
  <2>3. Len(s.blocks) - s.at <= 0 => ClearAfter(s.blocks, s.at)
    BY <2>2 DEF ClearAfter
  <2>4. ClearAfter(s.blocks, s.at)
    BY <1>1, <2>1, <2>3
  <2>. QED  BY <2>1, <2>4 DEF s
<1>12. nexts[N].blocks \in Seq(FreeBlock)
  BY <1>11 DEF Work
<1>13. SoundList(nexts[N].blocks)
  BY <1>11, <1>12, ClearSound
<1>. QED  BY <1>10, <1>11, <1>12, <1>13

-----------------------------------------------------------------------------
(* remove_block of one address. *)

\* return_block of any range above the beginning, also one that is free in part:
\* nothing is lost, what is inserted stays, and a call that succeeds leaves a
\* sound list.
LEMMA ReturnKeeps ==
    ASSUME NEW bs \in Seq(FreeBlock), SoundList(bs), Joined(bs),
           NEW a \in Nat, NEW n \in Nat \ {0}, Begin <= a, a + n < WordMod
    PROVE  LET r == ReturnBlock(bs, a, n)
           IN  /\ FreeSet(bs) \subseteq FreeSet(r.blocks)
               /\ ~(a + n <= Begin + Extent) \/ a \in FreeSet(r.blocks)
               /\ r.status \in {"ok", "throw"}
               /\ r.status = "ok" =>
                    r.blocks \in Seq(FreeBlock) /\ SoundList(r.blocks) /\ Joined(r.blocks)
<1>. DEFINE i == InsertPos(bs, a)
            m == InsertLen(bs, a, n)
            cs == Insert(bs, a, n)
            r == ReturnBlock(bs, a, n)
<1>1. Plus(a, n) = a + n /\ (InRange(a, n) <=> a + n <= Begin + Extent)
  BY DEF Plus, InRange
<1>2. CASE ~(a + n <= Begin + Extent)
  BY <1>1, <1>2 DEF ReturnBlock
<1>3. CASE a + n <= Begin + Extent /\ Span(a, n) \cap FreeSet(bs) = {}
  <2>1. /\ r.status = "ok" /\ r.blocks \in Seq(FreeBlock) /\ SoundList(r.blocks)
        /\ Joined(r.blocks) /\ FreeSet(bs) \cup {a} \subseteq FreeSet(r.blocks)
    BY <1>3, ReturnBlockFacts
  <2>. HIDE DEF r
  <2>. QED  BY <2>1 DEF r
<1>4. CASE a + n <= Begin + Extent /\ Span(a, n) \cap FreeSet(bs) # {}
  <2>1. /\ i \in 1 .. Len(bs) + 1 /\ Len(bs) \in Nat
        /\ \A j \in 1 .. Len(bs) :
              /\ j < i => bs[j].addr <= a
              /\ j >= i => bs[j].addr >= a
    <3>. HIDE DEF m, cs, r
    <3>1. a \in Int /\ Len(bs) \in Nat
      BY BlockWords
    <3>. QED  BY <3>1, InsertPosFacts
  <2>2. m \in 1 .. n /\ [addr |-> a, len |-> m] \in FreeBlock
    <3>1. m \in 1 .. n
      BY DEF InsertLen
    <3>2. a \in Word /\ m \in Word
      BY <3>1, RangeAssumption DEF Word
    <3>. HIDE DEF m
    <3>. QED  BY <3>1, <3>2 DEF FreeBlock
  <2>3. cs = InsertAt(bs, i, [addr |-> a, len |-> m])
    BY DEF Insert
  <2>. HIDE DEF i, m, cs
  <2>4. /\ FreeSet(cs) = FreeSet(bs) \cup Span(a, m) /\ Len(cs) = Len(bs) + 1
        /\ \A j \in 1 .. Len(bs) + 1 :
              cs[j] = IF j < i THEN bs[j] ELSE IF j = i THEN [addr |-> a, len |-> m] ELSE bs[j - 1]
    <3>. DEFINE b == [addr |-> a, len |-> m]
    <3>1. b \in FreeBlock /\ b.addr = a /\ b.len = m /\ cs = InsertAt(bs, i, b)
      BY <2>2, <2>3
    <3>. HIDE DEF b
    <3>2. FreeSet(cs) = FreeSet(bs) \cup Span(a, m)
      BY <2>1, <3>1, FreeSetInsert
    <3>3. /\ Len(cs) = Len(bs) + 1
          /\ \A j \in 1 .. Len(bs) + 1 :
                cs[j] = IF j < i THEN bs[j] ELSE IF j = i THEN b ELSE bs[j - 1]
      BY <2>1, <3>1, InsertAtFacts
    <3>. QED  BY <3>2, <3>3 DEF b
  <2>5. Intersects(cs, i, a, n)
    <3>1. PICK x \in Span(a, n) : x \in FreeSet(bs)
      BY <1>4
    <3>2. PICK j \in 1 .. Len(bs) : bs[j].addr <= x /\ x < bs[j].addr + bs[j].len
      BY <3>1, FreeSetMember
    <3>3. /\ x \in Int /\ a <= x /\ x < a + n
          /\ bs[j].addr \in Int /\ bs[j].len \in Int
      BY <3>1, BlockWords DEF Span, Word
    <3>4. CASE j < i
      <4>1. i - 1 \in 1 .. Len(bs) /\ i > 1 /\ i - 1 \in 1 .. Len(bs) + 1 /\ i - 1 < i
        BY <2>1, <3>4
      <4>2. cs[i - 1] = bs[i - 1] /\ bs[i - 1].addr <= a
        <5>1. cs[i - 1] = bs[i - 1]
          BY <2>4, <4>1
        <5>2. bs[i - 1].addr <= a
          <6>. DEFINE k == i - 1
          <6>1. k \in 1 .. Len(bs) /\ k < i
            BY <4>1
          <6>. HIDE DEF k
          <6>2. bs[k].addr <= a
            BY <2>1, <6>1
          <6>. QED  BY <6>2 DEF k
        <5>. QED  BY <5>1, <5>2
      <4>3. /\ bs[i - 1].addr \in Int /\ bs[i - 1].len \in Int
            /\ bs[i - 1].addr + bs[i - 1].len <= Begin + Extent
        BY <4>1, BlockWords DEF Word, SoundList
      <4>4. j = i - 1
        <5>1. j < i - 1 => bs[j].addr + bs[j].len <= bs[i - 1].addr
          BY <4>1 DEF SoundList
        <5>. QED  BY <2>1, <3>2, <3>3, <3>4, <4>2, <4>3, <5>1
      <4>5. EndOf(cs[i - 1]) = bs[i - 1].addr + bs[i - 1].len
        BY <4>2, <4>3, RangeAssumption DEF EndOf, Plus
      <4>. QED  BY <3>2, <3>3, <4>1, <4>3, <4>4, <4>5 DEF Intersects
    <3>5. CASE ~(j < i)
      <4>1. /\ i \in 1 .. Len(bs) /\ i + 1 \in 1 .. Len(bs) + 1 /\ ~(i + 1 < i) /\ i + 1 # i
            /\ (i + 1) - 1 = i /\ i < Len(cs)
        BY <2>1, <2>4, <3>5
      <4>2. cs[i + 1] = bs[i]
        BY <2>4, <4>1
      <4>3. bs[i].addr \in Int /\ bs[i].len \in Int
        BY <4>1, BlockWords DEF Word
      <4>4. bs[i].addr <= bs[j].addr
        <5>1. i < j => bs[i].addr + bs[i].len <= bs[j].addr /\ bs[i].len >= 1
          BY <4>1 DEF SoundList
        <5>. QED  BY <3>3, <3>5, <4>1, <4>3, <5>1
      <4>. QED  BY <1>1, <3>2, <3>3, <4>1, <4>2, <4>3, <4>4 DEF Intersects
    <3>. QED  BY <3>4, <3>5
  <2>6. r = [status |-> "throw", blocks |-> cs]
    BY <1>1, <1>4, <2>5 DEF ReturnBlock, cs, i
  <2>7. a \in FreeSet(cs)
    BY <2>2, <2>4 DEF Span
  <2>. HIDE DEF r
  <2>8. r.status = "throw" /\ r.blocks = cs
    BY <2>6
  <2>. QED  BY <2>4, <2>7, <2>8 DEF r
<1>. QED  BY <1>2, <1>3, <1>4

\* When remove_block of an address succeeds it leaves a good list.  The part of the block before
\* the address is returned at the address, so the list may not be the one that was asked for.
\* Next to the lower end of the range, that part is one address long at most, and everything in
\* the new list was free before.
LEMMA RemoveFacts ==
    ASSUME NEW bs, GoodList(bs), NEW p \in Span(Begin, Extent), 2 * (Begin + Extent) <= WordMod,
           RemoveBlock(bs, p, 1).status = "ok"
    PROVE  /\ GoodList(RemoveBlock(bs, p, 1).blocks)
           /\ p <= Begin + 1 => FreeSet(RemoveBlock(bs, p, 1).blocks) \subseteq FreeSet(bs)
<1>. DEFINE past == {j \in 1 .. Len(bs) : EndOf(bs[j]) > p}
            i == Min(past)
            b == bs[i]
            rest == RemoveAt(bs, i)
            before == Minus(p, b.addr)
            after == Minus(EndOf(b), Plus(p, 1))
            r1 == IF before > 0 THEN ReturnBlock(rest, p, before)
                  ELSE [status |-> "ok", blocks |-> rest]
            r == RemoveBlock(bs, p, 1)
<1>1. /\ bs \in Seq(FreeBlock) /\ SoundList(bs) /\ Joined(bs) /\ Len(bs) \in Nat
      /\ Begin \in Nat /\ Extent \in Nat /\ WordMod \in Nat /\ Begin + Extent < WordMod
      /\ p \in Nat /\ Begin <= p /\ p < Begin + Extent
  BY RangeAssumption, BlockWords DEF GoodList, Span
<1>2. \A j \in 1 .. Len(bs) :
        /\ bs[j].addr \in Nat /\ bs[j].len \in Nat /\ bs[j].len >= 1
        /\ bs[j].addr >= Begin /\ bs[j].addr + bs[j].len <= Begin + Extent
        /\ EndOf(bs[j]) = bs[j].addr + bs[j].len
  <2>. SUFFICES ASSUME NEW j \in 1 .. Len(bs)
                PROVE  /\ bs[j].addr \in Nat /\ bs[j].len \in Nat /\ bs[j].len >= 1
                       /\ bs[j].addr >= Begin /\ bs[j].addr + bs[j].len <= Begin + Extent
                       /\ EndOf(bs[j]) = bs[j].addr + bs[j].len
    OBVIOUS
  <2>1. bs[j].addr \in Nat /\ bs[j].len \in Nat
    BY <1>1, BlockWords DEF Word
  <2>2. /\ bs[j].len >= 1
        /\ bs[j].addr >= Begin /\ bs[j].addr + bs[j].len <= Begin + Extent
    BY <1>1 DEF SoundList
  <2>3. EndOf(bs[j]) = bs[j].addr + bs[j].len
    BY <1>1, <2>1, <2>2 DEF EndOf, Plus
  <2>. QED  BY <2>1, <2>2, <2>3
<1>3. past # {} /\ ~(b.addr > p \/ EndOf(b) < Plus(p, 1))
  <2>1. r.status = "ok"
    OBVIOUS
  <2>2. past # {}
    <3>. SUFFICES ASSUME past = {}
                  PROVE  FALSE
      OBVIOUS
    <3>1. r = [status |-> "crash", blocks |-> bs]
      BY Zenon DEF RemoveBlock
    <3>. HIDE DEF r
    <3>. QED  BY <2>1, <3>1
  <2>3. ~(b.addr > p \/ EndOf(b) < Plus(p, 1))
    <3>. SUFFICES ASSUME b.addr > p \/ EndOf(b) < Plus(p, 1)
                  PROVE  FALSE
      OBVIOUS
    <3>1. r = [status |-> "throw", blocks |-> bs]
      BY <2>2, Zenon DEF RemoveBlock
    <3>. HIDE DEF r
    <3>. QED  BY <2>1, <3>1
  <2>. QED  BY <2>2, <2>3
<1>4. r = IF r1.status = "throw" \/ after = 0 THEN r1
          ELSE ReturnBlock(r1.blocks, Plus(p, 1), after)
  BY <1>3, Zenon DEF RemoveBlock
<1>5. i \in 1 .. Len(bs) /\ b.addr <= p /\ p < b.addr + b.len
  <2>1. i \in past
    <3>1. past \in SUBSET Nat
      OBVIOUS
    <3>. QED  BY <1>3, <3>1, MinNat
  <2>. HIDE DEF i
  <2>2. i \in 1 .. Len(bs) /\ EndOf(bs[i]) > p
    BY <2>1
  <2>. QED  BY <1>1, <1>2, <1>3, <2>2
<1>. HIDE DEF i
<1>6. /\ b.addr \in Nat /\ b.len \in Nat /\ b.len >= 1 /\ b.addr >= Begin
      /\ b.addr + b.len <= Begin + Extent /\ EndOf(b) = b.addr + b.len
      /\ before = p - b.addr /\ Plus(p, 1) = p + 1 /\ after = b.addr + b.len - (p + 1)
  <2>1. /\ b.addr \in Nat /\ b.len \in Nat /\ b.len >= 1 /\ b.addr >= Begin
        /\ b.addr + b.len <= Begin + Extent /\ EndOf(b) = b.addr + b.len
    BY <1>2, <1>5
  <2>. HIDE DEF b
  <2>2. p + 1 < WordMod
    BY <1>1, <1>5, <2>1
  <2>3. before = p - b.addr
    BY <1>1, <1>5, <2>1, <2>2 DEF Minus
  <2>4. Plus(p, 1) = p + 1
    BY <1>1, <2>2 DEF Plus
  <2>5. after = b.addr + b.len - (p + 1)
    BY <1>1, <1>5, <2>1, <2>2, <2>4 DEF Minus
  <2>. QED  BY <2>1, <2>2, <2>3, <2>4, <2>5
<1>7. /\ rest \in Seq(FreeBlock) /\ SoundList(rest) /\ Joined(rest)
      /\ FreeSet(rest) = FreeSet(bs) \ Span(b.addr, b.len)
  BY <1>1, <1>5, SoundRemove, FreeSetRemove, RemoveAtFacts
<1>8. Span(b.addr, b.len) \subseteq FreeSet(bs)
  <2>1. ASSUME NEW x \in Span(b.addr, b.len)
        PROVE  x \in FreeSet(bs)
    <3>1. x \in Int /\ bs[i].addr <= x /\ x < bs[i].addr + bs[i].len
      BY <1>6 DEF Span, b
    <3>. QED  BY <1>1, <1>5, <3>1, FreeSetMember
  <2>. QED  BY <2>1
<1>. HIDE DEF past, b, rest, before, after
<1>9. /\ before \in Nat /\ after \in Nat /\ p + before < WordMod /\ p + 1 + after < WordMod
      /\ p + 1 + after <= Begin + Extent /\ p + 1 \in Nat /\ Begin <= p + 1
      /\ p \in Span(b.addr, b.len) /\ Span(p + 1, after) \subseteq Span(b.addr, b.len)
      /\ p \notin Span(p + 1, after)
  <2>. HIDE DEF r, r1
  <2>0. /\ Begin \in Nat /\ Extent \in Nat /\ WordMod \in Nat /\ p \in Nat
        /\ p < Begin + Extent /\ 2 * (Begin + Extent) <= WordMod
        /\ b.addr \in Nat /\ b.len \in Nat /\ b.addr <= p /\ p < b.addr + b.len
        /\ before = p - b.addr /\ after = b.addr + b.len - (p + 1)
    BY <1>1, <1>5, <1>6
  <2>1. before \in Nat /\ after \in Nat /\ p + before < WordMod
    BY <2>0
  <2>2. p + 1 + after = b.addr + b.len /\ p + 1 \in Nat /\ Begin <= p + 1
    BY <1>1, <1>5, <1>6
  <2>3. p \in Span(b.addr, b.len) /\ Span(p + 1, after) \subseteq Span(b.addr, b.len)
    BY <2>0, <2>1, <2>2 DEF Span
  <2>4. p \notin Span(p + 1, after)
    BY <1>1, <2>1 DEF Span
  <2>. QED  BY <1>1, <1>6, <2>1, <2>2, <2>3, <2>4
<1>10. r1.status = "ok" /\ r1.blocks \in Seq(FreeBlock) /\ SoundList(r1.blocks) /\ Joined(r1.blocks)
  <2>1. CASE before > 0
    <3>1. r1 = ReturnBlock(rest, p, before) /\ before \in Nat \ {0}
      BY <1>9, <2>1
    <3>. HIDE DEF r1
    <3>2. /\ r1.status \in {"ok", "throw"}
          /\ r1.status = "ok" =>
               r1.blocks \in Seq(FreeBlock) /\ SoundList(r1.blocks) /\ Joined(r1.blocks)
      BY <1>1, <1>7, <1>9, <3>1, ReturnKeeps
    <3>3. r1.status # "throw"
      <4>1. r.status = "ok"
        OBVIOUS
      <4>. HIDE DEF r
      <4>. QED  BY <1>4, <4>1
    <3>. QED  BY <3>2, <3>3
  <2>2. CASE ~(before > 0)
    <3>1. r1 = [status |-> "ok", blocks |-> rest]
      BY <2>2
    <3>. HIDE DEF r1
    <3>. QED  BY <1>7, <3>1
  <2>. QED  BY <2>1, <2>2
<1>. HIDE DEF r1
<1>11. r = IF after = 0 THEN r1 ELSE ReturnBlock(r1.blocks, p + 1, after)
  BY <1>4, <1>6, <1>10
<1>12. GoodList(r.blocks)
  <2>1. CASE after = 0
    <3>1. r = r1
      BY <1>11, <2>1
    <3>. HIDE DEF r
    <3>. QED  BY <1>10, <3>1 DEF GoodList
  <2>2. CASE after # 0
    <3>1. r = ReturnBlock(r1.blocks, p + 1, after) /\ after \in Nat \ {0} /\ r.status = "ok"
      BY <1>9, <1>11, <2>2
    <3>. HIDE DEF r
    <3>. QED  BY <1>9, <1>10, <3>1, ReturnKeeps DEF GoodList
  <2>. QED  BY <2>1, <2>2
<1>13. ASSUME p <= Begin + 1
       PROVE  FreeSet(r.blocks) \subseteq FreeSet(bs)
  <2>1. before \in {0, 1}
    <3>. HIDE DEF r
    <3>1. Begin \in Nat /\ p \in Nat /\ b.addr \in Nat /\ b.addr >= Begin /\ b.addr <= p
          /\ before = p - b.addr /\ p <= Begin + 1
      BY <1>1, <1>5, <1>6, <1>13
    <3>. QED  BY <3>1
  <2>2. FreeSet(r1.blocks) \subseteq FreeSet(rest) \cup {p}
    <3>1. CASE before = 1
      <4>1. r1 = ReturnBlock(rest, p, 1)
        <5>1. r1 = ReturnBlock(rest, p, before)
          BY <3>1 DEF r1
        <5>. QED  BY <3>1, <5>1
      <4>2. p \notin FreeSet(rest)
        BY <1>7, <1>9
      <4>. QED  BY <1>7, <4>1, <4>2, ReturnOne DEF GoodList
    <3>2. CASE before = 0
      <4>1. r1 = [status |-> "ok", blocks |-> rest]
        BY <3>2 DEF r1
      <4>. QED  BY <4>1
    <3>. QED  BY <2>1, <3>1, <3>2
  <2>3. FreeSet(r1.blocks) \subseteq FreeSet(bs)
    BY <1>7, <1>8, <1>9, <2>2
  <2>4. CASE after = 0
    <3>1. r = r1
      BY <1>11, <2>4
    <3>. HIDE DEF r
    <3>. QED  BY <2>3, <3>1
  <2>5. CASE after # 0
    <3>1. r = ReturnBlock(r1.blocks, p + 1, after) /\ after \in Nat \ {0}
      BY <1>9, <1>11, <2>5
    <3>. HIDE DEF r
    <3>2. Span(p + 1, after) \cap FreeSet(r1.blocks) = {}
      BY <1>7, <1>9, <2>2
    <3>3. FreeSet(r.blocks) \subseteq FreeSet(r1.blocks) \cup Span(p + 1, after)
      BY <1>9, <1>10, <3>1, <3>2, ReturnBlockFacts
    <3>. QED  BY <1>8, <1>9, <2>3, <3>3
  <2>. QED  BY <2>4, <2>5
<1>. QED  BY <1>12, <1>13

\* A single page is taken from the lowest end of what is free.
LEMMA TakesLowest ==
    ASSUME NEW bs, GoodList(bs), CanFit(bs, 1)
    PROVE  \A x \in FreeSet(bs) : TakenAddr(bs, 1) <= x
<1>1. /\ bs \in Seq(FreeBlock) /\ SoundList(bs)
      /\ \A j \in 1 .. Len(bs) : bs[j].addr \in Nat /\ bs[j].len \in Nat /\ bs[j].len >= 1
      /\ Len(bs) \in Nat
  <2>1. bs \in Seq(FreeBlock) /\ SoundList(bs)
    BY DEF GoodList
  <2>. QED  BY <2>1, BlockWords DEF SoundList, Word
<1>2. Fits(bs, 1) = 1 .. Len(bs) /\ Fits(bs, 1) # {}
  BY <1>1 DEF Fits, CanFit
<1>. DEFINE i == Find(bs, 1)
<1>3. i \in Fits(bs, 1) /\ \A k \in Fits(bs, 1) : i <= k
  BY <1>2, MinNat DEF Find
<1>. HIDE DEF i
<1>4. i = 1 /\ 1 \in 1 .. Len(bs)
  BY <1>1, <1>2, <1>3
<1>. SUFFICES ASSUME NEW x \in FreeSet(bs)
              PROVE  bs[1].addr <= x
  BY <1>4 DEF TakenAddr, i
<1>5. PICK j \in 1 .. Len(bs) : bs[j].addr <= x /\ x < bs[j].addr + bs[j].len
  BY <1>1, FreeSetMember
<1>6. x \in Int
  BY <1>1, FreeSetMember
<1>7. 1 < j => bs[1].addr + bs[1].len <= bs[j].addr
  BY <1>1, <1>4 DEF SoundList
<1>. QED  BY <1>1, <1>4, <1>5, <1>6, <1>7

=============================================================================
