------------------------- MODULE FreeBlockListProofs -------------------------
(***************************************************************************)
(* What every sequence of gets, returns of owned blocks and return_alls    *)
(* guarantees, for every range and every block length, and for callers of  *)
(* single pages that the list implements PageAllocator.                    *)
(***************************************************************************)
EXTENDS FreeBlockList, FreeBlocksProofs

\* The inductive invariant.  Disjointness of the list from what is owned needs
\* the list sound (a return is checked against two neighbours only), and the
\* list stays joined only if it was.
IInv ==
    /\ TypeOK
    /\ ListSound
    /\ Joined(blocks)
    /\ NoDoubleAllocation

LEMMA InitIInv == Init => IInv
<1>. SUFFICES ASSUME Init
              PROVE  IInv
  OBVIOUS
<1>1. blocks = InitialBlocks(TRUE) /\ owned = {} /\ reply = Ok /\ 0 \in Word
  BY RangeAssumption DEF Init, Word
<1>. QED
  BY <1>1, FullList DEF IInv, TypeOK, Ok, ListSound, NoDoubleAllocation

\* What a return of owned addresses does to the variables.
LEMMA ReturnOwnedFacts ==
    ASSUME IInv, NEW a \in Addresses, NEW n \in Lengths, ReturnOwned(a, n)
    PROVE  /\ blocks' \in Seq(FreeBlock)
           /\ SoundList(blocks')
           /\ Joined(blocks')
           /\ FreeSet(blocks') \subseteq FreeSet(blocks) \cup Span(a, n)
           /\ n = 1 => FreeSet(blocks') = FreeSet(blocks) \cup Span(a, n)
           /\ owned' = owned \ Span(a, n)
           /\ reply' = Ok
<1>1. /\ a \in Int /\ n \in Nat \ {0}
  BY RangeAssumption, MaxLenAssumption DEF Addresses, Span, Lengths
<1>2. Span(a, n) \subseteq Addresses /\ Span(a, n) \cap FreeSet(blocks) = {}
  BY DEF ReturnOwned, IInv, TypeOK, NoDoubleAllocation
<1>3. Begin <= a /\ a + n <= Begin + Extent
  <2>1. a \in Span(a, n) /\ a + n - 1 \in Span(a, n)
    BY <1>1 DEF Span
  <2>2. a \in Addresses /\ a + n - 1 \in Addresses
    BY <1>2, <2>1
  <2>. QED  BY <2>2, <1>1, RangeAssumption DEF Addresses, Span
<1>4. blocks \in Seq(FreeBlock) /\ SoundList(blocks) /\ Joined(blocks)
  BY DEF IInv, TypeOK, ListSound
<1>. DEFINE r == ReturnBlock(blocks, a, n)
<1>5. /\ r.status = "ok"
      /\ r.blocks \in Seq(FreeBlock) /\ SoundList(r.blocks) /\ Joined(r.blocks)
      /\ FreeSet(r.blocks) \subseteq FreeSet(blocks) \cup Span(a, n)
      /\ n = 1 => FreeSet(r.blocks) = FreeSet(blocks) \cup Span(a, n)
  BY <1>1, <1>2, <1>3, <1>4, ReturnBlockFacts
<1>. HIDE DEF r
<1>6. /\ blocks' = r.blocks
      /\ owned' = IF r.status = "ok" THEN owned \ Span(a, n) ELSE owned
      /\ reply' = [status |-> r.status, addr |-> 0]
  BY DEF ReturnOwned, r
<1>. QED  BY <1>5, <1>6 DEF Ok

LEMMA NextIInv == IInv /\ [Next]_vars => IInv'
<1>. SUFFICES ASSUME IInv, [Next]_vars
              PROVE  IInv'
  OBVIOUS
<1>1. /\ blocks \in Seq(FreeBlock) /\ SoundList(blocks) /\ Joined(blocks)
      /\ owned \subseteq Addresses /\ FreeSet(blocks) \cap owned = {}
      /\ 0 \in Word
  BY RangeAssumption DEF IInv, TypeOK, ListSound, NoDoubleAllocation, Word
<1>2. ASSUME NEW n \in Lengths, GetFreeBlock(n)
      PROVE  IInv'
  <2>. DEFINE a == TakenAddr(blocks, n)
  <2>1. n \in Nat \ {0} /\ CanFit(blocks, n)
    BY <1>2, MaxLenAssumption DEF Lengths, GetFreeBlock
  <2>2. /\ TakeFirst(blocks, n) \in Seq(FreeBlock)
        /\ SoundList(TakeFirst(blocks, n)) /\ Joined(TakeFirst(blocks, n))
        /\ a \in Word /\ Span(a, n) \subseteq FreeSet(blocks)
        /\ FreeSet(TakeFirst(blocks, n)) = FreeSet(blocks) \ Span(a, n)
    BY <1>1, <2>1, TakeFirstFacts
  <2>3. /\ blocks' = TakeFirst(blocks, n) /\ owned' = owned \cup Span(a, n)
        /\ reply' = [status |-> "ok", addr |-> a]
    BY <1>2 DEF GetFreeBlock
  <2>4. owned' \subseteq Addresses
    BY <1>1, <2>2, <2>3, FreeInRange DEF Addresses
  <2>5. TypeOK'
    BY <2>2, <2>3, <2>4 DEF TypeOK
  <2>6. NoDoubleAllocation'
    BY <1>1, <2>2, <2>3 DEF NoDoubleAllocation
  <2>. QED  BY <2>2, <2>3, <2>5, <2>6 DEF IInv, ListSound
<1>3. ASSUME NEW n \in Lengths, GetThrows(n)
      PROVE  IInv'
  BY <1>1, <1>3 DEF GetThrows, IInv, TypeOK, ListSound, NoDoubleAllocation
<1>4. ASSUME NEW a \in Addresses, NEW n \in Lengths, ReturnOwned(a, n)
      PROVE  IInv'
  <2>1. /\ blocks' \in Seq(FreeBlock) /\ SoundList(blocks') /\ Joined(blocks')
        /\ FreeSet(blocks') \subseteq FreeSet(blocks) \cup Span(a, n)
        /\ owned' = owned \ Span(a, n) /\ reply' = Ok
    BY <1>4, ReturnOwnedFacts
  <2>2. TypeOK'
    BY <1>1, <2>1 DEF TypeOK, Ok
  <2>3. NoDoubleAllocation'
    BY <1>1, <2>1 DEF NoDoubleAllocation
  <2>. QED  BY <2>1, <2>2, <2>3 DEF IInv, ListSound
<1>5. CASE ReturnAll
  <2>1. blocks' = InitialBlocks(TRUE) /\ owned' = {} /\ reply' = Ok
    BY <1>5 DEF ReturnAll
  <2>. QED
    BY <1>1, <2>1, FullList DEF IInv, TypeOK, Ok, ListSound, NoDoubleAllocation
<1>6. CASE UNCHANGED vars
  BY <1>6 DEF vars, IInv, TypeOK, ListSound, NoDoubleAllocation
<1>. QED  BY <1>2, <1>3, <1>4, <1>5, <1>6 DEF Next

THEOREM Invariance == Spec => []IInv
<1>. QED  BY InitIInv, NextIInv, PTL DEF Spec

\* The variables keep their types: every address a block or a reply carries
\* stays a word, whatever lengths are asked for (fbl.cpp:43-68, 142-167).
THEOREM TypeCorrect == Spec => []TypeOK
<1>1. IInv => TypeOK
  BY DEF IInv
<1>. QED  BY <1>1, Invariance, PTL

\* The linked list stays sorted, in range, and free of empty or overlapping
\* blocks under gets and returns of owned blocks of any length.
THEOREM Sound == Spec => []ListSound
<1>1. IInv => ListSound
  BY DEF IInv
<1>. QED  BY <1>1, Invariance, PTL

\* No address is offered while a caller holds it.
THEOREM Exclusive == Spec => []NoDoubleAllocation
<1>1. IInv => NoDoubleAllocation
  BY DEF IInv
<1>. QED  BY <1>1, Invariance, PTL

\* get_free_block refuses a length exactly when no run of that many free
\* addresses exists: return_block never leaves a run split between blocks.
THEOREM Exhaustion == Spec => []NoFalseExhaustion
<1>1. ASSUME IInv
      PROVE  NoFalseExhaustion
  <2>. SUFFICES ASSUME NEW n \in 1 .. Extent
                PROVE  CanFit(blocks, n) <=>
                       \E a \in Addresses : Span(a, n) \subseteq FreeSet(blocks)
    BY DEF NoFalseExhaustion
  <2>1. /\ blocks \in Seq(FreeBlock) /\ SoundList(blocks) /\ Joined(blocks)
        /\ n \in Nat \ {0} /\ FreeSet(blocks) \subseteq Addresses
    BY <1>1, FreeInRange, RangeAssumption DEF IInv, TypeOK, ListSound, Addresses
  <2>2. ASSUME CanFit(blocks, n)
        PROVE  \E a \in Addresses : Span(a, n) \subseteq FreeSet(blocks)
    <3>. DEFINE a == TakenAddr(blocks, n)
    <3>1. a \in Word /\ Span(a, n) \subseteq FreeSet(blocks)
      BY <2>1, <2>2, TakeFirstFacts
    <3>2. a \in Int
      BY <3>1, RangeAssumption DEF Word
    <3>. HIDE DEF a
    <3>3. a \in Span(a, n)
      BY <2>1, <3>2 DEF Span
    <3>. QED  BY <2>1, <3>1, <3>3
  <2>3. ASSUME NEW a \in Addresses, Span(a, n) \subseteq FreeSet(blocks)
        PROVE  CanFit(blocks, n)
    <3>1. a \in Int
      BY RangeAssumption DEF Addresses, Span
    <3>2. PICK i \in 1 .. Len(blocks) :
             blocks[i].addr <= a /\ a + n <= blocks[i].addr + blocks[i].len
      BY <2>1, <2>3, <3>1, RunInOneBlock
    <3>3. blocks[i].addr \in Int /\ blocks[i].len \in Int
      BY <2>1, <3>2, BlockWords DEF Word
    <3>4. blocks[i].len >= n
      BY <2>1, <3>1, <3>2, <3>3
    <3>. QED  BY <3>2, <3>4 DEF CanFit, Fits
  <2>. QED  BY <2>2, <2>3
<1>. QED  BY <1>1, Invariance, PTL

-----------------------------------------------------------------------------
(* Callers of one address at a time, which Disk and VirtualMemory are. *)

\* What one step does to the set of free addresses and to what is owned.
LEMMA StepOnSets ==
    ASSUME MaxLen = 1, IInv, Next
    PROVE  \/ \E p \in FreeSet(blocks) :
                 /\ FreeSet(blocks') = FreeSet(blocks) \ {p}
                 /\ owned' = owned \cup {p}
                 /\ reply' = [status |-> "ok", addr |-> p]
           \/ /\ FreeSet(blocks) = {}
              /\ reply' = [status |-> "throw", addr |-> 0]
              /\ UNCHANGED <<blocks, owned>>
           \/ \E p \in owned :
                 /\ FreeSet(blocks') = FreeSet(blocks) \cup {p}
                 /\ owned' = owned \ {p}
                 /\ reply' = Ok
           \/ FreeSet(blocks') = Addresses /\ owned' = {} /\ reply' = Ok
<1>. DEFINE Goal == \/ \E p \in FreeSet(blocks) :
                          /\ FreeSet(blocks') = FreeSet(blocks) \ {p}
                          /\ owned' = owned \cup {p}
                          /\ reply' = [status |-> "ok", addr |-> p]
                    \/ /\ FreeSet(blocks) = {}
                       /\ reply' = [status |-> "throw", addr |-> 0]
                       /\ UNCHANGED <<blocks, owned>>
                    \/ \E p \in owned :
                          /\ FreeSet(blocks') = FreeSet(blocks) \cup {p}
                          /\ owned' = owned \ {p}
                          /\ reply' = Ok
                    \/ FreeSet(blocks') = Addresses /\ owned' = {} /\ reply' = Ok
<1>1. /\ blocks \in Seq(FreeBlock) /\ SoundList(blocks) /\ Joined(blocks)
      /\ 1 \in Nat \ {0} /\ \A n \in Lengths : n = 1
  BY DEF IInv, TypeOK, ListSound, Lengths
<1>2. \A p \in Int : Span(p, 1) = {p}
  BY DEF Span
<1>3. ASSUME NEW n \in Lengths, GetFreeBlock(n)
      PROVE  Goal
  <2>. DEFINE p == TakenAddr(blocks, 1)
  <2>1. n = 1 /\ CanFit(blocks, 1)
    BY <1>1, <1>3 DEF GetFreeBlock
  <2>2. /\ p \in Word /\ Span(p, 1) \subseteq FreeSet(blocks)
        /\ FreeSet(TakeFirst(blocks, 1)) = FreeSet(blocks) \ Span(p, 1)
    BY <1>1, <2>1, TakeFirstFacts
  <2>3. Span(p, 1) = {p}
    BY <1>2, <2>2, RangeAssumption DEF Word
  <2>4. /\ blocks' = TakeFirst(blocks, 1) /\ owned' = owned \cup Span(p, 1)
        /\ reply' = [status |-> "ok", addr |-> p]
    BY <1>3, <2>1, Zenon DEF GetFreeBlock
  <2>. HIDE DEF p
  <2>. QED  BY <2>2, <2>3, <2>4, Zenon
<1>4. ASSUME NEW n \in Lengths, GetThrows(n)
      PROVE  Goal
  BY <1>1, <1>4, SingleFits DEF GetThrows, GoodList
<1>5. ASSUME NEW a \in Addresses, NEW n \in Lengths, ReturnOwned(a, n)
      PROVE  Goal
  <2>1. n = 1 /\ Span(a, 1) = {a}
    BY <1>1, <1>2, RangeAssumption DEF Addresses, Span
  <2>2. a \in owned
    BY <1>5, <2>1 DEF ReturnOwned
  <2>3. /\ FreeSet(blocks') = FreeSet(blocks) \cup Span(a, n)
        /\ owned' = owned \ Span(a, n) /\ reply' = Ok
    BY <1>5, <2>1, ReturnOwnedFacts
  <2>. QED  BY <2>1, <2>2, <2>3
<1>6. ASSUME ReturnAll PROVE Goal
  BY <1>6, FullList, Zenon DEF ReturnAll, Addresses
<1>. HIDE DEF Goal
<1>7. Goal
  BY <1>3, <1>4, <1>5, <1>6 DEF Next
<1>. QED  BY <1>7 DEF Goal

\* No page, process id or physical page is lost when callers take and return
\* one at a time, the only way Disk and VirtualMemory use the list.
THEOREM NothingLost ==
    ASSUME MaxLen = 1
    PROVE  Spec => []NoLeak
<1>1. Init => NoLeak
  BY FullList DEF Init, NoLeak, Addresses
<1>2. IInv /\ NoLeak /\ [Next]_vars => NoLeak'
  <2>. SUFFICES ASSUME IInv, NoLeak, [Next]_vars
                PROVE  NoLeak'
    OBVIOUS
  <2>1. CASE Next
    BY <2>1, StepOnSets DEF NoLeak
  <2>2. CASE UNCHANGED vars
    BY <2>2 DEF vars, NoLeak
  <2>. QED  BY <2>1, <2>2
<1>. QED  BY <1>1, <1>2, Invariance, PTL DEF Spec

\* For such callers the list is an allocator: it hands out a free address
\* whenever there is one, and an address comes back only by a return.
THEOREM Implementation ==
    ASSUME MaxLen = 1
    PROVE  Spec => AllocatorSpec
<1>1. Init => Allocator!Init
  BY FullList DEF Init, Ok, Addresses, Allocator!Init
<1>2. IInv /\ [Next]_vars => [Allocator!Next]_(Allocator!vars)
  <2>. SUFFICES ASSUME IInv, [Next]_vars
                PROVE  [Allocator!Next]_(Allocator!vars)
    OBVIOUS
  <2>1. CASE Next
    BY <2>1, StepOnSets
       DEF Ok, Allocator!Next, Allocator!Get, Allocator!Refuse,
           Allocator!Return, Allocator!ReturnAll
  <2>2. CASE UNCHANGED vars
    BY <2>2 DEF vars, Allocator!vars
  <2>. QED  BY <2>1, <2>2
<1>. QED  BY <1>1, <1>2, Invariance, PTL DEF Spec, AllocatorSpec, Allocator!Spec

-----------------------------------------------------------------------------
(* Callers that also force a block back, part of which may be free.        *)

\* A forced return joins what overlaps and leaves the blocks it then touches
\* apart, so the list need not stay joined; the rest of IInv does not use that.
ForceIInv ==
    /\ TypeOK
    /\ ListSound
    /\ NoDoubleAllocation

LEMMA ForceNextIInv == ForceIInv /\ [ForceNext]_vars => ForceIInv'
<1>. SUFFICES ASSUME ForceIInv, [ForceNext]_vars
              PROVE  ForceIInv'
  OBVIOUS
<1>1. /\ blocks \in Seq(FreeBlock) /\ SoundList(blocks)
      /\ owned \subseteq Addresses /\ FreeSet(blocks) \cap owned = {}
      /\ 0 \in Word
  BY RangeAssumption DEF ForceIInv, TypeOK, ListSound, NoDoubleAllocation, Word
\* A range of the managed addresses, as the arguments of the two returns are.
<1>2. ASSUME NEW a \in Addresses, NEW n \in Lengths, Span(a, n) \subseteq Addresses
      PROVE  /\ a \in Int /\ n \in Nat \ {0}
             /\ Begin <= a /\ a + n <= Begin + Extent
  <2>1. /\ a \in Int /\ n \in Nat \ {0}
    BY RangeAssumption, MaxLenAssumption DEF Addresses, Span, Lengths
  <2>2. a \in Span(a, n) /\ a + n - 1 \in Span(a, n)
    BY <2>1 DEF Span
  <2>3. a \in Addresses /\ a + n - 1 \in Addresses
    BY <1>2, <2>2
  <2>. QED  BY <2>1, <2>3, RangeAssumption DEF Addresses, Span
<1>3. ASSUME NEW n \in Lengths, GetFreeBlock(n)
      PROVE  ForceIInv'
  <2>. DEFINE a == TakenAddr(blocks, n)
  <2>1. n \in Nat \ {0} /\ CanFit(blocks, n)
    BY <1>3, MaxLenAssumption DEF Lengths, GetFreeBlock
  <2>2. /\ TakeFirst(blocks, n) \in Seq(FreeBlock)
        /\ SoundList(TakeFirst(blocks, n))
        /\ a \in Word /\ Span(a, n) \subseteq FreeSet(blocks)
        /\ FreeSet(TakeFirst(blocks, n)) = FreeSet(blocks) \ Span(a, n)
    BY <1>1, <2>1, TakeFirstFacts
  <2>3. /\ blocks' = TakeFirst(blocks, n) /\ owned' = owned \cup Span(a, n)
        /\ reply' = [status |-> "ok", addr |-> a]
    BY <1>3 DEF GetFreeBlock
  <2>4. owned' \subseteq Addresses
    BY <1>1, <2>2, <2>3, FreeInRange DEF Addresses
  <2>5. TypeOK'
    BY <2>2, <2>3, <2>4 DEF TypeOK
  <2>6. NoDoubleAllocation'
    BY <1>1, <2>2, <2>3 DEF NoDoubleAllocation
  <2>. QED  BY <2>2, <2>3, <2>5, <2>6 DEF ForceIInv, ListSound
<1>4. ASSUME NEW n \in Lengths, GetThrows(n)
      PROVE  ForceIInv'
  BY <1>1, <1>4 DEF GetThrows, ForceIInv, TypeOK, ListSound, NoDoubleAllocation
\* Both returns take from `owned` what they may add to the list.
<1>5. ASSUME NEW a \in Addresses, NEW n \in Lengths, NEW r,
             r.status = "ok", r.blocks \in Seq(FreeBlock), SoundList(r.blocks),
             FreeSet(r.blocks) \subseteq FreeSet(blocks) \cup Span(a, n),
             blocks' = r.blocks, owned' = owned \ Span(a, n),
             reply' = [status |-> r.status, addr |-> 0]
      PROVE  ForceIInv'
  <2>1. TypeOK'
    BY <1>1, <1>5 DEF TypeOK
  <2>2. NoDoubleAllocation'
    BY <1>1, <1>5 DEF NoDoubleAllocation
  <2>. QED  BY <1>5, <2>1, <2>2 DEF ForceIInv, ListSound
<1>6. ASSUME NEW a \in Addresses, NEW n \in Lengths, ReturnOwned(a, n)
      PROVE  ForceIInv'
  <2>. DEFINE r == ReturnBlock(blocks, a, n)
  <2>1. Span(a, n) \subseteq Addresses /\ Span(a, n) \cap FreeSet(blocks) = {}
    BY <1>1, <1>6 DEF ReturnOwned
  <2>2. /\ r.status = "ok" /\ r.blocks \in Seq(FreeBlock) /\ SoundList(r.blocks)
        /\ FreeSet(r.blocks) \subseteq FreeSet(blocks) \cup Span(a, n)
    BY <1>1, <1>2, <2>1, ReturnBlockFacts
  <2>. HIDE DEF r
  <2>3. /\ blocks' = r.blocks /\ owned' = owned \ Span(a, n)
        /\ reply' = [status |-> r.status, addr |-> 0]
    BY <1>6, <2>2 DEF ReturnOwned, r
  <2>. QED  BY <1>5, <2>2, <2>3
<1>7. ASSUME NEW a \in Addresses, NEW n \in Lengths, ForceReturn(a, n)
      PROVE  ForceIInv'
  <2>. DEFINE r == ForceReturnBlock(blocks, a, n)
  <2>1. Span(a, n) \subseteq Addresses
    BY <1>7 DEF ForceReturn
  <2>2. /\ r.status = "ok" /\ r.blocks \in Seq(FreeBlock) /\ SoundList(r.blocks)
        /\ FreeSet(r.blocks) \subseteq FreeSet(blocks) \cup Span(a, n)
    BY <1>1, <1>2, <2>1, ForceReturnBlockFacts
  <2>. HIDE DEF r
  <2>3. /\ blocks' = r.blocks /\ owned' = owned \ Span(a, n)
        /\ reply' = [status |-> r.status, addr |-> 0]
    BY <1>7, <2>2 DEF ForceReturn, r
  <2>. QED  BY <1>5, <2>2, <2>3
<1>8. CASE ReturnAll
  <2>1. blocks' = InitialBlocks(TRUE) /\ owned' = {} /\ reply' = Ok
    BY <1>8 DEF ReturnAll
  <2>. QED
    BY <1>1, <2>1, FullList DEF ForceIInv, TypeOK, Ok, ListSound, NoDoubleAllocation
<1>9. CASE UNCHANGED vars
  BY <1>9 DEF vars, ForceIInv, TypeOK, ListSound, NoDoubleAllocation
<1>. QED  BY <1>3, <1>4, <1>6, <1>7, <1>8, <1>9 DEF ForceNext, Next

\* A forced return of a range that is free in part, or that several callers
\* own parts of, leaves the list sorted and its blocks disjoint and in range
\* (fbl.cpp:170-221), and it never offers an address that somebody holds.
THEOREM ForcedReturns == ForceSpec => [](ListSound /\ NoDoubleAllocation)
<1>1. Init => ForceIInv
  BY InitIInv DEF IInv, ForceIInv
<1>2. ForceIInv => ListSound /\ NoDoubleAllocation
  BY DEF ForceIInv
<1>. QED  BY <1>1, <1>2, ForceNextIInv, PTL DEF ForceSpec

=============================================================================
