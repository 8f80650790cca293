----------------------------- MODULE FreeBlocks -----------------------------
(***************************************************************************)
(* The list of free blocks of class FreeBlockList (fbl.h, fbl.cpp), as     *)
(* operators over one value: the sequence of the blocks that the doubly    *)
(* linked list holds, head first.  Disk keeps one such list for its pages, *)
(* VirtualMemory one for its process ids and one for its physical pages;   *)
(* their modules INSTANCE this one.                                        *)
(*                                                                         *)
(* An operation that may throw yields a record: the status of the call and *)
(* the list it leaves behind, which need not be the list it found.         *)
(***************************************************************************)
EXTENDS SequencesExt, Integers

CONSTANTS
    Begin,      \* m_begin: first address of the managed range
    Extent,     \* m_len: number of addresses in the range
    WordMod     \* 2^32 in the code: the type word wraps there

\* The range fits in a word with room to spare: Disk manages [0, npages),
\* VirtualMemory [0, 1024) and [0, 2^20), all far below 2^32.
ASSUME RangeAssumption ==
    /\ Begin \in Nat /\ Extent \in Nat \ {0} /\ WordMod \in Nat
    /\ Begin + Extent < WordMod

Word == 0 .. WordMod - 1

\* Unsigned addition and subtraction of two words.
Plus(x, y) == IF x + y < WordMod THEN x + y ELSE x + y - WordMod
Minus(x, y) == IF y <= x THEN x - y ELSE x - y + WordMod

FreeBlock == [addr : Word, len : Word]

EndOf(b) == Plus(b.addr, b.len)

Span(a, n) == a .. a + n - 1

\* The addresses a list offers.
FreeSet(bs) == UNION {Span(bs[i].addr, bs[i].len) : i \in 1 .. Len(bs)}

\* What find, insert and coalesce take for granted: blocks are not empty, lie
\* inside the managed range, and each ends before the next one begins.
SoundList(bs) ==
    /\ \A i \in 1 .. Len(bs) :
          /\ bs[i].len >= 1
          /\ bs[i].addr >= Begin
          /\ bs[i].addr + bs[i].len <= Begin + Extent
    /\ \A i, j \in 1 .. Len(bs) :
          i < j => bs[i].addr + bs[i].len <= bs[j].addr

\* Neighbours that touch have been joined.
Joined(bs) ==
    \A i \in 1 .. Len(bs) - 1 : bs[i].addr + bs[i].len < bs[i + 1].addr

\* Slip: the constructor takes the end of the range for its length.
InitialBlocksToEnd(init) ==
    IF init THEN <<[addr |-> Begin, len |-> Begin + Extent]>> ELSE <<>>

\* The list of the constructor, with init true or false.
InitialBlocks(init) ==
    IF init THEN <<[addr |-> Begin, len |-> Extent]>> ELSE <<>>

-----------------------------------------------------------------------------
(* Private helpers of the class. *)

Fits(bs, n) == {i \in 1 .. Len(bs) : bs[i].len >= n}

\* Position of the first block long enough; only asked when there is one.
Find(bs, n) == Min(Fits(bs, n))

\* Where insert places a node at address a: at the head when it precedes the
\* head, otherwise after the first node whose successor is not below a.
Gaps(bs, a) == {i \in 1 .. Len(bs) : i < Len(bs) => bs[i + 1].addr >= a}

\* Slip: the node goes in front of that node.
InsertPosBefore(bs, a) ==
    IF bs = <<>> \/ a < bs[1].addr THEN 1 ELSE Min(Gaps(bs, a))

InsertPos(bs, a) ==
    IF bs = <<>> \/ a < bs[1].addr
    THEN 1
    ELSE 1 + Min(Gaps(bs, a))

\* A node placed anywhere but at the head gets length 1, whatever was asked.
InsertLen(bs, a, n) == IF bs = <<>> \/ a < bs[1].addr THEN n ELSE 1

Insert(bs, a, n) ==
    InsertAt(bs, InsertPos(bs, a), [addr |-> a, len |-> InsertLen(bs, a, n)])

\* Slip: the successor is unlinked but its length not added.
CoalesceDropsNext(bs, i) ==
    IF i \in 1 .. Len(bs) - 1 /\ bs[i + 1].addr = EndOf(bs[i])
    THEN RemoveAt(bs, i + 1)
    ELSE bs

\* Block i absorbs its successor when that starts where block i ends; no node
\* (the prev of the head) and the tail are left alone.
Coalesce(bs, i) ==
    LET joined == [addr |-> bs[i].addr, len |-> Plus(bs[i].len, bs[i + 1].len)]
    IN  IF i \in 1 .. Len(bs) - 1 /\ bs[i + 1].addr = EndOf(bs[i])
        THEN RemoveAt([bs EXCEPT ![i] = joined], i + 1)
        ELSE bs

-----------------------------------------------------------------------------
(* Public operations. *)

CanFit(bs, n) == Fits(bs, n) # {}

\* Slip: the address is read after the block was narrowed.
TakenAddrAfter(bs, n) == Plus(bs[Find(bs, n)].addr, n)

\* get_free_block, when a block fits: the address handed out and the list left.
TakenAddr(bs, n) == bs[Find(bs, n)].addr

\* Slip: the block is shortened at its far end.
TakeFirstShortens(bs, n) ==
    LET i == Find(bs, n)
        b == [addr |-> bs[i].addr, len |-> bs[i].len - n]
    IN  IF b.len = 0 THEN RemoveAt(bs, i) ELSE [bs EXCEPT ![i] = b]

TakeFirst(bs, n) ==
    LET i == Find(bs, n)
        b == [addr |-> Plus(bs[i].addr, n), len |-> bs[i].len - n]
    IN  IF b.len = 0 THEN RemoveAt(bs, i) ELSE [bs EXCEPT ![i] = b]

\* The range check of return_block and force_return_block, in word arithmetic.
InRange(a, n) == a >= Begin /\ Plus(a, n) <= Begin + Extent

\* Whether the node just inserted at position i overlaps a neighbour.
Intersects(bs, i, a, n) ==
    \/ i > 1 /\ EndOf(bs[i - 1]) > a
    \/ i < Len(bs) /\ bs[i + 1].addr < Plus(a, n)

\* Slip: only the successor is joined, not the predecessor.
ReturnBlockJoinsNext(bs, a, n) ==
    LET i == InsertPos(bs, a)
        inserted == Insert(bs, a, n)
    IN  IF ~InRange(a, n) THEN [status |-> "throw", blocks |-> bs]
        ELSE IF Intersects(inserted, i, a, n)
             THEN [status |-> "throw", blocks |-> inserted]
             ELSE [status |-> "ok", blocks |-> Coalesce(inserted, i)]

\* return_block.  The overlap is detected after the insertion, and the
\* exception leaves the inserted node in the list.
ReturnBlock(bs, a, n) ==
    LET i == InsertPos(bs, a)
        inserted == Insert(bs, a, n)
    IN  IF ~InRange(a, n) THEN [status |-> "throw", blocks |-> bs]
        ELSE IF Intersects(inserted, i, a, n)
             THEN [status |-> "throw", blocks |-> inserted]
             ELSE [status |-> "ok",
                   blocks |-> Coalesce(Coalesce(inserted, i), i - 1)]

\* return_block of single addresses, one after the other, as the loop of
\* end_process over the pages of a process does.
ReturnEach(bs, S) == FoldSet(LAMBDA a, list : ReturnBlock(list, a, 1).blocks, bs, S)

\* The two loops of force_return_block, one iteration each: block `at` absorbs
\* the predecessor, or the successor, that overlaps it.
AbsorbPrev(s) ==
    LET b == s.blocks[s.at]
        p == s.blocks[s.at - 1]
        reach == IF EndOf(p) > EndOf(b)
                 THEN Plus(b.len, Minus(EndOf(p), EndOf(b))) ELSE b.len
        merged == [addr |-> p.addr, len |-> Plus(reach, Minus(b.addr, p.addr))]
    IN  IF s.at > 1 /\ EndOf(p) > b.addr
        THEN [blocks |-> RemoveAt([s.blocks EXCEPT ![s.at] = merged], s.at - 1),
              at |-> s.at - 1]
        ELSE s

AbsorbNext(s) ==
    LET b == s.blocks[s.at]
        q == s.blocks[s.at + 1]
        merged == [b EXCEPT !.len = Plus(@, Minus(EndOf(q), EndOf(b)))]
    IN  IF s.at < Len(s.blocks) /\ q.addr < EndOf(b)
        THEN [blocks |-> RemoveAt([s.blocks EXCEPT ![s.at] = merged], s.at + 1),
              at |-> s.at]
        ELSE s

ForceReturnBlock(bs, a, n) ==
    LET start == [blocks |-> Insert(bs, a, n), at |-> InsertPos(bs, a)]
        prevs[k \in 0 .. Len(bs)] ==
            IF k = 0 THEN start ELSE AbsorbPrev(prevs[k - 1])
        nexts[k \in 0 .. Len(bs)] ==
            IF k = 0 THEN prevs[Len(bs)] ELSE AbsorbNext(nexts[k - 1])
    IN  IF InRange(a, n)
        THEN [status |-> "ok", blocks |-> nexts[Len(bs)].blocks]
        ELSE [status |-> "throw", blocks |-> bs]

\* remove_block.  The search dereferences a null pointer when no block reaches
\* past a; the part before a is given back at a instead of at the block's start.
RemoveBlock(bs, a, n) ==
    LET past == {i \in 1 .. Len(bs) : EndOf(bs[i]) > a}
        i == Min(past)
        before == Minus(a, bs[i].addr)
        after == Minus(EndOf(bs[i]), Plus(a, n))
        r1 == IF before > 0 THEN ReturnBlock(RemoveAt(bs, i), a, before)
              ELSE [status |-> "ok", blocks |-> RemoveAt(bs, i)]
    IN  IF past = {} THEN [status |-> "crash", blocks |-> bs]
        ELSE IF bs[i].addr > a \/ EndOf(bs[i]) < Plus(a, n)
             THEN [status |-> "throw", blocks |-> bs]
             ELSE IF r1.status = "throw" \/ after = 0 THEN r1
                  ELSE ReturnBlock(r1.blocks, Plus(a, n), after)

=============================================================================
