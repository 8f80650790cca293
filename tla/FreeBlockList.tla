---------------------------- MODULE FreeBlockList ----------------------------
(***************************************************************************)
(* A FreeBlockList and the callers of its public operations.  A caller     *)
(* returns only what it was handed; `owned` records what callers hold.     *)
(*   Next       what Disk and VirtualMemory do: get, return, return all;   *)
(*   ForceNext  adds force_return_block (Disk::return_pages);              *)
(*   RemoveNext adds remove_block (VirtualMemory::map_ppage).              *)
(***************************************************************************)
EXTENDS FreeBlocks

CONSTANT MaxLen     \* longest block a caller asks for or returns

ASSUME MaxLenAssumption == MaxLen \in Nat \ {0}

VARIABLES
    blocks,         \* the linked list from m_head
    owned,          \* addresses handed out and not returned (of the callers)
    reply           \* how the last call ended, and the address it returned

vars == <<blocks, owned, reply>>

Lengths == 1 .. MaxLen
Addresses == Span(Begin, Extent)

Ok == [status |-> "ok", addr |-> 0]

Init ==
    /\ blocks = InitialBlocks(TRUE)
    /\ owned = {}
    /\ reply = Ok

-----------------------------------------------------------------------------

\* get_free_block of a length that fits.
GetFreeBlock(n) ==
    /\ CanFit(blocks, n)
    /\ blocks' = TakeFirst(blocks, n)
    /\ owned' = owned \cup Span(TakenAddr(blocks, n), n)
    /\ reply' = [status |-> "ok", addr |-> TakenAddr(blocks, n)]

\* get_free_block when no block is long enough.
GetThrows(n) ==
    /\ ~CanFit(blocks, n)
    /\ reply' = [status |-> "throw", addr |-> 0]
    /\ UNCHANGED <<blocks, owned>>

\* return_block by a caller that owns the whole range.
ReturnOwned(a, n) ==
    LET r == ReturnBlock(blocks, a, n) IN
    /\ Span(a, n) \subseteq owned
    /\ blocks' = r.blocks
    /\ owned' = IF r.status = "ok" THEN owned \ Span(a, n) ELSE owned
    /\ reply' = [status |-> r.status, addr |-> 0]

\* return_all: every block becomes free again, and nobody may use one.
ReturnAll ==
    /\ blocks' = InitialBlocks(TRUE)
    /\ owned' = {}
    /\ reply' = Ok

\* force_return_block, part of whose range may be free already.
ForceReturn(a, n) ==
    LET r == ForceReturnBlock(blocks, a, n) IN
    /\ Span(a, n) \subseteq Addresses
    /\ blocks' = r.blocks
    /\ owned' = owned \ Span(a, n)
    /\ reply' = [status |-> r.status, addr |-> 0]

\* remove_block: the caller asks for a place it chose.
RemoveChosen(a, n) ==
    LET r == RemoveBlock(blocks, a, n) IN
    /\ reply.status # "crash"
    /\ blocks' = r.blocks
    /\ owned' = IF r.status = "ok" THEN owned \cup Span(a, n) ELSE owned
    /\ reply' = [status |-> r.status, addr |-> 0]

Next ==
    \/ \E n \in Lengths : GetFreeBlock(n)
    \/ \E n \in Lengths : GetThrows(n)
    \/ \E a \in Addresses, n \in Lengths : ReturnOwned(a, n)
    \/ ReturnAll

Spec == Init /\ [][Next]_vars

ForceNext ==
    \/ Next
    \/ \E a \in Addresses, n \in Lengths : ForceReturn(a, n)

ForceSpec == Init /\ [][ForceNext]_vars

RemoveNext ==
    \/ Next
    \/ \E a \in Addresses, n \in Lengths : RemoveChosen(a, n)

RemoveSpec == Init /\ [][RemoveNext]_vars

-----------------------------------------------------------------------------
(* Properties. *)

\* The values the variables take.
TypeOK ==
    /\ blocks \in Seq(FreeBlock)
    /\ owned \subseteq Addresses
    /\ reply \in [status : {"ok", "throw", "crash"}, addr : Word]

\* The list stays sorted, its blocks non-empty, disjoint and inside the range,
\* whatever mix of lengths is taken, returned and force-returned.
ListSound == SoundList(blocks)

\* Nothing is offered that a caller still holds, so no page of Disk and no
\* physical page is ever handed out twice ("Allocates a free block at a
\* specified location", fbl.h:57-63, says the same of remove_block).
NoDoubleAllocation == FreeSet(blocks) \cap owned = {}

\* A request is refused only when no run of n free addresses exists: can_fit,
\* which VirtualMemory asks before it evicts, has no false negatives.
NoFalseExhaustion ==
    \A n \in 1 .. Extent :
        CanFit(blocks, n) <=> \E a \in Addresses : Span(a, n) \subseteq FreeSet(blocks)

\* Every address is free or owned: none is lost for good.
NoLeak == Addresses = FreeSet(blocks) \cup owned

\* The list behaves as the allocator of single pages the clients rely on.
Allocator ==
    INSTANCE PageAllocator WITH
        Pages <- Addresses, free <- FreeSet(blocks), used <- owned

AllocatorSpec == Allocator!Spec

=============================================================================
