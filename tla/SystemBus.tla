----------------------------- MODULE SystemBus -----------------------------
(***************************************************************************)
(* Class SystemBus (system_bus.h) with Memory, RAM and ROM (memory.h): an  *)
(* access is translated by VirtualMemory, a page fault is served, and the  *)
(* physical address is routed to a byte array.                             *)
(*                                                                         *)
(* Frames 0 .. RamPages-1 are RAM, then come ROM, which can be written,    *)
(* and the disk.  The disk uses the page number as its own, and all of its *)
(* own are below its first frame: to reach it is to read past the end of   *)
(* its file, which ends the program.  The disk's contents are left out: a  *)
(* page brought in is the first PAGE_SIZE bytes of what read_page returns, *)
(* zeros, and pages are never written back (EvictPPage throws).            *)
(***************************************************************************)
EXTENDS VirtualMemory

CONSTANTS
    RamPages, RomPages,
    PageBytes,      \* PAGE_SIZE
    Byte,           \* values of a byte
    Data,           \* those that are written
    Sizes,          \* bytes moved by one access
    Addresses,      \* where accesses begin
    MaxCalls        \* bound on the calls that manage processes and pages

VARIABLES
    memory,         \* the bytes of every frame of RAM and ROM
    pending,        \* the access under way: parts still to do, bytes written or read
    reply,          \* answer to the last call
    calls           \* how many calls have managed processes and pages

busVars == <<memory, pending, reply, calls>>

MemoryPages == RamPages + RomPages
Backed == 0 .. MemoryPages - 1

\* As in main.cpp, the disk is no larger than what is in front of it, and its first frame is
\* one of the physical pages there are.
ASSUME BusAssumption ==
    /\ {RamPages, RomPages, PageBytes} \subseteq Nat \ {0}
    /\ 0 \in Byte /\ Data \subseteq Byte /\ Sizes \subseteq 1 .. PageBytes
    /\ NDiskPages <= MemoryPages
    /\ MemoryPages < NFrames
    /\ VPages \subseteq Frames /\ PageForPid \in VPages
    /\ 2 * NFrames <= WordMod
    /\ Addresses \subseteq 0 .. (NFrames - 1) * PageBytes

Zeros == [o \in 0 .. PageBytes - 1 |-> 0]
PageOf(a) == a \div PageBytes

Idle == [kind |-> "none", todo |-> <<>>, data |-> <<>>]
Answer(how, data) == [status |-> how, data |-> data]
Answered(how) == pending' = Idle /\ reply' = Answer(how, <<>>)

DiskFrames == MemoryPages .. MemoryPages + NDiskPages - 1

\* Slip: the disk's frames are like those that nothing is behind.
SlipUnroutable(f) == "throw"

\* route_memory: what becomes of an access to a frame that is not RAM or ROM.
Unroutable(f) == IF f \in DiskFrames THEN "exit" ELSE "throw"

-----------------------------------------------------------------------------
(* Mapped accesses: read_byte, read_hword, read_word, write_byte, ...      *)

\* Slip: a straddling write begins with the last byte.
SlipParts(kind, a, n) == IF PageOf(a) = PageOf(a + n - 1) THEN <<a .. a + n - 1>>
                         ELSE [k \in 1 .. n |-> {a + n - k}]

\* write_val goes up from the first byte, read_val down from the last.
Parts(kind, a, n) ==
    IF PageOf(a) = PageOf(a + n - 1) THEN <<a .. a + n - 1>>
    ELSE [k \in 1 .. n |-> IF kind = "write" THEN {a + k - 1} ELSE {a + n - k}]

StartRead(a, n) ==
    /\ pending' = [kind |-> "read", todo |-> Parts("read", a, n), data |-> <<>>]
    /\ reply' = Answer("ok", <<>>)
    /\ UNCHANGED <<vars, memory>>

StartWrite(a, data) ==
    /\ pending' = [kind |-> "write", todo |-> Parts("write", a, Cardinality(DOMAIN data)), data |-> data]
    /\ reply' = Answer("ok", <<>>)
    /\ UNCHANGED <<vars, memory>>

Here == Head(pending.todo)
HerePage == PageOf(CHOOSE a \in Here : TRUE)

\* The frame of a page of the process once it has been accessed.
FrameOf(pid, v) ==
    IF TlbHit(pid, v) THEN tlb[TlbSlot(v)].ppage
    ELSE IF entries[pid][v].disk THEN FrameList!TakenAddr(freelist, 1) ELSE entries[pid][v].ppage

Put(mem, f, data) ==
    [mem EXCEPT ![f] = [o \in DOMAIN @ |->
        LET at == {a \in DOMAIN data : a % PageBytes = o}
        IN  IF at = {} THEN @[o] ELSE data[CHOOSE a \in at : TRUE]]]

\* Slip: the frame keeps what it held.
SlipFetched(f) == memory
\* handle_mmu_exception: the page fetched from the disk is copied to its frame.
Fetched(f) == [memory EXCEPT ![f] = Zeros]

\* Slip: the same part comes again.
SlipContinue(data) ==
    IF Len(pending.todo) > 1 THEN pending' = [pending EXCEPT !.data = data] /\ UNCHANGED reply
    ELSE Answered("ok")
Continue(data) ==
    LET rest == [pending EXCEPT !.todo = Tail(@), !.data = data]
    IN  IF rest.todo # <<>> THEN pending' = rest /\ UNCHANGED reply
        ELSE /\ pending' = Idle
             /\ reply' = Answer("ok", IF rest.kind = "read" THEN data ELSE <<>>)

\* What new says, and old of the rest.
Over(new, old) == [a \in DOMAIN new \cup DOMAIN old |-> IF a \in DOMAIN new THEN new[a] ELSE old[a]]

\* One part of an access reaches frame f, with mem in the memory.
Reach(f, mem) ==
    IF f \notin Backed THEN Answered(Unroutable(f)) /\ UNCHANGED memory
    ELSE IF pending.kind = "write"
         THEN memory' = Put(mem, f, [a \in Here |-> pending.data[a]]) /\ Continue(pending.data)
         ELSE memory' = mem /\ Continue(Over([a \in Here |-> mem[f][a % PageBytes]], pending.data))

\* A fault without a free frame ends the program.
StepTranslated ==
    /\ cur # NoProcess
    /\ \/ /\ AccessHit(cur, HerePage) \/ AccessResident(cur, HerePage)
          /\ Reach(FrameOf(cur, HerePage), memory)
       \/ LET f == FrameOf(cur, HerePage)
          IN  PageIn(cur, HerePage) /\ Reach(f, IF f \in Backed THEN Fetched(f) ELSE memory)
       \/ AccessUnmapped(cur, HerePage) /\ Answered("throw") /\ UNCHANGED memory
       \/ Evict(cur, HerePage) /\ Answered("exit") /\ UNCHANGED memory
       \/ EvictThrows(cur, HerePage) /\ Answered("exit") /\ UNCHANGED memory

\* Without a process addresses are physical.
StepRaw == cur = NoProcess /\ Reach(HerePage, memory) /\ UNCHANGED vars

-----------------------------------------------------------------------------
(* Unmapped accesses: read_unmapped_word, write_unmapped_byte, ...  Only   *)
(* the first page is ensured; an access past the end of its byte array     *)
(* would be undefined, and is left out.                                    *)

InTarget(a, n) ==
    LET first == PageOf(a)  last == PageOf(a + n - 1)
    IN  first \notin Backed \/ (last \in Backed /\ (first < RamPages <=> last < RamPages))

PutRaw(mem, data) ==
    [f \in Backed |-> LET mine == {a \in DOMAIN data : PageOf(a) = f}
                      IN  IF mine = {} THEN mem[f] ELSE Put(mem, f, [a \in mine |-> data[a]])[f]]

ReachRaw(a, n, data, mem) ==
    IF PageOf(a) \notin Backed THEN Answered(Unroutable(PageOf(a))) /\ UNCHANGED memory
    ELSE /\ memory' = PutRaw(mem, data)
         /\ pending' = Idle
         /\ reply' = Answer("ok", IF data # <<>> THEN <<>>
                                  ELSE [b \in a .. a + n - 1 |-> mem[PageOf(b)][b % PageBytes]])

\* data is empty for a read.
Unmapped(a, n, data) ==
    LET p == PageOf(a)
    IN  \/ EnsureMapped(cur, p) /\ ReachRaw(a, n, data, memory)
        \/ EnsureRefused(cur, p) /\ Answered("throw") /\ UNCHANGED memory
        \/ /\ MapPPage(cur, p)
           /\ IF ~Alive' THEN Answered("exit") /\ UNCHANGED memory
              ELSE ReachRaw(a, n, data, IF p \in Backed THEN Fetched(p) ELSE memory)

-----------------------------------------------------------------------------

\* Memory::reset stops at the last page, which it does not touch.
Cleared(f) == f \notin {RamPages - 1, MemoryPages - 1}
Reset ==
    /\ memory' = [f \in Backed |-> IF Cleared(f) THEN Zeros ELSE memory[f]]
    /\ reply' = Answer("ok", <<>>)
    /\ UNCHANGED <<vars, pending>>

BusInit ==
    /\ Init
    /\ memory \in [Backed -> {Zeros}]
    /\ pending = Idle /\ reply = Answer("ok", <<>>) /\ calls = 0

Manage ==
    /\ calls < MaxCalls /\ calls' = calls + 1
    /\ \/ BeginProcess \/ BeginThrows
       \/ \E pid \in procs : \/ SetProcess(pid) \/ EndProcess(pid) \/ EndThrows(pid)
                             \/ \E vs \in Ranges : AddVPages(pid, vs)
    /\ memory' = memory
    /\ Answered(IF Alive' THEN status' ELSE "exit")

StepPending == pending # Idle /\ (StepTranslated \/ StepRaw)

BusNext ==
    /\ Alive /\ reply.status # "exit"
    /\ \/ StepPending /\ UNCHANGED calls
       \/ /\ pending = Idle
          /\ \/ Manage
             \/ Reset /\ UNCHANGED calls
             \/ UNCHANGED calls /\ \E a \in Addresses, n \in Sizes :
                  \/ StartRead(a, n)
                  \/ \E data \in [a .. a + n - 1 -> Data] : StartWrite(a, data)
                  \/ /\ InTarget(a, n)
                     /\ \E data \in [a .. a + n - 1 -> Data] \cup {<<>>} : Unmapped(a, n, data)

BusSpec == BusInit /\ [][BusNext]_<<vars, busVars>>

-----------------------------------------------------------------------------
(* Properties. *)

\* An access under way has parts left, in pages next to each other; a read has
\* collected none of them yet.
BusTypeOK ==
    /\ TypeOK
    /\ memory \in [Backed -> [0 .. PageBytes - 1 -> Byte]]
    /\ pending # Idle =>
         /\ pending.kind \in {"read", "write"} /\ pending.todo # <<>>
         /\ \A part \in ToSet(pending.todo) :
              /\ part # {} /\ \A a, b \in part : PageOf(a) = PageOf(b)
              /\ IF pending.kind = "write" THEN part \subseteq DOMAIN pending.data
                 ELSE part \cap DOMAIN pending.data = {}
    /\ reply.status \in {"ok", "throw", "exit"}

\* Faults, evictions, forced mappings and ends of processes keep the frames apart but for the
\* misplaced ones: no other frame has two virtual pages or is free while it has one.  As long
\* as remove_block misplaced none, no frame is lost either: any that has no page is free.
FramesKept ==
    Alive =>
        /\ \A r, s \in Resident :
              EntryOf(r).ppage = EntryOf(s).ppage => r = s \/ EntryOf(r).ppage \in misplaced
        /\ \A f \in Frames \ misplaced : used[f] <=> \E r \in Resident : EntryOf(r).ppage = f
        /\ \A f \in FrameList!FreeSet(freelist) : used[f] => f \in misplaced
        /\ misplaced = {} => FrameList!FreeSet(freelist) = {f \in Frames : ~used[f]}

\* No page is ever in a frame of the disk while the program runs: the access that put it there
\* ended the program.  So the first of these frames is free, and a page fault does not have to
\* evict, which could not succeed (virtual_memory.cpp:419), unless remove_block lost frames.
DiskUntouched ==
    Alive /\ reply.status # "exit" => \A f \in DiskFrames \cap Frames : ~used[f]

\* What the processes see: a page that has a frame holds what the frame holds, any other zeros.
\* What is in a misplaced frame is left open.
Seen(r) == IF EntryOf(r).disk \/ EntryOf(r).ppage \notin Backed \ misplaced THEN Zeros
           ELSE memory[EntryOf(r).ppage]
PagesSeen == [pid \in procs |-> [v \in DOMAIN entries[pid] |-> Seen(<<pid, v>>)]]
Lost == {r \in Resident : EntryOf(r).ppage \notin Backed}
Shared == {r \in Resident : EntryOf(r).ppage \in misplaced}

\* A translation in the buffer that the page table of its process does not give: begin_process
\* leaves those of an ended process with the same pid.
Stale(t) == /\ t.valid /\ t.pid \in procs
            /\ <<t.pid, t.vpage>> \in Resident => EntryOf(<<t.pid, t.vpage>>).ppage # t.ppage
Foreign == {<<t.pid, t.vpage>> : t \in {tlb[i] : i \in {j \in DOMAIN tlb : Stale(tlb[j])}}}

Abstract == INSTANCE ProcessMemory
    WITH pages <- PagesSeen, lost <- Lost, shared <- Shared, foreign <- Foreign, sound <- misplaced = {}

\* Through translation, faults, reused frames and ends of processes, each process has
\* memory of its own: it reads what it wrote last, and zeros before that (system_bus.h).
\* ProcessMemory names the pages and the calls that are not so.
MemorySpec == Abstract!Spec
=============================================================================
