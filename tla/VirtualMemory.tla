---------------------------- MODULE VirtualMemory ----------------------------
(***************************************************************************)
(* Class VirtualMemory (virtual_memory.h, virtual_memory.cpp): processes   *)
(* with page tables, physical pages handed out on the first access, disk   *)
(* pages behind virtual pages that have none, a TLB shared by all          *)
(* processes and a list of physical pages in order of use.                 *)
(*                                                                         *)
(* The disk appears through its list of free pages only.  A call that      *)
(* throws one of the class's own exceptions may be followed by others; any *)
(* other exception is caught nowhere in the program and ends it.           *)
(* Permission flags are set but never consulted, and are left out; so is   *)
(* the branch of access_vpage for a forced mapping on disk: a page goes    *)
(* there in evict_ppage only, which throws.                                *)
(***************************************************************************)
EXTENDS SequencesExt, Integers

CONSTANTS
    MaxProcesses,   \* MAX_PROCESSES
    NFrames,        \* NUM_PPAGES
    NDiskPages,     \* pages of the disk
    VPages,         \* virtual pages the processes use
    TlbSize,        \* TLB_SIZE
    WordMod         \* 2^32

ASSUME VMAssumption ==
    /\ {MaxProcesses, NFrames, NDiskPages, TlbSize} \subseteq Nat \ {0}
    /\ VPages \subseteq Nat
    /\ \A lo, hi \in VPages : lo .. hi \subseteq VPages
    /\ WordMod \in Nat
    /\ MaxProcesses < WordMod /\ NFrames < WordMod /\ NDiskPages < WordMod

VARIABLES
    procs,          \* keys of m_process_ptable_map
    cur,            \* pid of m_cur_ptable, or NoProcess
    entries,        \* the page table of every process
    freepids,       \* m_freepids
    freelist,       \* m_freelist
    diskfree,       \* m_free_list of the disk
    used,           \* PhysicalPage::used
    mapped,         \* PhysicalPage::mapped_vpages
    lru,            \* the LRU list, least recently used first
    tlb,            \* the TLB
    status,         \* how the last call ended
    misplaced       \* history: pages that were taken and left among the free ones (remove_block)

tables == <<procs, cur, entries, freepids, diskfree>>
frames == <<freelist, used, mapped, lru, misplaced>>
vars == <<procs, cur, entries, freepids, freelist, diskfree, used, mapped, lru,
          tlb, status, misplaced>>

\* FreeBlocksProofs is FreeBlocks with the lemmas about it.
PidList == INSTANCE FreeBlocksProofs WITH Begin <- 0, Extent <- MaxProcesses
FrameList == INSTANCE FreeBlocksProofs WITH Begin <- 0, Extent <- NFrames
DiskList == INSTANCE FreeBlocksProofs WITH Begin <- 0, Extent <- NDiskPages

Pids == 0 .. MaxProcesses - 1
Frames == 0 .. NFrames - 1
DiskPages == 0 .. NDiskPages - 1
NoProcess == -1

\* PageTableEntry: on disk (at diskpage) or in a physical page; both numbers
\* keep their last value.
Entry == [ppage : Frames, disk : BOOLEAN, diskpage : DiskPages]
PageTable == UNION {[D -> Entry] : D \in SUBSET VPages}
EmptyTable == [v \in {} |-> {}]

\* A pointer in mapped_vpages is named by the page table entry it points to.
\* remove_vpage deletes the entry and leaves the pointer: Freed.
Freed == <<>>

TlbEntry == [valid : BOOLEAN, pid : Pids \cup {NoProcess}, vpage : VPages \cup {0},
             ppage : Frames]
TlbSlot(v) == v % TlbSize

\* Exceptions of other classes end the program.
Alive == status \in {"ok", "throw"}

Throw ==
    /\ status' = "throw"
    /\ UNCHANGED <<tables, frames, tlb>>

-----------------------------------------------------------------------------
(* Processes. *)

\* Slip: the process need not exist.
SetAnyProcess(pid) ==
    /\ cur' = pid
    /\ status' = "ok"
    /\ UNCHANGED <<procs, entries, freepids, diskfree, frames, tlb>>

SetProcess(pid) ==
    /\ pid \in procs
    /\ cur' = pid
    /\ status' = "ok"
    /\ UNCHANGED <<procs, entries, freepids, diskfree, frames, tlb>>

BeginProcess ==
    LET pid == PidList!TakenAddr(freepids, 1) IN
    /\ PidList!CanFit(freepids, 1)
    /\ freepids' = PidList!TakeFirst(freepids, 1)
    /\ procs' = procs \cup {pid}
    /\ entries' = [entries EXCEPT ![pid] = EmptyTable]
    /\ cur' = pid
    /\ status' = "ok"
    /\ UNCHANGED <<diskfree, frames, tlb>>

\* The limit of processes is reached.
BeginThrows ==
    /\ ~PidList!CanFit(freepids, 1)
    /\ Throw

\* What remove_vpage gives back for the pages of a process: the disk page of
\* one on disk, the physical page of any other.  The two slips forget to ask
\* where the page is.
AnyDiskPagesOf(pid) == {entries[pid][v].diskpage : v \in DOMAIN entries[pid]}
DiskPagesOf(pid) ==
    {entries[pid][v].diskpage : v \in {w \in DOMAIN entries[pid] : entries[pid][w].disk}}
AnyFramesOf(pid) == {entries[pid][v].ppage : v \in DOMAIN entries[pid]}
FramesOf(pid) ==
    {entries[pid][v].ppage : v \in {w \in DOMAIN entries[pid] : ~entries[pid][w].disk}}

\* A page that is free already is not taken back, nor one that two of the virtual pages have.
\* It comes to that only after remove_block left a page that was taken among the free ones.
FramesReturnable(pid) ==
    /\ FramesOf(pid) \cap FrameList!FreeSet(freelist) = {}
    /\ \A v, w \in DOMAIN entries[pid] :
          ~entries[pid][v].disk /\ ~entries[pid][w].disk /\ entries[pid][v].ppage = entries[pid][w].ppage
             => v = w

\* remove_vpage for every page of the process.  The LRU list, the TLB and the
\* pointers in mapped_vpages are left as they are.
EndProcess(pid) ==
    /\ pid \in procs /\ FramesReturnable(pid)
    /\ diskfree' = DiskList!ReturnEach(diskfree, DiskPagesOf(pid))
    /\ freelist' = FrameList!ReturnEach(freelist, FramesOf(pid))
    /\ used' = [f \in Frames |-> used[f] /\ f \notin FramesOf(pid)]
    /\ mapped' = [f \in Frames |->
          {IF r # Freed /\ r[1] = pid THEN Freed ELSE r : r \in mapped[f]}]
    /\ entries' = [entries EXCEPT ![pid] = EmptyTable]
    /\ cur' = IF cur = pid THEN NoProcess ELSE cur
    /\ procs' = procs \ {pid}
    /\ freepids' = PidList!ReturnBlock(freepids, pid, 1).blocks
    /\ status' = "ok"
    /\ UNCHANGED <<lru, tlb, misplaced>>

\* return_block throws, and nothing catches it.  The tables it leaves half done, which nobody
\* sees any more, are left out here and in the other steps below that end the program so.
EndThrows(pid) ==
    /\ pid \in procs /\ ~FramesReturnable(pid)
    /\ status' = "free_list"
    /\ UNCHANGED <<tables, frames, tlb>>

\* set_process, end_process and every other call with a pid that does not exist.
InvalidPid(pid) ==
    /\ pid \notin procs
    /\ Throw

-----------------------------------------------------------------------------
(* Virtual pages. *)

NewEntry(page) == [ppage |-> 0, disk |-> TRUE, diskpage |-> page]

\* One round of the loop of add_vpage: page v gets the first free disk page.
AddPage(s, v) ==
    IF s.status # "ok" THEN s
    ELSE IF ~DiskList!CanFit(s.diskfree, 1) THEN [s EXCEPT !.status = "no_disk_page"]
    ELSE [table |-> [w \in DOMAIN s.table \cup {v} |->
                        IF w = v THEN NewEntry(DiskList!TakenAddr(s.diskfree, 1)) ELSE s.table[w]],
          diskfree |-> DiskList!TakeFirst(s.diskfree, 1),
          status |-> "ok"]

\* The loop starts with s = Adding(pid); the pages added before a failure stay.
Adding(pid) == [table |-> entries[pid], diskfree |-> diskfree, status |-> "ok"]

Added(pid, s) ==
    /\ entries' = [entries EXCEPT ![pid] = s.table]
    /\ diskfree' = s.diskfree
    /\ status' = s.status
    /\ UNCHANGED <<procs, cur, freepids, frames, tlb>>

\* One of the loops over pages: `there` is the status after a page that the
\* process has already.
AddOrSkip(s, v, there) ==
    IF s.status = "ok" /\ v \in DOMAIN s.table
    THEN [s EXCEPT !.status = there] ELSE AddPage(s, v)

AddEach(pid, vs, there) ==
    FoldLeft(LAMBDA s, v : AddOrSkip(s, v, there), Adding(pid), vs)

\* add_vpage: a page that is there already stops the loop.
AddVPages(pid, vs) == pid \in procs /\ Added(pid, AddEach(pid, vs, "throw"))

\* set_vpage_permissions: pages that are not there are added.
SetVPagePermissions(pid, vs) == pid \in procs /\ Added(pid, AddEach(pid, vs, "ok"))

-----------------------------------------------------------------------------
(* access_vpage, by translate_address of a process. *)

TlbHit(pid, v) ==
    LET t == tlb[TlbSlot(v)] IN t.valid /\ t.pid = pid /\ t.vpage = v

\* The translation is in the buffer, and nothing else is looked at.
AccessHit(pid, v) ==
    /\ pid \in procs
    /\ TlbHit(pid, v)
    /\ status' = "ok"
    /\ UNCHANGED <<tables, frames, tlb>>

\* "SIGSEGV".
AccessUnmapped(pid, v) ==
    /\ pid \in procs
    /\ ~TlbHit(pid, v)
    /\ v \notin DOMAIN entries[pid]
    /\ Throw

\* The page is in memory: remember the translation.
AccessResident(pid, v) ==
    /\ pid \in procs
    /\ ~TlbHit(pid, v)
    /\ v \in DOMAIN entries[pid]
    /\ ~entries[pid][v].disk
    /\ tlb' = [tlb EXCEPT ![TlbSlot(v)] =
          [valid |-> TRUE, pid |-> pid, vpage |-> v, ppage |-> entries[pid][v].ppage]]
    /\ status' = "ok"
    /\ UNCHANGED <<tables, frames>>

\* Slip: a page that is in the list gets a second node.
AddLruTwice(list, f) == Append(list, f)

\* add_lru: the page becomes the most recently used one.  The node it has in the
\* list, if any, is moved.
AddLru(list, f) ==
    LET at == {i \in 1 .. Len(list) : list[i] = f}
    IN  Append(IF at = {} THEN list ELSE RemoveAt(list, Min(at)), f)

\* Slip: a page that ever held a virtual page counts as mapped.
PushedOnce(f, r) == IF mapped[f] = {} THEN [mapped EXCEPT ![f] = {r}] ELSE mapped

\* mapped_vpages.push_back
Pushed(f, r) == [mapped EXCEPT ![f] = @ \cup {r}]

Fault(pid, v) ==
    /\ pid \in procs
    /\ ~TlbHit(pid, v)
    /\ v \in DOMAIN entries[pid]
    /\ entries[pid][v].disk

\* map_vpage_to_ppage: the disk page is read and given back, and the virtual page is
\* in physical page f.  ents and list are the page tables and the free disk pages.
MapVPageToPPage(pid, v, f, ents, list) ==
    /\ diskfree' = DiskList!ReturnBlock(list, ents[pid][v].diskpage, 1).blocks
    /\ entries' = [ents EXCEPT ![pid][v] = [@ EXCEPT !.ppage = f, !.disk = FALSE]]
    /\ mapped' = Pushed(f, <<pid, v>>)
    /\ used' = [used EXCEPT ![f] = TRUE]
    /\ lru' = AddLru(lru, f)
    /\ status' = "ok"
    /\ UNCHANGED <<procs, cur, freepids, tlb>>

\* The virtual page moves to the first free physical page.
PageIn(pid, v) ==
    /\ Fault(pid, v)
    /\ FrameList!CanFit(freelist, 1)
    /\ freelist' = FrameList!TakeFirst(freelist, 1) /\ UNCHANGED misplaced
    /\ MapVPageToPPage(pid, v, FrameList!TakenAddr(freelist, 1), entries, diskfree)

\* A list of free disk pages after get_free_page was called n times.
AfterPages(free, n) ==
    FoldSet(LAMBDA i, list : IF DiskList!CanFit(list, 1) THEN DiskList!TakeFirst(list, 1)
                             ELSE list,
            free, 1 .. n)

\* evict_ppage gives each of the mapped_vpages of a physical page a disk page, the
\* dangling pointers first: they were pushed earlier.  It then clears mapped_vpages
\* and asks for the first of them, which throws std::out_of_range, unless the disk
\* ran out of pages, which throws earlier.
EvictPPage(f, ents, free) ==
    /\ used' = [used EXCEPT ![f] = FALSE]
    /\ \E dangling \in IF Freed \in mapped[f] THEN 1 .. NDiskPages ELSE {0},
          r \in {s \in mapped[f] : mapped[f] \ {Freed} = {s}} :
          LET list == AfterPages(free, dangling)
              room == DiskList!CanFit(list, 1)
              page == IF room THEN DiskList!TakenAddr(list, 1) ELSE ents[r[1]][r[2]].diskpage
              t == tlb[TlbSlot(r[2])]
          IN  /\ entries' = [ents EXCEPT ![r[1]][r[2]] =
                    [@ EXCEPT !.disk = TRUE, !.diskpage = page]]
              /\ tlb' = IF room /\ t.valid /\ t.ppage = f /\ t.vpage = r[2]
                        THEN [tlb EXCEPT ![TlbSlot(r[2])] = [t EXCEPT !.valid = FALSE]]
                        ELSE tlb
              /\ diskfree' = AfterPages(free, dangling + 1)
              /\ mapped' = IF room THEN [mapped EXCEPT ![f] = {}] ELSE mapped
              /\ status' = IF room THEN "out_of_range" ELSE "no_disk_page"
    /\ UNCHANGED <<procs, cur, freepids, freelist, misplaced>>

\* The same when there is not one virtual page in the page, but none or several, which takes
\* a page that remove_block misplaced.
EvictMisplaced(f) ==
    /\ \A r \in mapped[f] : mapped[f] \ {Freed} # {r}
    /\ status' \in {"out_of_range", "no_disk_page"}
    /\ UNCHANGED <<tables, frames, tlb>>

\* The least recently used page makes room.
Evict(pid, v) ==
    /\ Fault(pid, v)
    /\ ~FrameList!CanFit(freelist, 1)
    /\ lru' = Tail(lru)
    /\ EvictPPage(Head(lru), entries, diskfree)

EvictThrows(pid, v) ==
    /\ Fault(pid, v)
    /\ ~FrameList!CanFit(freelist, 1)
    /\ EvictMisplaced(Head(lru))

-----------------------------------------------------------------------------
(* ensure_physical_page_mapping: page p of a process should be physical    *)
(* page p.  Only a module that composes this one takes these steps.        *)

\* The number compared is the last one, also for a page on disk.
EnsureMapped(pid, p) ==
    /\ pid \in procs /\ p \in DOMAIN entries[pid] /\ entries[pid][p].ppage = p
    /\ status' = "ok"
    /\ UNCHANGED <<tables, frames, tlb>>

\* map_ppage calls add_vpage with the page for its process id and 1 for the page.
PageForPid == 1
AddsForPid(p) == p \in procs /\ PageForPid \notin DOMAIN entries[p]

EnsureRefused(pid, p) ==
    /\ pid \in procs => IF p \in DOMAIN entries[pid] THEN entries[pid][p].ppage # p ELSE ~AddsForPid(p)
    /\ Throw

\* Slip: the physical page stays in the list of free ones.
SlipTaken(p) == freelist
Taken(p) == FrameList!RemoveBlock(freelist, p, 1).blocks

\* Whether remove_block removes what it is asked to remove.  When the physical page does not
\* begin its block, it leaves that page in the list and loses others.
RemovesExactly(p) ==
    FrameList!FreeSet(FrameList!RemoveBlock(freelist, p, 1).blocks) = FrameList!FreeSet(freelist) \ {p}

\* What map_ppage does once it has added a page.  A page in use it evicts; any other it removes
\* from the list, where it need not be found.  It then looks its own page up, which throws
\* std::out_of_range unless that happens to be the page added.
MapPPage(pid, p) ==
    LET added == AddPage(Adding(p), PageForPid)
        ents == [entries EXCEPT ![p] = added.table]
        removed == FrameList!RemoveBlock(freelist, p, 1).status = "ok"
        ends(how) == /\ entries' = ents /\ diskfree' = added.diskfree /\ status' = how
                     /\ UNCHANGED <<procs, cur, freepids, used, mapped, lru, tlb, misplaced>>
    IN  /\ pid \in procs /\ p \notin DOMAIN entries[pid] /\ AddsForPid(p)
        /\ \/ added.status # "ok" /\ ends(added.status) /\ UNCHANGED freelist
           \/ added.status = "ok" /\ used[p] /\ EvictPPage(p, ents, added.diskfree) /\ UNCHANGED lru
           \/ added.status = "ok" /\ used[p] /\ EvictMisplaced(p)
           \/ added.status = "ok" /\ ~used[p] /\ ~removed /\ ends("free_list") /\ UNCHANGED freelist
           \/ /\ added.status = "ok" /\ ~used[p] /\ removed
              /\ freelist' = Taken(p)
              /\ \/ /\ p \in DOMAIN ents[pid] /\ MapVPageToPPage(pid, p, p, ents, added.diskfree)
                    /\ misplaced' = IF RemovesExactly(p) THEN misplaced ELSE misplaced \cup {p}
                 \/ p \notin DOMAIN ents[pid] /\ ends("out_of_range")

-----------------------------------------------------------------------------

Init ==
    /\ procs = {}
    /\ cur = NoProcess
    /\ entries = [p \in Pids |-> EmptyTable]
    /\ freepids = PidList!InitialBlocks(TRUE)
    /\ freelist = FrameList!InitialBlocks(TRUE)
    /\ diskfree = DiskList!InitialBlocks(TRUE)
    /\ used = [f \in Frames |-> FALSE]
    /\ mapped = [f \in Frames |-> {}]
    /\ lru = <<>>
    /\ tlb = [i \in 0 .. TlbSize - 1 |->
                [valid |-> FALSE, pid |-> NoProcess, vpage |-> 0, ppage |-> 0]]
    /\ status = "ok"
    /\ misplaced = {}

\* A caller asks for consecutive pages.
RunOf(lo, hi) == [i \in 1 .. hi - lo + 1 |-> lo + i - 1]
Ranges == {RunOf(r[1], r[2]) : r \in {q \in VPages \X VPages : q[1] <= q[2]}}

Access(pid, v) ==
    \/ AccessHit(pid, v)
    \/ AccessUnmapped(pid, v)
    \/ AccessResident(pid, v)
    \/ PageIn(pid, v)
    \/ Evict(pid, v)

Next ==
    /\ Alive
    /\ \/ BeginProcess
       \/ BeginThrows
       \/ \E pid \in Pids :
             \/ SetProcess(pid)
             \/ EndProcess(pid)
             \/ InvalidPid(pid)
             \/ \E vs \in Ranges : AddVPages(pid, vs) \/ SetVPagePermissions(pid, vs)
             \/ \E v \in VPages : Access(pid, v)

Spec == Init /\ [][Next]_vars

-----------------------------------------------------------------------------
(* Properties. *)

\* The values the variables take.
TypeOK ==
    /\ procs \subseteq Pids /\ cur \in procs \cup {NoProcess}
    /\ entries \in [Pids -> PageTable]
    /\ freepids \in Seq(PidList!FreeBlock)
    /\ freelist \in Seq(FrameList!FreeBlock)
    /\ diskfree \in Seq(DiskList!FreeBlock)
    /\ used \in [Frames -> BOOLEAN]
    /\ mapped \in [Frames -> SUBSET ((Pids \X VPages) \cup {Freed})]
    /\ lru \in Seq(Frames)
    /\ tlb \in [0 .. TlbSize - 1 -> TlbEntry]
    /\ status \in {"ok", "throw", "no_disk_page", "out_of_range", "free_list"}
    /\ misplaced \subseteq Frames

\* The virtual pages of all processes, those in memory and those on disk.
AllPages == {r \in Pids \X VPages : r[2] \in DOMAIN entries[r[1]]}
EntryOf(r) == entries[r[1]][r[2]]
Resident == {r \in AllPages : ~EntryOf(r).disk}
OnDisk == AllPages \ Resident

\* No physical page serves two virtual pages, none is lost, and `used` says
\* which are taken, whatever order processes end and fault in.
FramesAccounted ==
    Alive =>
        /\ \A r, s \in Resident : EntryOf(r).ppage = EntryOf(s).ppage => r = s
        /\ {EntryOf(r).ppage : r \in Resident} = {f \in Frames : used[f]}
        /\ FrameList!FreeSet(freelist) = {f \in Frames : ~used[f]}

\* The same of the disk pages behind virtual pages not in memory and of the
\* process ids, also after a call that failed half way.
NumbersAccounted ==
    Alive =>
        /\ \A r, s \in OnDisk : EntryOf(r).diskpage = EntryOf(s).diskpage => r = s
        /\ DiskList!FreeSet(diskfree) = DiskPages \ {EntryOf(r).diskpage : r \in OnDisk}
        /\ PidList!FreeSet(freepids) = Pids \ procs

\* The page eviction would pick has a live virtual page in it ("there MUST be
\* a mapped vpage or else we should not be evicting this ppage",
\* virtual_memory.cpp:419), though pages freed by end_process stay in the list.
VictimMapped ==
    Alive /\ ~FrameList!CanFit(freelist, 1) =>
        /\ lru # <<>>
        /\ \E r \in mapped[Head(lru)] \cap Resident : EntryOf(r).ppage = Head(lru)

\* The LRU list holds every page in use, once (check_lru).
LruComplete ==
    Alive => /\ IsInjective(lru)
             /\ {f \in Frames : used[f]} \subseteq Range(lru)

\* A translation in the buffer is the one the page table of its process gives
\* ("Converts a virtual address into a physical address of the process
\* specified by the process id", virtual_memory.h:230).
TlbAgrees ==
    \A i \in DOMAIN tlb :
        LET t == tlb[i] IN
        t.valid /\ t.pid \in procs =>
            /\ <<t.pid, t.vpage>> \in Resident
            /\ EntryOf(<<t.pid, t.vpage>>).ppage = t.ppage

=============================================================================
