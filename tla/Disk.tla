-------------------------------- MODULE Disk --------------------------------
(***************************************************************************)
(* Class Disk (disk.h, disk.cpp): pages kept in a file behind a direct-    *)
(* mapped write-back cache, and the list of pages not in use, saved in a   *)
(* second file (".info") when the emulator is destroyed.  ERROR ends the   *)
(* process without destroying anything, so a run may end without a save;   *)
(* the next run constructs the Disk again from the two files.              *)
(*                                                                         *)
(* CacheNext has the operations on data, PagesNext those on the list of    *)
(* free pages; the two touch disjoint state and share the end of a run,    *)
(* the save and the next run.                                              *)
(***************************************************************************)
EXTENDS SequencesExt, Integers

CONSTANTS
    NPages,         \* m_npages
    PageSize,       \* PAGE_SIZE
    CacheSize,      \* AEMU_DISK_CACHE_SIZE
    Byte,           \* values of a byte
    Sizes,          \* n_bytes of read_val and write_val: 1, 2 and 4
    WordMod         \* 2^32

ASSUME DiskAssumption ==
    /\ NPages \in Nat \ {0} /\ PageSize \in Nat \ {0} /\ CacheSize \in Nat \ {0}
    /\ 0 \in Byte
    /\ Sizes \subseteq 1 .. PageSize
    /\ WordMod \in Nat /\ NPages * PageSize < WordMod

VARIABLES
    cache,          \* m_cache
    file,           \* the pages of m_diskfile
    blocks,         \* m_free_list
    info,           \* m_diskfile_manager: the list last saved
    used,           \* pages handed out in this run and not returned
    phase,          \* "on"; "saving" between the two files; "saved", "crashed"
                    \* and "dead" when there is no process
    reply,          \* answer to the last call
    torn            \* history: pages an access across two slots has damaged in
                    \* this run; the code keeps no such thing

dataVars == <<cache, file>>
pageVars == <<blocks, used>>
vars == <<cache, file, blocks, info, used, phase, reply, torn>>

FB == INSTANCE FreeBlocksProofs WITH Begin <- 0, Extent <- NPages

Pages == 0 .. NPages - 1
Slots == 0 .. CacheSize - 1
PageData == [1 .. PageSize -> Byte]
PageOf(a) == a \div PageSize
OffsetOf(a) == a % PageSize
ZeroPage == [o \in 1 .. PageSize |-> 0]

CachePage == [page : Pages, data : PageData, dirty : BOOLEAN, valid : BOOLEAN]
EmptyPage == [page |-> 0, data |-> ZeroPage, dirty |-> FALSE, valid |-> FALSE]

\* The .info file: until the first save it has no magic header.
InfoFile == [header : BOOLEAN, blocks : Seq(FB!FreeBlock)]
NoInfo == [header |-> FALSE, blocks |-> <<>>]

Done == [status |-> "ok", bytes |-> <<>>]
Threw == [status |-> "throw", bytes |-> <<>>]

-----------------------------------------------------------------------------
(* The cache.  An access is a record of the cache and the file as it goes   *)
(* along, and whether the process survived.                                 *)

\* The page number is shifted as if it were an address, so that the pages of
\* a whole group of PageSize share one slot.
Slot(p) == (p \div PageSize) % CacheSize

\* write_cpage, when the slot about to be reused is dirty.
Flushed(f, c) == IF c.valid /\ c.dirty THEN [f EXCEPT ![c.page] = c.data] ELSE f

\* Slip: the slot is retagged before its old page is written back.
FetchRetagsFirst(s, p) ==
    LET i == Slot(p)
        c == s.cache[i]
        f == IF p \in Pages THEN Flushed(s.file, [c EXCEPT !.page = p]) ELSE s.file
        fetched == [page |-> p, data |-> f[p], dirty |-> c.dirty, valid |-> TRUE]
    IN  IF c.valid /\ c.page = p THEN s
        ELSE IF p \in Pages
             THEN [cache |-> [s.cache EXCEPT ![i] = fetched], file |-> f, ok |-> TRUE]
             ELSE [cache |-> s.cache, file |-> f, ok |-> FALSE]

\* Slip: a failed read is logged, and the slot keeps the tag.
FetchGoesOn(s, p) ==
    LET i == Slot(p)
        c == s.cache[i]
        f == Flushed(s.file, c)
        fetched == [page |-> p, data |-> IF p \in Pages THEN f[p] ELSE c.data,
                    dirty |-> c.dirty, valid |-> TRUE]
    IN  IF c.valid /\ c.page = p THEN s
        ELSE [cache |-> [s.cache EXCEPT ![i] = fetched], file |-> f, ok |-> TRUE]

\* get_cpage: bring page p into its slot.  The dirty flag of the slot is kept.
\* Past the end of the file the read fails, and ERROR ends the process.
Fetch(s, p) ==
    LET i == Slot(p)
        c == s.cache[i]
        f == Flushed(s.file, c)
        fetched == [page |-> p, data |-> f[p], dirty |-> c.dirty, valid |-> TRUE]
    IN  IF c.valid /\ c.page = p THEN s
        ELSE IF p \in Pages
             THEN [cache |-> [s.cache EXCEPT ![i] = fetched], file |-> f, ok |-> TRUE]
             ELSE [cache |-> s.cache, file |-> f, ok |-> FALSE]

\* cpage = get_cpage(p): cpage refers to slot `at`, so the assignment copies
\* the fetched page over that slot.  When p has a slot of its own, what slot
\* `at` had is lost, and p is in two slots.
FetchInto(s, at, p) ==
    LET t == Fetch(s, p)
    IN  [t EXCEPT !.cache[at] = t.cache[Slot(p)]]

\* cpage.dirty = true, and cpage.data[o] = b.
Touch(s, at) == [s EXCEPT !.cache[at].dirty = TRUE]
Put(s, at, o, b) == [s EXCEPT !.cache[at].data[o + 1] = b]

Now == [cache |-> cache, file |-> file, ok |-> TRUE]

\* read_val, from the last byte to the first; out collects the bytes.
ReadVal(a, n) ==
    LET last == a + n - 1
        at == Slot(PageOf(last))
        walk[k \in 0 .. n] ==
            IF k = 0
            THEN [s |-> Fetch(Now, PageOf(last)), out |-> <<>>]
            ELSE LET b == a + n - k
                     w == walk[k - 1]
                     s == IF k > 1 /\ OffsetOf(b) = PageSize - 1
                          THEN FetchInto(w.s, at, PageOf(b)) ELSE w.s
                 IN  IF w.s.ok
                     THEN [s |-> s,
                           out |-> <<s.cache[at].data[OffsetOf(b) + 1]>> \o w.out]
                     ELSE w
    IN  walk[n]

\* write_val of the bytes of val, least significant first.
WriteVal(a, bytes) ==
    LET at == Slot(PageOf(a))
        walk[k \in 0 .. Len(bytes)] ==
            IF k = 0
            THEN Touch(Fetch(Now, PageOf(a)), at)
            ELSE LET b == a + k - 1
                     w == walk[k - 1]
                     s == IF k > 1 /\ OffsetOf(b) = 0
                          THEN Touch(FetchInto(w, at, PageOf(b)), at) ELSE w
                 IN  IF w.ok /\ s.ok THEN Put(s, at, OffsetOf(b), bytes[k])
                     ELSE [s EXCEPT !.ok = FALSE]
    IN  walk[Len(bytes)]

-----------------------------------------------------------------------------
(* Operations on data. *)

\* How an access that damages the pages `lost` ends: with the answer r, or with
\* the process.
Finish(s, r, lost) ==
    /\ torn' = IF s.ok THEN torn \cup lost ELSE {}
    /\ cache' = IF s.ok THEN s.cache ELSE [i \in Slots |-> EmptyPage]
    /\ file' = s.file
    /\ phase' = IF s.ok THEN "on" ELSE "crashed"
    /\ reply' = IF s.ok THEN r ELSE Done
    /\ used' = IF s.ok THEN used ELSE {}
    /\ UNCHANGED <<blocks, info>>

\* The vector has PAGE_SIZE zeros before the bytes are pushed behind them.
PageReply(data) == [status |-> "ok", bytes |-> ZeroPage \o data]

ReadPage(p) ==
    LET s == Fetch(Now, p) IN
    /\ phase = "on"
    /\ Finish(s, PageReply(s.cache[Slot(p)].data), {})

\* Slip: the page is not marked dirty.
WritePageStaysClean(p, bytes) ==
    LET s == Fetch(Now, p)
        i == Slot(p)
        written == [page |-> p, data |-> bytes, dirty |-> s.cache[i].dirty, valid |-> TRUE]
    IN
    /\ phase = "on"
    /\ Len(bytes) = PageSize
    /\ Finish([s EXCEPT !.cache[i] = written], Done, {})

WritePage(p, bytes) ==
    LET s == Fetch(Now, p)
        written == [page |-> p, data |-> bytes, dirty |-> TRUE, valid |-> TRUE]
    IN
    /\ phase = "on"
    /\ Len(bytes) = PageSize
    /\ Finish([s EXCEPT !.cache[Slot(p)] = written], Done, {})

\* DiskWriteException: a vector of another size, as read_page returns them.
WritePageThrows(bytes) ==
    /\ phase = "on"
    /\ Len(bytes) # PageSize
    /\ reply' = Threw
    /\ UNCHANGED <<dataVars, pageVars, info, phase, torn>>

\* The pages an access damages, when its two pages have slots of their own: it
\* crosses from one group of PageSize pages (16 MiB in the code) to the next.
Straddled(a, n) ==
    LET first == PageOf(a)
        last == PageOf(a + n - 1)
    IN  IF Slot(first) = Slot(last) THEN {} ELSE {first, last}

ReadBytes(a, n) ==
    LET r == ReadVal(a, n) IN
    /\ phase = "on"
    /\ Finish(r.s, [status |-> "ok", bytes |-> r.out], Straddled(a, n))

WriteBytes(a, bytes) ==
    /\ phase = "on"
    /\ Finish(WriteVal(a, bytes), Done, Straddled(a, Len(bytes)))

-----------------------------------------------------------------------------
(* Operations on the list of free pages. *)

GetFreePage ==
    /\ phase = "on"
    /\ FB!CanFit(blocks, 1)
    /\ blocks' = FB!TakeFirst(blocks, 1)
    /\ used' = used \cup {FB!TakenAddr(blocks, 1)}
    /\ UNCHANGED <<dataVars, info, phase, reply, torn>>

\* get_free_page with nothing free: the exception passes VirtualMemory and
\* SystemBus, nothing catches it, and the process ends.
GetFreePageThrows ==
    /\ phase = "on"
    /\ ~FB!CanFit(blocks, 1)
    /\ phase' = "crashed"
    /\ cache' = [i \in Slots |-> EmptyPage]
    /\ used' = {}
    /\ torn' = {}
    /\ UNCHANGED <<file, blocks, info, reply>>

ReturnPage(p) ==
    LET r == FB!ReturnBlock(blocks, p, 1) IN
    /\ phase = "on"
    /\ p \in used
    /\ blocks' = r.blocks
    /\ used' = IF r.status = "ok" THEN used \ {p} ELSE used
    /\ UNCHANGED <<dataVars, info, phase, reply, torn>>

ReturnAllPages ==
    /\ phase = "on"
    /\ blocks' = FB!InitialBlocks(TRUE)
    /\ used' = {}
    /\ UNCHANGED <<dataVars, info, phase, reply, torn>>

\* Slip: the page after hi is returned too.
ReturnPagesPastHi(lo, hi) ==
    /\ phase = "on"
    /\ lo <= hi
    /\ blocks' = FB!ForceReturnBlock(blocks, lo, hi - lo + 2).blocks
    /\ used' = used \ (lo .. hi)
    /\ UNCHANGED <<dataVars, info, phase, reply, torn>>

\* return_pages: some of the pages may be free already.
ReturnPages(lo, hi) ==
    /\ phase = "on"
    /\ lo <= hi
    /\ blocks' = FB!ForceReturnBlock(blocks, lo, hi - lo + 1).blocks
    /\ used' = used \ (lo .. hi)
    /\ UNCHANGED <<dataVars, info, phase, reply, torn>>

-----------------------------------------------------------------------------
(* The end of a run and the next one. *)

\* Slip: the loop stops before the last slot.
SaveFileSkipsLast ==
    /\ phase = "on"
    /\ file' = [p \in Pages |->
          LET S == {i \in 0 .. CacheSize - 2 :
                       cache[i].valid /\ cache[i].dirty /\ cache[i].page = p}
          IN  IF S = {} THEN file[p] ELSE cache[Max(S)].data]
    /\ phase' = "saving"
    /\ UNCHANGED <<cache, blocks, info, used, reply, torn>>

\* save, first half: the slots in order, each to its place in the file.
SaveFile ==
    /\ phase = "on"
    /\ file' = [p \in Pages |->
          LET S == {i \in Slots : cache[i].valid /\ cache[i].dirty /\ cache[i].page = p}
          IN  IF S = {} THEN file[p] ELSE cache[Max(S)].data]
    /\ phase' = "saving"
    /\ UNCHANGED <<cache, blocks, info, used, reply, torn>>

\* save, second half: the .info file, after which the Disk is destroyed.
SaveInfo ==
    /\ phase = "saving"
    /\ info' = [header |-> TRUE, blocks |-> blocks]
    /\ phase' = "saved"
    /\ cache' = [i \in Slots |-> EmptyPage]
    /\ used' = {}
    /\ torn' = {}
    /\ reply' = Done
    /\ UNCHANGED <<file, blocks>>

\* The process ends without, or half way through, a save.
Crash ==
    /\ phase \in {"on", "saving"}
    /\ phase' = "crashed"
    /\ cache' = [i \in Slots |-> EmptyPage]
    /\ used' = {}
    /\ torn' = {}
    /\ reply' = Done
    /\ UNCHANGED <<file, blocks, info>>

\* Slip: the second word of a block is taken for its end.
ReloadTakesEnds(saveFile) ==
    LET saved == saveFile.blocks
        load[k \in 0 .. Len(saved)] ==
            IF k = 0 THEN [status |-> "ok", blocks |-> <<>>]
            ELSE IF load[k - 1].status = "ok"
                 THEN FB!ReturnBlock(load[k - 1].blocks, saved[k].addr,
                                     FB!Minus(saved[k].len, saved[k].addr))
                 ELSE load[k - 1]
    IN  IF saveFile.header THEN load[Len(saved)] ELSE FB!ReturnBlock(<<>>, 0, NPages)

\* read_disk_manager_file: the saved blocks are returned one by one to a list
\* that starts empty; without a header the whole range is.
Reload(saveFile) ==
    LET saved == saveFile.blocks
        load[k \in 0 .. Len(saved)] ==
            IF k = 0 THEN [status |-> "ok", blocks |-> <<>>]
            ELSE IF load[k - 1].status = "ok"
                 THEN FB!ReturnBlock(load[k - 1].blocks, saved[k].addr, saved[k].len)
                 ELSE load[k - 1]
    IN  IF saveFile.header THEN load[Len(saved)] ELSE FB!ReturnBlock(<<>>, 0, NPages)

\* The constructor.  read_disk_files opens the file for output without
\* ios::in, which empties it, and pads it with zeros.
Restart ==
    LET r == Reload(info) IN
    /\ phase \in {"saved", "crashed"}
    /\ blocks' = r.blocks
    /\ file' = IF r.status = "ok" THEN [p \in Pages |-> ZeroPage] ELSE file
    /\ phase' = IF r.status = "ok" THEN "on" ELSE "dead"
    /\ UNCHANGED <<cache, info, used, reply, torn>>

-----------------------------------------------------------------------------

Init ==
    /\ cache = [i \in Slots |-> EmptyPage]
    /\ file = [p \in Pages |-> ZeroPage]
    /\ blocks = FB!InitialBlocks(TRUE)
    /\ info = NoInfo
    /\ used = {}
    /\ phase = "on"
    /\ reply = Done
    /\ torn = {}

Addresses == 0 .. NPages * PageSize - 1

EndOfRun == SaveFile \/ SaveInfo \/ Crash \/ Restart

CacheNext ==
    \/ \E p \in Pages \cup {NPages} : ReadPage(p)
    \/ \E p \in Pages, bytes \in PageData : WritePage(p, bytes)
    \/ \E data \in PageData : WritePageThrows(PageReply(data).bytes)
    \/ \E a \in Addresses, n \in Sizes : ReadBytes(a, n)
    \/ \E a \in Addresses, n \in Sizes :
          \E bytes \in [1 .. n -> Byte] : WriteBytes(a, bytes)
    \/ EndOfRun

CacheSpec == Init /\ [][CacheNext]_vars

PagesNext ==
    \/ GetFreePage
    \/ GetFreePageThrows
    \/ \E p \in Pages : ReturnPage(p)
    \/ ReturnAllPages
    \/ \E lo, hi \in Pages : ReturnPages(lo, hi)
    \/ EndOfRun

PagesSpec == Init /\ [][PagesNext]_vars

-----------------------------------------------------------------------------
(* Properties. *)

\* The values the variables take.
TypeOK ==
    /\ cache \in [Slots -> CachePage]
    /\ file \in [Pages -> PageData]
    /\ blocks \in Seq(FB!FreeBlock)
    /\ info \in InfoFile
    /\ used \subseteq Pages
    /\ phase \in {"on", "saving", "saved", "crashed", "dead"}
    /\ reply.status \in {"ok", "throw"} /\ reply.bytes \in Seq(Byte)
    /\ torn \subseteq Pages

\* The bytes of a page, wherever they are.
Contents ==
    [p \in Pages |->
        LET c == cache[Slot(p)] IN IF c.valid /\ c.page = p THEN c.data ELSE file[p]]

\* A slot that is not dirty holds what the file holds: get_cpage may drop it
\* without a write (disk.cpp:303-309), and no page sits in a wrong slot.  Only
\* an access across two slots damages that (disk.cpp:217, 278), and only for
\* the two pages it is about.
CacheConsistent ==
    \A i \in Slots : cache[i].valid /\ cache[i].page \notin torn =>
        /\ Slot(cache[i].page) = i
        /\ ~cache[i].dirty => cache[i].data = file[cache[i].page]

\* save writes every page that differs from the file, whatever evictions and
\* write-backs came before (disk.cpp:375-412), except the damaged ones.
SaveComplete ==
    phase = "saving" => \A p \in Pages \ torn : file[p] = Contents[p]

\* Within a run the disk answers like a plain array of bytes, for all pages but
\* those an access across two slots has damaged: cache misses, write-backs and
\* accesses across a page boundary are invisible.  PageStore says what the two
\* departures are (the damaged pages, and the size of what read_page returns).
Store ==
    INSTANCE PageStore WITH
        mem <- IF phase \in {"on", "saving"} THEN Contents
               ELSE [p \in Pages |-> ZeroPage]

StoreSpec == Store!Spec

\* A free page is never in use in the running process, after any number of
\* saves, crashes and restarts.
PagesExclusive == FB!SoundList(blocks) /\ FB!FreeSet(blocks) \cap used = {}

\* The constructor accepts whatever list a save wrote, and makes no page free
\* that the saved list did not offer.
OffersNoMore(saved) ==
    saved.header => FB!FreeSet(blocks) \subseteq FB!FreeSet(saved.blocks)

RestartSafe ==
    [][(phase \in {"saved", "crashed"}) => (phase' = "on" /\ OffersNoMore(info)')]_vars

\* Data survive from one run to the next ("maintain data across
\* utilizations", disk.h:31).
DataSurvives ==
    [][phase = "saved" /\ phase' = "on" => file' = file]_vars

\* So does the list of free pages ("Saves both the disk file and free page
\* management to file", disk.h:217).
FreePagesSurvive ==
    [][phase = "saved" /\ phase' = "on" =>
          FB!FreeSet(blocks') = FB!FreeSet(info.blocks)]_vars

=============================================================================
