----------------------------- MODULE DiskProofs -----------------------------
(***************************************************************************)
(* What Disk guarantees for every number of pages, page size and cache     *)
(* size: its list of free pages over any number of runs, its cache, and    *)
(* that within one run it is the array of bytes of PageStore.              *)
(***************************************************************************)
EXTENDS Disk, DataLemmas

LEMMA FBRange == FB!RangeAssumption
<1>1. NPages < WordMod
  <2>1. NPages * PageSize >= NPages
    BY DiskAssumption
  <2>. QED  BY <2>1, DiskAssumption
<1>. QED  BY <1>1, DiskAssumption DEF FB!RangeAssumption

LEMMA FBSpan == FB!Span(0, NPages) = Pages
BY DiskAssumption DEF FB!Span, Pages

\* A list of pages as insert and coalesce take it for granted.
PageList(bs) == bs \in Seq(FB!FreeBlock) /\ FB!SoundList(bs)

LEMMA FreePages ==
    ASSUME NEW bs, PageList(bs)
    PROVE  FB!FreeSet(bs) \subseteq Pages
<1>1. bs \in Seq(FB!FreeBlock) /\ FB!SoundList(bs)
  BY DEF PageList
<1>. QED  BY <1>1, FBRange, FBSpan, FB!FreeInRange

LEMMA EmptyList == PageList(<<>>) /\ FB!FreeSet(<<>>) = {}
BY DEF PageList, FB!SoundList, FB!FreeSet

LEMMA AllPages ==
    PageList(FB!InitialBlocks(TRUE)) /\ FB!FreeSet(FB!InitialBlocks(TRUE)) = Pages
BY FBRange, FBSpan, FB!FullList DEF PageList

\* A call that returns a range none of which is free.
LEMMA ReturnPagesFacts ==
    ASSUME NEW bs, PageList(bs), NEW a \in Nat, NEW n \in Nat \ {0}, a + n <= NPages,
           FB!Span(a, n) \cap FB!FreeSet(bs) = {}
    PROVE  LET r == FB!ReturnBlock(bs, a, n)
           IN  /\ r = [status |-> "ok", blocks |-> r.blocks]
               /\ PageList(r.blocks)
               /\ FB!FreeSet(r.blocks) \subseteq FB!FreeSet(bs) \cup FB!Span(a, n)
<1>1. bs \in Seq(FB!FreeBlock) /\ FB!SoundList(bs)
  BY DEF PageList
<1>2. a \in Int /\ 0 <= a /\ a + n <= 0 + NPages
  BY DiskAssumption
<1>. DEFINE r == FB!ReturnBlock(bs, a, n)
<1>3. /\ r.status = "ok" /\ r.blocks \in Seq(FB!FreeBlock) /\ FB!SoundList(r.blocks)
      /\ FB!FreeSet(r.blocks) \subseteq FB!FreeSet(bs) \cup FB!Span(a, n)
  BY <1>1, <1>2, FBRange, FB!ReturnBlockFacts
<1>4. r = [status |-> r.status, blocks |-> r.blocks]
  BY DEF FB!ReturnBlock
<1>. QED  BY <1>3, <1>4 DEF PageList

-----------------------------------------------------------------------------
(* The list of free pages over many runs. *)

\* The constructor gets back a list it can work with from any list a save
\* wrote: every block of it is returned to a list that has only earlier ones.
LEMMA ReloadFacts ==
    ASSUME NEW f \in InfoFile, FB!SoundList(f.blocks)
    PROVE  LET r == Reload(f)
           IN  /\ r.status = "ok" /\ PageList(r.blocks)
               /\ f.header => FB!FreeSet(r.blocks) \subseteq FB!FreeSet(f.blocks)
<1>. DEFINE saved == f.blocks
            N == Len(saved)
            fresh == [status |-> "ok", blocks |-> <<>>]
            body(g) == [k \in 0 .. N |->
               IF k = 0 THEN fresh
               ELSE IF g[k - 1].status = "ok"
                    THEN FB!ReturnBlock(g[k - 1].blocks, saved[k].addr, saved[k].len)
                    ELSE g[k - 1]]
            load == CHOOSE g : g = body(g)
            Loads == [status : {"ok"}, blocks : Seq(FB!FreeBlock)]
            Upto(k) == UNION {FB!Span(saved[j].addr, saved[j].len) : j \in 1 .. k}
            R == [k \in 0 .. N |-> {s \in Loads : /\ FB!SoundList(s.blocks)
                                                  /\ FB!FreeSet(s.blocks) \subseteq Upto(k)}]
            step == [ks \in (1 .. N) \X Loads |->
               FB!ReturnBlock(ks[2].blocks, saved[ks[1]].addr, saved[ks[1]].len)]
<1>1. /\ saved \in Seq(FB!FreeBlock) /\ N \in Nat
      /\ \A j \in 1 .. N : /\ saved[j].addr \in Nat /\ saved[j].len \in Nat \ {0}
                           /\ saved[j].addr + saved[j].len <= NPages
  <2>1. saved \in Seq(FB!FreeBlock)
    BY DEF InfoFile
  <2>2. \A j \in 1 .. N : saved[j].addr \in FB!Word /\ saved[j].len \in FB!Word
    BY <2>1, FBRange, FB!BlockWords
  <2>3. \A j \in 1 .. N : saved[j].len >= 1 /\ saved[j].addr + saved[j].len <= 0 + NPages
    BY DEF FB!SoundList
  <2>4. N \in Nat
    BY <2>1, LenProperties
  <2>. QED  BY <2>1, <2>2, <2>3, <2>4, DiskAssumption DEF FB!Word
<1>2. Upto(N) = FB!FreeSet(saved)
  BY DEF FB!FreeSet
<1>3. ASSUME NEW k \in 1 .. N, NEW s \in R[k - 1]
      PROVE  /\ step[<<k, s>>] = FB!ReturnBlock(s.blocks, saved[k].addr, saved[k].len)
             /\ s.status = "ok"
             /\ FB!ReturnBlock(s.blocks, saved[k].addr, saved[k].len) \in R[k]
  <2>1. k - 1 \in 0 .. N /\ k \in 0 .. N
    BY <1>1
  <2>2. /\ s \in Loads /\ FB!SoundList(s.blocks)
        /\ FB!FreeSet(s.blocks) \subseteq Upto(k - 1)
    BY <2>1
  <2>3. PageList(s.blocks)
    BY <2>2 DEF PageList
  <2>4. FB!Span(saved[k].addr, saved[k].len) \cap FB!FreeSet(s.blocks) = {}
    <3>. SUFFICES ASSUME NEW x \in FB!Span(saved[k].addr, saved[k].len), x \in Upto(k - 1)
                  PROVE  FALSE
      BY <2>2
    <3>1. PICK j \in 1 .. k - 1 : x \in FB!Span(saved[j].addr, saved[j].len)
      OBVIOUS
    <3>2. j \in 1 .. N /\ k \in 1 .. N /\ j < k
      BY <1>1
    <3>3. saved[j].addr + saved[j].len <= saved[k].addr
      BY <3>2 DEF FB!SoundList
    <3>4. /\ saved[j].addr \in Nat /\ saved[j].len \in Nat
          /\ saved[k].addr \in Nat /\ saved[k].len \in Nat
      BY <1>1, <3>2
    <3>. HIDE DEF saved, N, Loads, Upto, R, step
    <3>. QED  BY <3>1, <3>3, <3>4 DEF FB!Span
  <2>. DEFINE r == FB!ReturnBlock(s.blocks, saved[k].addr, saved[k].len)
  <2>5. /\ r = [status |-> "ok", blocks |-> r.blocks] /\ PageList(r.blocks)
        /\ FB!FreeSet(r.blocks) \subseteq
              FB!FreeSet(s.blocks) \cup FB!Span(saved[k].addr, saved[k].len)
    BY <1>1, <2>3, <2>4, ReturnPagesFacts
  <2>. HIDE DEF r
  <2>6. Upto(k - 1) \subseteq Upto(k) /\ FB!Span(saved[k].addr, saved[k].len) \subseteq Upto(k)
    BY <1>1
  <2>. HIDE DEF Upto
  <2>7. r.blocks \in Seq(FB!FreeBlock) /\ FB!SoundList(r.blocks)
    BY <2>5 DEF PageList
  <2>8. r \in Loads
    BY <2>5, <2>7
  <2>9. r \in R[k]
    BY <2>1, <2>2, <2>5, <2>6, <2>7, <2>8
  <2>. QED  BY <2>2, <2>9 DEF r
<1>4. fresh \in R[0]
  <2>1. FB!SoundList(<<>>) /\ FB!FreeSet(<<>>) = {}
    BY EmptyList DEF PageList
  <2>2. fresh \in Loads /\ 0 \in 0 .. N
    BY <1>1
  <2>3. fresh.blocks = <<>>
    OBVIOUS
  <2>. HIDE DEF fresh, Loads, Upto
  <2>. QED  BY <2>1, <2>2, <2>3
<1>5. \E g : g = body(g)
  <2>1. LoopWithin(N, R, fresh, step)
    <3>. HIDE DEF R, step, N, saved
    <3>. QED  BY <1>3, <1>4 DEF LoopWithin
  <2>2. PICK g : LoopOf(g, N, fresh, step) /\ \A k \in 0 .. N : g[k] \in R[k]
    <3>. HIDE DEF R, step, N, fresh
    <3>. QED  BY <1>1, <2>1, LoopExists
  <2>3. \A k \in 1 .. N : /\ g[k - 1].status = "ok"
                          /\ step[<<k, g[k - 1]>>] =
                                FB!ReturnBlock(g[k - 1].blocks, saved[k].addr, saved[k].len)
    <3>. HIDE DEF R, step, saved
    <3>1. \A k \in 1 .. N : k - 1 \in 0 .. N
      BY <1>1
    <3>. QED  BY <1>3, <2>2, <3>1
  <2>4. \A k \in 0 .. N : k = 0 \/ k \in 1 .. N
    BY <1>1
  <2>5. g = [k \in 0 .. N |-> IF k = 0 THEN fresh ELSE step[<<k, g[k - 1]>>]]
    BY <2>2 DEF LoopOf
  <2>6. g = body(g)
    <3>. HIDE DEF step, N, saved, fresh
    <3>. QED  BY <2>3, <2>4, <2>5
  <2>. QED  BY <2>6
<1>6. load = body(load)
  <2>. HIDE DEF body
  <2>. QED  BY <1>5
<1>7. \A k \in 0 .. N : load[k] \in R[k]
  <2>. DEFINE T == {k \in 0 .. N : load[k] \in R[k]}
  <2>1. 0 \in T
    <3>1. 0 \in 0 .. N
      BY <1>1
    <3>2. load[0] = fresh
      <4>. HIDE DEF load, N, fresh
      <4>. QED  BY <1>6, <3>1
    <3>. HIDE DEF load, R, N, fresh
    <3>. QED  BY <1>4, <3>1, <3>2
  <2>2. ASSUME NEW k \in 0 .. N - 1, k \in T
        PROVE  k + 1 \in T
    <3>1. k + 1 \in 1 .. N /\ k + 1 \in 0 .. N /\ (k + 1) - 1 = k /\ k + 1 # 0
      BY <1>1
    <3>2. load[k] \in R[(k + 1) - 1]
      BY <2>2, <3>1
    <3>3. load[k].status = "ok"
      BY <1>3, <3>1, <3>2
    <3>4. load[k + 1] = FB!ReturnBlock(load[k].blocks, saved[k + 1].addr, saved[k + 1].len)
      <4>. HIDE DEF load, R, N, saved, fresh
      <4>. QED  BY <1>6, <3>1, <3>3
    <3>5. load[k + 1] \in R[k + 1]
      <4>. HIDE DEF load, R, N, saved
      <4>. QED  BY <1>3, <3>1, <3>2, <3>4
    <3>. QED  BY <3>1, <3>5
  <2>. HIDE DEF T
  <2>3. \A k \in 0 .. N : k \in T
    BY <1>1, <2>1, <2>2, NatInduct
  <2>. QED  BY <2>3 DEF T
<1>8. CASE f.header
  <2>1. Reload(f) = load[N]
    BY <1>8 DEF Reload
  <2>2. N \in 0 .. N
    BY <1>1
  <2>3. load[N] \in R[N]
    <3>. HIDE DEF load, R, N
    <3>. QED  BY <1>7, <2>2
  <2>. HIDE DEF load
  <2>. QED  BY <1>2, <2>1, <2>2, <2>3 DEF PageList
<1>9. CASE ~f.header
  <2>1. Reload(f) = FB!ReturnBlock(<<>>, 0, NPages)
    BY <1>9 DEF Reload
  <2>2. /\ 0 \in Nat /\ NPages \in Nat \ {0} /\ 0 + NPages <= NPages
        /\ PageList(<<>>) /\ FB!Span(0, NPages) \cap FB!FreeSet(<<>>) = {}
    BY EmptyList, DiskAssumption
  <2>. DEFINE r == FB!ReturnBlock(<<>>, 0, NPages)
  <2>3. r = [status |-> "ok", blocks |-> r.blocks] /\ PageList(r.blocks)
    BY <2>2, ReturnPagesFacts
  <2>. HIDE DEF r
  <2>4. r.status = "ok"
    BY <2>3
  <2>. QED  BY <1>9, <2>1, <2>3, <2>4 DEF r
<1>. QED  BY <1>8, <1>9

\* The inductive invariant of the list over the runs.  A page may be in use
\* only while a process runs, so that a constructor, which takes the list of an
\* earlier save, frees nothing that is in use.
PagesInv ==
    /\ PageList(blocks)
    /\ info \in InfoFile /\ FB!SoundList(info.blocks)
    /\ used \subseteq Pages /\ FB!FreeSet(blocks) \cap used = {}
    /\ phase \in {"on", "saving", "saved", "crashed"}
    /\ phase \in {"saved", "crashed"} => used = {}

LEMMA InitPages == Init => PagesInv
<1>1. NoInfo \in InfoFile /\ FB!SoundList(NoInfo.blocks)
  <2>1. <<>> \in Seq(FB!FreeBlock) /\ FB!SoundList(<<>>)
    BY EmptyList DEF PageList
  <2>2. NoInfo.blocks = <<>> /\ NoInfo \in InfoFile
    BY <2>1 DEF NoInfo, InfoFile
  <2>. QED  BY <2>1, <2>2
<1>. QED  BY <1>1, AllPages DEF Init, PagesInv

LEMMA EndOfRunPages ==
    ASSUME PagesInv, EndOfRun
    PROVE  /\ PagesInv'
           /\ phase \in {"saved", "crashed"} => phase' = "on" /\ OffersNoMore(info)'
<1>1. CASE SaveFile
  BY <1>1 DEF SaveFile, PagesInv
<1>2. CASE SaveInfo
  <2>1. /\ blocks \in Seq(FB!FreeBlock) /\ FB!SoundList(blocks)
        /\ info' = [header |-> TRUE, blocks |-> blocks]
    BY <1>2 DEF SaveInfo, PagesInv, PageList
  <2>2. info' \in InfoFile /\ info'.blocks = blocks
    BY <2>1 DEF InfoFile
  <2>. QED  BY <1>2, <2>1, <2>2 DEF SaveInfo, PagesInv
<1>3. CASE Crash
  BY <1>3 DEF Crash, PagesInv
<1>4. CASE Restart
  <2>. DEFINE r == Reload(info)
  <2>1. /\ r.status = "ok" /\ PageList(r.blocks)
        /\ info.header => FB!FreeSet(r.blocks) \subseteq FB!FreeSet(info.blocks)
    BY ReloadFacts DEF PagesInv
  <2>2. blocks' = r.blocks /\ phase' = "on" /\ info' = info /\ used' = used /\ used = {}
    BY <1>4, <2>1 DEF Restart, PagesInv
  <2>. HIDE DEF r
  <2>3. OffersNoMore(info)'
    BY <2>1, <2>2 DEF OffersNoMore
  <2>. QED  BY <2>1, <2>2, <2>3 DEF PagesInv
<1>. QED  BY <1>1, <1>2, <1>3, <1>4 DEF EndOfRun

LEMMA NextPages == PagesInv /\ [PagesNext]_vars => PagesInv'
<1>. SUFFICES ASSUME PagesInv, [PagesNext]_vars
              PROVE  PagesInv'
  OBVIOUS
<1>1. /\ blocks \in Seq(FB!FreeBlock) /\ FB!SoundList(blocks) /\ PageList(blocks)
      /\ used \subseteq Pages /\ FB!FreeSet(blocks) \cap used = {}
  BY DEF PagesInv, PageList
<1>2. CASE GetFreePage
  <2>. DEFINE p == FB!TakenAddr(blocks, 1)
              cs == FB!TakeFirst(blocks, 1)
  <2>1. /\ FB!CanFit(blocks, 1) /\ blocks' = cs /\ used' = used \cup {p}
        /\ UNCHANGED <<info, phase>> /\ phase = "on"
    BY <1>2 DEF GetFreePage
  <2>2. /\ cs \in Seq(FB!FreeBlock) /\ FB!SoundList(cs) /\ p \in FB!Word
        /\ FB!Span(p, 1) \subseteq FB!FreeSet(blocks)
        /\ FB!FreeSet(cs) = FB!FreeSet(blocks) \ FB!Span(p, 1)
    BY <1>1, <2>1, FBRange, FB!TakeFirstFacts
  <2>3. FB!Span(p, 1) = {p}
    <3>1. p \in Int
      BY <2>2, DiskAssumption DEF FB!Word
    <3>. HIDE DEF p
    <3>. QED  BY <3>1 DEF FB!Span
  <2>. HIDE DEF p, cs
  <2>4. p \in Pages
    BY <1>1, <2>2, <2>3, FreePages
  <2>. QED  BY <1>1, <2>1, <2>2, <2>3, <2>4 DEF PagesInv, PageList
<1>3. CASE GetFreePageThrows
  BY <1>3 DEF GetFreePageThrows, PagesInv
<1>4. ASSUME NEW p \in Pages, ReturnPage(p)
      PROVE  PagesInv'
  <2>. DEFINE r == FB!ReturnBlock(blocks, p, 1)
  <2>1. p \in Nat /\ p + 1 <= NPages /\ FB!Span(p, 1) = {p}
    BY DiskAssumption DEF Pages, FB!Span
  <2>2. p \in used /\ p \notin FB!FreeSet(blocks)
    BY <1>1, <1>4 DEF ReturnPage
  <2>3. /\ r = [status |-> "ok", blocks |-> r.blocks] /\ PageList(r.blocks)
        /\ FB!FreeSet(r.blocks) \subseteq FB!FreeSet(blocks) \cup {p}
    <3>1. FB!Span(p, 1) \cap FB!FreeSet(blocks) = {} /\ 1 \in Nat \ {0}
      BY <2>1, <2>2
    <3>. HIDE DEF r
    <3>2. /\ r = [status |-> "ok", blocks |-> r.blocks] /\ PageList(r.blocks)
          /\ FB!FreeSet(r.blocks) \subseteq FB!FreeSet(blocks) \cup FB!Span(p, 1)
      BY <1>1, <2>1, <3>1, ReturnPagesFacts DEF r
    <3>. QED  BY <2>1, <3>2
  <2>4. /\ phase = "on" /\ blocks' = r.blocks /\ UNCHANGED <<info, phase>>
        /\ used' = IF r.status = "ok" THEN used \ {p} ELSE used
    BY <1>4 DEF ReturnPage
  <2>. HIDE DEF r
  <2>5. r.status = "ok"
    BY <2>3
  <2>. QED  BY <1>1, <2>2, <2>3, <2>4, <2>5 DEF PagesInv
<1>5. CASE ReturnAllPages
  BY <1>5, AllPages DEF ReturnAllPages, PagesInv
<1>6. ASSUME NEW lo \in Pages, NEW hi \in Pages, ReturnPages(lo, hi)
      PROVE  PagesInv'
  <2>. DEFINE n == hi - lo + 1
              r == FB!ForceReturnBlock(blocks, lo, n)
  <2>1. lo \in Nat /\ hi \in Nat /\ lo <= hi /\ hi < NPages
    BY <1>6, DiskAssumption DEF Pages, ReturnPages
  <2>2. /\ lo \in Int /\ 0 <= lo /\ n \in Nat \ {0} /\ lo + n <= 0 + NPages
        /\ FB!Span(lo, n) = lo .. hi
    BY <2>1, DiskAssumption DEF FB!Span
  <2>3. /\ phase = "on" /\ blocks' = r.blocks /\ used' = used \ (lo .. hi)
        /\ UNCHANGED <<info, phase>>
    BY <1>6 DEF ReturnPages
  <2>. HIDE DEF n
  <2>4. /\ r.blocks \in Seq(FB!FreeBlock) /\ FB!SoundList(r.blocks)
        /\ FB!FreeSet(r.blocks) \subseteq FB!FreeSet(blocks) \cup FB!Span(lo, n)
    BY <1>1, <2>2, FBRange, FB!ForceReturnBlockFacts
  <2>. HIDE DEF r
  <2>. QED  BY <1>1, <2>2, <2>3, <2>4 DEF PagesInv, PageList
<1>7. CASE EndOfRun
  BY <1>7, EndOfRunPages
<1>8. CASE UNCHANGED vars
  BY <1>8 DEF vars, PagesInv
<1>. QED  BY <1>2, <1>3, <1>4, <1>5, <1>6, <1>7, <1>8 DEF PagesNext

\* No page of the disk is free and in use at once, however many pages are
\* returned by force, and after any number of saves, crashes and restarts.
THEOREM PagesAreExclusive == PagesSpec => []PagesExclusive
<1>1. PagesInv => PagesExclusive
  BY DEF PagesInv, PageList, PagesExclusive
<1>. QED  BY <1>1, InitPages, NextPages, PTL DEF PagesSpec

\* Every list a save wrote is accepted by the constructor that reads it
\* (return_block throws on an overlap, disk.cpp:89-114), and no page becomes
\* free that the saved list did not offer.
THEOREM RestartsAreSafe == PagesSpec => RestartSafe
<1>. DEFINE Restarted == phase \in {"saved", "crashed"} => phase' = "on" /\ OffersNoMore(info)'
<1>1. PagesInv /\ [PagesNext]_vars => [Restarted]_vars
  <2>. SUFFICES ASSUME PagesInv, PagesNext
                PROVE  Restarted
    OBVIOUS
  <2>1. phase = "on" \/ EndOfRun
    BY DEF PagesNext, GetFreePage, GetFreePageThrows, ReturnPage, ReturnAllPages, ReturnPages
  <2>. QED  BY <2>1, EndOfRunPages
<1>. QED  BY <1>1, InitPages, NextPages, PTL DEF PagesSpec, RestartSafe

-----------------------------------------------------------------------------
(* The cache.  T is a set of pages about which nothing is known: those that   *)
(* accesses across two slots have damaged.                                  *)

\* The states of an access.
Access == [cache : [Slots -> CachePage], file : [Pages -> PageData], ok : BOOLEAN]

\* Every slot holds a page of its own, and what the file has of that page unless
\* the slot is dirty.
Consistent(s, T) ==
    \A i \in Slots : s.cache[i].valid /\ s.cache[i].page \notin T =>
        /\ Slot(s.cache[i].page) = i
        /\ ~s.cache[i].dirty => s.cache[i].data = s.file[s.cache[i].page]

In(s, i, p) == s.cache[i].valid /\ s.cache[i].page = p
Holds(s, p) == In(s, Slot(p), p)

\* What the cache and the file together have of each page.
View(s) == [p \in Pages |-> IF Holds(s, p) THEN s.cache[Slot(p)].data ELSE s.file[p]]

Same(v, w, T) == \A p \in Pages \ T : v[p] = w[p]

LEMMA SlotType ==
    ASSUME NEW p \in Nat
    PROVE  Slot(p) \in Slots
<1>1. p \div PageSize \in Nat
  BY DiskAssumption
<1>. QED  BY <1>1, DiskAssumption DEF Slot, Slots

\* get_cpage: no page is lost or changed, whatever was in the slot, and the slot
\* then holds the page asked for.  It fails only past the end of the file.
LEMMA FetchFacts ==
    ASSUME NEW s \in Access, NEW T, Consistent(s, T), NEW p \in Nat
    PROVE  LET t == Fetch(s, p)
           IN  /\ t \in Access /\ Consistent(t, T) /\ Same(View(t), View(s), T)
               /\ s.ok => (t.ok <=> p \in Pages)
               /\ p \in Pages => Holds(t, p)
               /\ \A j \in Slots : j # Slot(p) => t.cache[j] = s.cache[j]
<1>. DEFINE t == Fetch(s, p)
            i == Slot(p)
            c == s.cache[i]
            f == Flushed(s.file, c)
            fetched == [page |-> p, data |-> f[p], dirty |-> c.dirty, valid |-> TRUE]
<1>1. i \in Slots /\ \A q \in Pages : Slot(q) \in Slots
  BY SlotType DEF Pages
<1>2. /\ c.page \in Pages /\ c.data \in PageData /\ c.dirty \in BOOLEAN /\ c.valid \in BOOLEAN
      /\ \A j \in Slots : s.cache[j] \in CachePage /\ s.cache[j].page \in Pages
  BY <1>1 DEF Access, CachePage
<1>3. s.file \in [Pages -> PageData] /\ s.cache \in [Slots -> CachePage] /\ s.ok \in BOOLEAN
  BY DEF Access
<1>4. CASE c.valid /\ c.page = p
  <2>1. t = s
    BY <1>4 DEF Fetch
  <2>. QED  BY <1>2, <1>3, <1>4, <2>1 DEF Holds, In, Same
\* A page of another slot is not the one that was flushed.
<1>5. /\ f \in [Pages -> PageData]
      /\ \A q \in Pages : f[q] = IF c.valid /\ c.dirty /\ q = c.page THEN c.data ELSE s.file[q]
      /\ \A q \in Pages \ T : Slot(q) # i => f[q] = s.file[q]
      /\ c.valid /\ c.page \notin T => Slot(c.page) = i /\ (~c.dirty => c.data = s.file[c.page])
  <2>1. /\ f \in [Pages -> PageData]
        /\ \A q \in Pages : f[q] = IF c.valid /\ c.dirty /\ q = c.page THEN c.data ELSE s.file[q]
    BY <1>2, <1>3 DEF Flushed
  <2>2. c.valid /\ c.page \notin T => Slot(c.page) = i /\ (~c.dirty => c.data = s.file[c.page])
    BY <1>1 DEF Consistent
  <2>. HIDE DEF f, i
  <2>3. \A q \in Pages \ T : Slot(q) # i => f[q] = s.file[q]
    BY <2>1, <2>2
  <2>. QED  BY <2>1, <2>2, <2>3
<1>6. CASE ~(c.valid /\ c.page = p) /\ p \notin Pages
  <2>1. t = [cache |-> s.cache, file |-> f, ok |-> FALSE]
    BY <1>6 DEF Fetch
  <2>. HIDE DEF f, i
  <2>2. t \in Access /\ t.cache = s.cache /\ t.file = f /\ ~t.ok
    BY <1>3, <1>5, <2>1 DEF Access
  <2>. HIDE DEF t
  <2>3. Consistent(t, T)
    <3>. SUFFICES ASSUME NEW j \in Slots, s.cache[j].valid, s.cache[j].page \notin T,
                         ~s.cache[j].dirty
                  PROVE  s.cache[j].data = f[s.cache[j].page]
      BY <1>2, <2>2 DEF Consistent
    <3>1. /\ Slot(s.cache[j].page) = j /\ s.cache[j].page \in Pages
          /\ s.cache[j].data = s.file[s.cache[j].page]
      BY <1>2 DEF Consistent
    <3>2. CASE j = i
      BY <1>5, <3>1, <3>2 DEF i
    <3>3. CASE j # i
      BY <1>5, <3>1, <3>3
    <3>. QED  BY <3>2, <3>3
  <2>4. ASSUME NEW q \in Pages \ T
        PROVE  View(t)[q] = View(s)[q]
    <3>1. Holds(t, q) <=> Holds(s, q)
      BY <2>2 DEF Holds, In
    <3>2. CASE Holds(s, q)
      BY <2>2, <3>1, <3>2 DEF View
    <3>3. CASE ~Holds(s, q)
      <4>1. f[q] = s.file[q]
        BY <1>5, <3>3 DEF Holds, In, i
      <4>. QED  BY <2>2, <3>1, <3>3, <4>1 DEF View
    <3>. QED  BY <3>2, <3>3
  <2>5. Same(View(t), View(s), T)
    BY <2>4 DEF Same
  <2>. QED  BY <1>6, <2>2, <2>3, <2>5 DEF t
<1>7. CASE ~(c.valid /\ c.page = p) /\ p \in Pages
  <2>1. t = [cache |-> [s.cache EXCEPT ![i] = fetched], file |-> f, ok |-> TRUE]
    BY <1>7 DEF Fetch
  <2>. HIDE DEF i
  <2>2. /\ f \in [Pages -> PageData]
        /\ \A q \in Pages : f[q] = IF c.valid /\ c.dirty /\ q = c.page THEN c.data ELSE s.file[q]
    BY <1>5
  <2>. HIDE DEF f
  <2>3. fetched \in CachePage
    BY <1>2, <1>7, <2>2 DEF CachePage
  <2>4. /\ fetched.page = p /\ fetched.data = f[p] /\ fetched.dirty = c.dirty /\ fetched.valid
    OBVIOUS
  <2>. HIDE DEF fetched
  <2>5. /\ t \in Access /\ t.file = f /\ t.ok /\ t.cache[i] = fetched
        /\ \A j \in Slots : j # i => t.cache[j] = s.cache[j]
    BY <1>1, <1>3, <2>1, <2>2, <2>3 DEF Access
  <2>. HIDE DEF t
  <2>6. \A q \in Pages \ T : Slot(q) # i => f[q] = s.file[q]
    BY <1>5
  <2>7. Consistent(t, T)
    <3>. SUFFICES ASSUME NEW j \in Slots, t.cache[j].valid, t.cache[j].page \notin T
                  PROVE  /\ Slot(t.cache[j].page) = j
                         /\ ~t.cache[j].dirty => t.cache[j].data = t.file[t.cache[j].page]
      BY DEF Consistent
    <3>1. CASE j = i
      BY <2>4, <2>5, <3>1 DEF i
    <3>2. CASE j # i
      <4>1. /\ t.cache[j] = s.cache[j] /\ s.cache[j].page \in Pages
            /\ Slot(s.cache[j].page) = j
            /\ ~s.cache[j].dirty => s.cache[j].data = s.file[s.cache[j].page]
        BY <1>2, <2>5, <3>2 DEF Consistent
      <4>2. f[s.cache[j].page] = s.file[s.cache[j].page]
        BY <2>6, <3>2, <4>1
      <4>. QED  BY <2>5, <4>1, <4>2
    <3>. QED  BY <3>1, <3>2
  <2>8. ASSUME NEW q \in Pages \ T
        PROVE  View(t)[q] = View(s)[q]
    <3>1. CASE Slot(q) # i
      <4>1. t.cache[Slot(q)] = s.cache[Slot(q)] /\ t.file[q] = s.file[q]
        BY <1>1, <2>5, <2>6, <3>1
      <4>. QED  BY <4>1 DEF View, Holds, In
    <3>2. CASE q = p
      <4>1. Holds(t, q) /\ t.cache[Slot(q)].data = f[p] /\ ~Holds(s, q)
        BY <1>7, <2>4, <2>5, <3>2 DEF Holds, In, i
      <4>2. f[p] = s.file[p]
        BY <1>7, <2>2, <3>2
      <4>. QED  BY <3>2, <4>1, <4>2 DEF View
    <3>3. CASE Slot(q) = i /\ q # p
      <4>1. ~Holds(t, q) /\ t.file[q] = f[q]
        BY <2>4, <2>5, <3>3 DEF Holds, In
      <4>2. CASE Holds(s, q)
        <5>1. c.valid /\ c.page = q /\ View(s)[q] = c.data
          BY <3>3, <4>2 DEF Holds, In, View, i
        <5>2. ~c.dirty => c.data = s.file[q]
          BY <1>5, <5>1
        <5>3. f[q] = c.data
          BY <1>2, <2>2, <5>1, <5>2
        <5>. QED  BY <4>1, <5>1, <5>3 DEF View
      <4>3. CASE ~Holds(s, q)
        <5>1. ~(c.valid /\ c.page = q) /\ View(s)[q] = s.file[q]
          BY <3>3, <4>3 DEF Holds, In, View, i
        <5>2. f[q] = s.file[q]
          BY <2>2, <5>1
        <5>. QED  BY <4>1, <5>1, <5>2 DEF View
      <4>. QED  BY <4>2, <4>3
    <3>. QED  BY <3>1, <3>2, <3>3
  <2>9. Same(View(t), View(s), T)
    BY <2>8 DEF Same
  <2>10. Holds(t, p)
    BY <2>4, <2>5 DEF Holds, In, i
  <2>. QED  BY <1>7, <2>5, <2>7, <2>9, <2>10 DEF t, i
<1>. QED  BY <1>4, <1>6, <1>7

-----------------------------------------------------------------------------
(* Addresses.                                                              *)

LEMMA PageSizes == PageSize \in Nat /\ PageSize >= 1 /\ NPages \in Nat
BY DiskAssumption

\* An address is its page and its place there, and no other page and place.
LEMMA Decompose ==
    ASSUME NEW a \in Nat
    PROVE  /\ PageOf(a) \in Nat
           /\ OffsetOf(a) \in Nat /\ OffsetOf(a) < PageSize
           /\ OffsetOf(a) \in 0 .. PageSize - 1
           /\ a = PageOf(a) * PageSize + OffsetOf(a)
<1>1. /\ PageOf(a) \in Nat /\ OffsetOf(a) \in Nat /\ OffsetOf(a) < PageSize
      /\ a = PageOf(a) * PageSize + OffsetOf(a)
  BY PageSizes DEF PageOf, OffsetOf
<1>. QED  BY <1>1, PageSizes

LEMMA SamePlace ==
    ASSUME NEW p \in Nat, NEW q \in Nat, NEW x \in 0 .. PageSize - 1,
           NEW y \in 0 .. PageSize - 1, p * PageSize + x = q * PageSize + y
    PROVE  p = q /\ x = y
<1>1. ASSUME NEW i \in Nat, NEW j \in Nat, i < j
      PROVE  j * PageSize >= i * PageSize + PageSize
  <2>1. \E d \in Nat : j = i + 1 + d
    <3>1. j - i - 1 \in Nat /\ j = i + 1 + (j - i - 1)
      BY <1>1
    <3>. QED  BY <3>1
  <2>2. PICK d \in Nat : j = i + 1 + d
    BY <2>1
  <2>3. j * PageSize = i * PageSize + PageSize + d * PageSize
    BY <2>2, PageSizes
  <2>4. d * PageSize \in Nat /\ i * PageSize \in Nat
    BY PageSizes
  <2>. QED  BY <2>3, <2>4, PageSizes
<1>2. p * PageSize \in Nat /\ q * PageSize \in Nat /\ x \in Nat /\ y \in Nat
      /\ x < PageSize /\ y < PageSize
  BY PageSizes
<1>3. ~(p < q)
  <2>. SUFFICES ASSUME p < q PROVE FALSE
    OBVIOUS
  <2>1. q * PageSize >= p * PageSize + PageSize
    BY <1>1
  <2>. QED  BY <1>2, <2>1, PageSizes
<1>4. ~(q < p)
  <2>. SUFFICES ASSUME q < p PROVE FALSE
    OBVIOUS
  <2>1. p * PageSize >= q * PageSize + PageSize
    BY <1>1
  <2>. QED  BY <1>2, <2>1, PageSizes
<1>. QED  BY <1>2, <1>3, <1>4, PageSizes

\* The page of an address grows with the address, by one at a time.
LEMMA NextAddress ==
    ASSUME NEW a \in Nat
    PROVE  /\ OffsetOf(a + 1) = 0 <=> OffsetOf(a) = PageSize - 1
           /\ PageOf(a + 1) = IF OffsetOf(a) = PageSize - 1 THEN PageOf(a) + 1 ELSE PageOf(a)
<1>1. /\ PageOf(a) \in Nat /\ OffsetOf(a) \in 0 .. PageSize - 1
      /\ a = PageOf(a) * PageSize + OffsetOf(a)
      /\ PageOf(a + 1) \in Nat /\ OffsetOf(a + 1) \in 0 .. PageSize - 1
      /\ a + 1 = PageOf(a + 1) * PageSize + OffsetOf(a + 1)
  <2>1. a + 1 \in Nat
    OBVIOUS
  <2>. QED  BY <2>1, Decompose, PageSizes
<1>2. CASE OffsetOf(a) = PageSize - 1
  <2>1. a + 1 = (PageOf(a) + 1) * PageSize + 0
    BY <1>1, <1>2, PageSizes
  <2>2. 0 \in 0 .. PageSize - 1 /\ PageOf(a) + 1 \in Nat
    BY <1>1, PageSizes
  <2>3. PageOf(a + 1) * PageSize + OffsetOf(a + 1) = (PageOf(a) + 1) * PageSize + 0
    BY <1>1, <2>1
  <2>4. PageOf(a + 1) = PageOf(a) + 1 /\ OffsetOf(a + 1) = 0
    BY <1>1, <2>2, <2>3, SamePlace
  <2>. QED  BY <1>2, <2>4
<1>3. CASE OffsetOf(a) # PageSize - 1
  <2>1. OffsetOf(a) + 1 \in 0 .. PageSize - 1
    BY <1>1, <1>3, PageSizes
  <2>2. PageOf(a + 1) * PageSize + OffsetOf(a + 1) = PageOf(a) * PageSize + (OffsetOf(a) + 1)
    BY <1>1, PageSizes
  <2>3. PageOf(a + 1) = PageOf(a) /\ OffsetOf(a + 1) = OffsetOf(a) + 1
    BY <1>1, <2>1, <2>2, SamePlace
  <2>4. OffsetOf(a + 1) # 0
    BY <1>1, <2>3
  <2>. QED  BY <1>3, <2>3, <2>4
<1>. QED  BY <1>2, <1>3

LEMMA PageMonotone ==
    ASSUME NEW a \in Nat, NEW b \in Nat, a <= b
    PROVE  PageOf(a) <= PageOf(b)
<1>1. /\ PageOf(a) \in Nat /\ OffsetOf(a) \in Nat /\ OffsetOf(a) < PageSize
      /\ a = PageOf(a) * PageSize + OffsetOf(a)
      /\ PageOf(b) \in Nat /\ OffsetOf(b) \in Nat /\ OffsetOf(b) < PageSize
      /\ b = PageOf(b) * PageSize + OffsetOf(b)
  BY Decompose
<1>. SUFFICES ASSUME PageOf(b) < PageOf(a)
              PROVE  FALSE
  BY <1>1
<1>2. PICK d \in Nat : PageOf(a) = PageOf(b) + 1 + d
  <2>1. PageOf(a) - PageOf(b) - 1 \in Nat
        /\ PageOf(a) = PageOf(b) + 1 + (PageOf(a) - PageOf(b) - 1)
    BY <1>1
  <2>. QED  BY <2>1
<1>3. PageOf(a) * PageSize = PageOf(b) * PageSize + PageSize + d * PageSize
  BY <1>1, <1>2, PageSizes
<1>4. d * PageSize \in Nat /\ PageOf(b) * PageSize \in Nat
  BY <1>1, PageSizes
<1>. QED  BY <1>1, <1>3, <1>4, PageSizes

\* A run of at most a page of bytes meets its first page and its last only.
LEMMA TwoPages ==
    ASSUME NEW a \in Nat, NEW n \in Sizes, NEW b \in a .. a + n - 1
    PROVE  /\ b \in Nat /\ a + n - 1 \in Nat /\ n \in Nat /\ n >= 1
           /\ PageOf(b) <= PageOf(a + n - 1)
           /\ PageOf(b) = PageOf(a) \/ PageOf(b) = PageOf(a + n - 1)
<1>1. n \in Nat /\ n >= 1 /\ n <= PageSize
  BY DiskAssumption
<1>2. b \in Nat /\ a + n - 1 \in Nat
  BY <1>1
<1>3. PageOf(a) <= PageOf(b) /\ PageOf(b) <= PageOf(a + n - 1)
  BY <1>1, <1>2, PageMonotone
<1>4. PageOf(a + n - 1) <= PageOf(a) + 1
  <2>1. a + PageSize \in Nat /\ a + n - 1 <= a + PageSize
    BY <1>1, PageSizes
  <2>2. PageOf(a + n - 1) <= PageOf(a + PageSize)
    BY <1>2, <2>1, PageMonotone
  <2>3. PageOf(a + PageSize) = PageOf(a) + 1
    <3>1. /\ PageOf(a) \in Nat /\ OffsetOf(a) \in 0 .. PageSize - 1
          /\ a = PageOf(a) * PageSize + OffsetOf(a)
          /\ PageOf(a + PageSize) \in Nat /\ OffsetOf(a + PageSize) \in 0 .. PageSize - 1
          /\ a + PageSize = PageOf(a + PageSize) * PageSize + OffsetOf(a + PageSize)
      <4>. DEFINE c == a + PageSize
      <4>1. c \in Nat
        BY <2>1
      <4>. HIDE DEF c
      <4>2. /\ PageOf(c) \in Nat /\ OffsetOf(c) \in 0 .. PageSize - 1
            /\ c = PageOf(c) * PageSize + OffsetOf(c)
        BY <4>1, Decompose
      <4>3. PageOf(a) \in Nat /\ OffsetOf(a) \in 0 .. PageSize - 1
            /\ a = PageOf(a) * PageSize + OffsetOf(a)
        BY Decompose, PageSizes
      <4>. QED  BY <4>2, <4>3 DEF c
    <3>2. PageOf(a + PageSize) * PageSize + OffsetOf(a + PageSize)
             = (PageOf(a) + 1) * PageSize + OffsetOf(a)
      BY <3>1, PageSizes
    <3>. QED  BY <3>1, <3>2, SamePlace
  <2>. QED  BY <2>2, <2>3
<1>5. PageOf(a) \in Nat /\ PageOf(b) \in Nat /\ PageOf(a + n - 1) \in Nat
  BY <1>2, Decompose
<1>. QED  BY <1>1, <1>2, <1>3, <1>4, <1>5

\* The addresses of the disk are those of its pages.
LEMMA AddressPages ==
    ASSUME NEW a \in Nat
    PROVE  a \in Addresses <=> PageOf(a) \in Pages
<1>1. /\ PageOf(a) \in Nat /\ OffsetOf(a) \in Nat /\ OffsetOf(a) < PageSize
      /\ a = PageOf(a) * PageSize + OffsetOf(a)
  BY Decompose
<1>2. ASSUME PageOf(a) < NPages
      PROVE  a < NPages * PageSize
  <2>1. PICK d \in Nat : NPages = PageOf(a) + 1 + d
    <3>1. NPages - PageOf(a) - 1 \in Nat /\ NPages = PageOf(a) + 1 + (NPages - PageOf(a) - 1)
      BY <1>1, <1>2, PageSizes
    <3>. QED  BY <3>1
  <2>2. NPages * PageSize = PageOf(a) * PageSize + PageSize + d * PageSize
    BY <1>1, <2>1, PageSizes
  <2>3. d * PageSize \in Nat /\ PageOf(a) * PageSize \in Nat
    BY <1>1, PageSizes
  <2>. QED  BY <1>1, <2>2, <2>3, PageSizes
<1>3. ASSUME ~(PageOf(a) < NPages)
      PROVE  ~(a < NPages * PageSize)
  <2>1. PICK d \in Nat : PageOf(a) = NPages + d
    <3>1. PageOf(a) - NPages \in Nat /\ PageOf(a) = NPages + (PageOf(a) - NPages)
      BY <1>1, <1>3, PageSizes
    <3>. QED  BY <3>1
  <2>2. PageOf(a) * PageSize = NPages * PageSize + d * PageSize
    BY <1>1, <2>1, PageSizes
  <2>3. d * PageSize \in Nat /\ NPages * PageSize \in Nat
    BY PageSizes
  <2>. QED  BY <1>1, <2>2, <2>3, PageSizes
<1>4. NPages * PageSize \in Nat
  BY PageSizes
<1>. QED  BY <1>1, <1>2, <1>3, <1>4, PageSizes DEF Addresses, Pages

-----------------------------------------------------------------------------
(* Accesses of several bytes.                                              *)

LEMMA MoreDamage ==
    ASSUME NEW s, NEW v, NEW w, NEW T, NEW U, T \subseteq U
    PROVE  /\ Consistent(s, T) => Consistent(s, U)
           /\ Same(v, w, T) => Same(v, w, U)
BY DEF Consistent, Same

\* The values of an access in a slot.
LEMMA SlotData ==
    ASSUME NEW s \in Access, NEW i \in Slots
    PROVE  /\ s.cache[i] \in CachePage /\ s.cache[i].data \in PageData
           /\ s.cache[i].page \in Pages
BY DEF Access, CachePage

\* Writing to the page a slot holds changes that page and no other.
LEMMA StoreFacts ==
    ASSUME NEW s \in Access, NEW T, Consistent(s, T), NEW at \in Slots, NEW p, In(s, at, p),
           Slot(p) = at \/ p \in T, NEW d \in PageData
    PROVE  LET t == [s EXCEPT !.cache[at] =
                        [page |-> p, data |-> d, dirty |-> TRUE, valid |-> TRUE]]
           IN  /\ t \in Access /\ Consistent(t, T) /\ In(t, at, p)
               /\ t.ok = s.ok /\ t.cache[at].dirty
               /\ Same(View(t), [View(s) EXCEPT ![p] = d], T)
<1>. DEFINE new == [page |-> p, data |-> d, dirty |-> TRUE, valid |-> TRUE]
            t == [s EXCEPT !.cache[at] = new]
<1>1. /\ \A q \in Pages : Slot(q) \in Slots
      /\ p \in Pages
  BY SlotType, SlotData DEF Pages, In
<1>2. /\ new \in CachePage /\ new.page = p /\ new.data = d /\ new.dirty /\ new.valid
  BY <1>1 DEF CachePage
<1>. HIDE DEF new
<1>3. t = [cache |-> [s.cache EXCEPT ![at] = new], file |-> s.file, ok |-> s.ok]
  BY DEF Access
<1>. HIDE DEF t
<1>4. /\ s.cache \in [Slots -> CachePage] /\ s.file \in [Pages -> PageData] /\ s.ok \in BOOLEAN
  BY DEF Access
<1>5. /\ t.cache[at] = new /\ \A j \in Slots : j # at => t.cache[j] = s.cache[j]
      /\ t \in Access /\ t.file = s.file /\ t.ok = s.ok
  <2>. DEFINE cs == [s.cache EXCEPT ![at] = new]
  <2>1. cs \in [Slots -> CachePage] /\ cs[at] = new /\ \A j \in Slots : j # at => cs[j] = s.cache[j]
    BY <1>2, <1>4
  <2>2. t = [cache |-> cs, file |-> s.file, ok |-> s.ok]
    BY <1>3
  <2>. HIDE DEF cs
  <2>3. t.cache = cs /\ t.file = s.file /\ t.ok = s.ok /\ t \in Access
    BY <1>4, <2>1, <2>2 DEF Access
  <2>. QED  BY <2>1, <2>3
<1>6. Consistent(t, T)
  <2>. SUFFICES ASSUME NEW j \in Slots, t.cache[j].valid, t.cache[j].page \notin T
                PROVE  /\ Slot(t.cache[j].page) = j
                       /\ ~t.cache[j].dirty => t.cache[j].data = t.file[t.cache[j].page]
    BY DEF Consistent
  <2>1. CASE j = at
    BY <1>2, <1>5, <2>1
  <2>2. CASE j # at
    BY <1>5, <2>2 DEF Consistent
  <2>. QED  BY <2>1, <2>2
<1>7. In(t, at, p)
  BY <1>2, <1>5 DEF In
<1>8. ASSUME NEW q \in Pages \ T
      PROVE  View(t)[q] = IF q = p THEN d ELSE View(s)[q]
  <2>1. CASE q = p
    <3>1. Holds(t, q) /\ t.cache[Slot(q)].data = d
      BY <1>2, <1>5, <1>7, <2>1 DEF Holds
    <3>. QED  BY <2>1, <3>1 DEF View
  <2>2. CASE q # p /\ Slot(q) = at
    <3>1. ~Holds(t, q) /\ ~Holds(s, q)
      BY <1>2, <1>5, <2>2 DEF Holds, In
    <3>. QED  BY <1>5, <2>2, <3>1 DEF View
  <2>3. CASE q # p /\ Slot(q) # at
    <3>1. t.cache[Slot(q)] = s.cache[Slot(q)]
      BY <1>1, <1>5, <2>3
    <3>. QED  BY <1>5, <2>3, <3>1 DEF View, Holds, In
  <2>. QED  BY <2>1, <2>2, <2>3
<1>9. Same(View(t), [View(s) EXCEPT ![p] = d], T)
  BY <1>8 DEF View, Same
<1>. QED  BY <1>2, <1>5, <1>6, <1>7, <1>9 DEF t, new

LEMMA TouchFacts ==
    ASSUME NEW s \in Access, NEW at \in Slots
    PROVE  LET t == Touch(s, at)
           IN  /\ t \in Access /\ View(t) = View(s) /\ t.ok = s.ok
               /\ \A T : Consistent(s, T) => Consistent(t, T)
               /\ \A p : In(t, at, p) <=> In(s, at, p)
               /\ t.cache[at].dirty
<1>. DEFINE t == Touch(s, at)
            c == s.cache[at]
            new == [c EXCEPT !.dirty = TRUE]
<1>1. /\ s.cache \in [Slots -> CachePage] /\ s.file \in [Pages -> PageData] /\ s.ok \in BOOLEAN
      /\ s = [cache |-> s.cache, file |-> s.file, ok |-> s.ok]
      /\ c \in CachePage
  BY DEF Access
<1>2. /\ new \in CachePage /\ new.page = c.page /\ new.data = c.data /\ new.dirty
      /\ new.valid = c.valid
  BY <1>1 DEF CachePage
<1>3. t = [cache |-> [s.cache EXCEPT ![at] = new], file |-> s.file, ok |-> s.ok]
  <2>1. t = [s EXCEPT !.cache = [s.cache EXCEPT ![at] = new]]
    BY DEF Touch
  <2>. HIDE DEF new
  <2>. QED  BY <1>1, <2>1
<1>. HIDE DEF new, t
<1>4. /\ t \in Access /\ t.file = s.file /\ t.ok = s.ok /\ t.cache[at] = new
      /\ \A j \in Slots : j # at => t.cache[j] = s.cache[j]
  BY <1>1, <1>2, <1>3 DEF Access
<1>5. \A j \in Slots : /\ t.cache[j].page = s.cache[j].page
                       /\ t.cache[j].data = s.cache[j].data
                       /\ t.cache[j].valid = s.cache[j].valid
                       /\ ~t.cache[j].dirty => ~s.cache[j].dirty
  BY <1>2, <1>4
<1>6. \A j \in Slots : \A p : In(t, j, p) <=> In(s, j, p)
  BY <1>5 DEF In
<1>7. View(t) = View(s)
  <2>1. \A p \in Pages : Slot(p) \in Slots
    BY SlotType DEF Pages
  <2>2. \A p \in Pages : /\ Holds(t, p) <=> Holds(s, p)
                         /\ t.cache[Slot(p)].data = s.cache[Slot(p)].data
    BY <1>5, <1>6, <2>1 DEF Holds
  <2>. QED  BY <1>4, <2>2 DEF View
<1>8. \A T : Consistent(s, T) => Consistent(t, T)
  BY <1>4, <1>5 DEF Consistent
<1>. QED  BY <1>2, <1>4, <1>6, <1>7, <1>8 DEF t

\* What becomes of an access whatever the slots hold.
LEMMA FetchType ==
    ASSUME NEW s \in Access, NEW p \in Nat
    PROVE  Fetch(s, p) \in Access
<1>. DEFINE i == Slot(p)
            c == s.cache[i]
            f == Flushed(s.file, c)
            fetched == [page |-> p, data |-> f[p], dirty |-> c.dirty, valid |-> TRUE]
            cs == [s.cache EXCEPT ![i] = fetched]
<1>1. /\ s.file \in [Pages -> PageData] /\ s.cache \in [Slots -> CachePage] /\ s.ok \in BOOLEAN
      /\ i \in Slots /\ c \in CachePage
  BY SlotType DEF Access
<1>2. f \in [Pages -> PageData]
  BY <1>1 DEF Flushed, CachePage
<1>. HIDE DEF f
<1>3. ASSUME p \in Pages
      PROVE  cs \in [Slots -> CachePage]
  <2>1. fetched \in CachePage
    BY <1>1, <1>2, <1>3 DEF CachePage
  <2>. HIDE DEF fetched, i
  <2>. QED  BY <1>1, <2>1
<1>4. Fetch(s, p) = IF c.valid /\ c.page = p THEN s
                    ELSE IF p \in Pages THEN [cache |-> cs, file |-> f, ok |-> TRUE]
                         ELSE [cache |-> s.cache, file |-> f, ok |-> FALSE]
  BY DEF Fetch, f
<1>. HIDE DEF cs, c
<1>. QED  BY <1>1, <1>2, <1>3, <1>4 DEF Access

LEMMA FetchIntoType ==
    ASSUME NEW s \in Access, NEW at \in Slots, NEW p \in Nat
    PROVE  LET t == FetchInto(s, at, p)
               u == Fetch(s, p)
           IN  /\ t \in Access /\ t.ok = u.ok /\ t.file = u.file
               /\ t.cache[at] = u.cache[Slot(p)]
               /\ \A j \in Slots : j # at => t.cache[j] = u.cache[j]
<1>. DEFINE t == FetchInto(s, at, p)
            u == Fetch(s, p)
            c == u.cache[Slot(p)]
            cs == [u.cache EXCEPT ![at] = c]
<1>1. u \in Access /\ Slot(p) \in Slots
  BY FetchType, SlotType
<1>2. t = [u EXCEPT !.cache = cs]
  BY DEF FetchInto
<1>. HIDE DEF u
<1>3. /\ u = [cache |-> u.cache, file |-> u.file, ok |-> u.ok]
      /\ u.cache \in [Slots -> CachePage] /\ u.file \in [Pages -> PageData] /\ u.ok \in BOOLEAN
      /\ c \in CachePage
  BY <1>1 DEF Access
<1>4. /\ cs \in [Slots -> CachePage] /\ cs[at] = c
      /\ \A j \in Slots : j # at => cs[j] = u.cache[j]
  <2>. HIDE DEF c
  <2>. QED  BY <1>3
<1>. HIDE DEF cs, t
<1>5. t = [cache |-> cs, file |-> u.file, ok |-> u.ok]
  BY <1>2, <1>3
<1>6. t \in Access /\ t.cache = cs /\ t.file = u.file /\ t.ok = u.ok
  BY <1>3, <1>4, <1>5 DEF Access
<1>. QED  BY <1>4, <1>6 DEF t, u

\* The pages that are damaged when page p is fetched over the page of slot at.
Overwritten(s, at, p) == IF Slot(p) = at THEN {} ELSE {s.cache[at].page, p}

\* cpage = get_cpage(page): slot `at` gets the page.  The page it had and the one
\* that is now in two slots are the only ones that suffer.
LEMMA FetchIntoFacts ==
    ASSUME NEW s \in Access, NEW T, Consistent(s, T), NEW at \in Slots, NEW p \in Pages,
           s.cache[at].valid, NEW t, t = FetchInto(s, at, p), NEW O, O = Overwritten(s, at, p)
    PROVE  /\ In(t, at, p) /\ Consistent(t, T \cup O) /\ Same(View(t), View(s), T \cup O)
           /\ p \notin T => t.cache[at].data = View(s)[p]
<1>. DEFINE u == Fetch(s, p)
            U == T \cup O
<1>1. p \in Nat /\ Slot(p) \in Slots /\ \A q \in Pages : Slot(q) \in Slots
  BY SlotType DEF Pages
<1>2. /\ u \in Access /\ Consistent(u, T) /\ Same(View(u), View(s), T)
      /\ Holds(u, p)
      /\ \A j \in Slots : j # Slot(p) => u.cache[j] = s.cache[j]
  BY <1>1, FetchFacts
<1>3. /\ t \in Access /\ t.file = u.file /\ t.cache[at] = u.cache[Slot(p)]
      /\ \A j \in Slots : j # at => t.cache[j] = u.cache[j]
  BY <1>1, FetchIntoType
<1>. HIDE DEF u
<1>4. In(t, at, p)
  BY <1>2, <1>3 DEF Holds, In
<1>5. p \notin T => t.cache[at].data = View(s)[p]
  <2>1. u.cache[Slot(p)].data = View(u)[p]
    BY <1>2 DEF View
  <2>. QED  BY <1>2, <1>3, <2>1 DEF Same
<1>6. Consistent(t, U)
  <2>. SUFFICES ASSUME NEW j \in Slots, t.cache[j].valid, t.cache[j].page \notin U
                PROVE  /\ Slot(t.cache[j].page) = j
                       /\ ~t.cache[j].dirty => t.cache[j].data = t.file[t.cache[j].page]
    BY DEF Consistent
  <2>1. CASE j = at
    <3>1. Slot(p) = at
      BY <1>4, <2>1 DEF In, Overwritten
    <3>. QED  BY <1>2, <1>3, <2>1, <3>1 DEF Consistent
  <2>2. CASE j # at
    BY <1>2, <1>3, <2>2 DEF Consistent
  <2>. QED  BY <2>1, <2>2
<1>7. ASSUME NEW q \in Pages \ U
      PROVE  View(t)[q] = View(u)[q]
  <2>1. CASE t.cache[Slot(q)] = u.cache[Slot(q)]
    BY <1>3, <2>1 DEF View, Holds, In
  <2>2. CASE t.cache[Slot(q)] # u.cache[Slot(q)]
    <3>1. Slot(q) = at /\ Slot(p) # at
      BY <1>1, <1>3, <2>2
    <3>2. q # p /\ q # s.cache[at].page
      BY <3>1 DEF Overwritten
    <3>3. ~Holds(t, q)
      BY <1>4, <3>1, <3>2 DEF Holds, In
    <3>4. ~Holds(u, q)
      BY <1>2, <3>1, <3>2 DEF Holds, In
    <3>. QED  BY <1>3, <3>3, <3>4 DEF View
  <2>. QED  BY <2>1, <2>2
<1>8. Same(View(t), View(s), U)
  BY <1>2, <1>7 DEF Same
<1>. QED  BY <1>4, <1>5, <1>6, <1>8

\* The pages v with one byte of page p changed, the one at offset o.
SetByte(v, p, o, b) == [v EXCEPT ![p] = [@ EXCEPT ![o + 1] = b]]

\* One byte of the page in a slot.
LEMMA PutFacts ==
    ASSUME NEW s \in Access, NEW T, Consistent(s, T), NEW at \in Slots, NEW p, In(s, at, p),
           Slot(p) = at \/ p \in T,
           s.cache[at].dirty, NEW o \in 0 .. PageSize - 1, NEW b \in Byte
    PROVE  LET t == Put(s, at, o, b)
           IN  /\ t \in Access /\ Consistent(t, T) /\ In(t, at, p) /\ t.ok = s.ok
               /\ t.cache[at].dirty
               /\ Same(View(t), SetByte(View(s), p, o, b), T)
<1>. DEFINE c == s.cache[at]
            d == [c.data EXCEPT ![o + 1] = b]
            t == Put(s, at, o, b)
<1>1. /\ p \in Pages /\ c.data \in PageData
      /\ c \in CachePage /\ c.page = p /\ c.valid /\ c.dirty
  BY SlotData DEF In
<1>2. d \in PageData
  <2>1. o + 1 \in 1 .. PageSize
    BY PageSizes
  <2>. QED  BY <1>1, <2>1 DEF PageData
<1>3. [c EXCEPT !.data = d] = [page |-> p, data |-> d, dirty |-> TRUE, valid |-> TRUE]
  <2>1. c = [page |-> p, data |-> c.data, dirty |-> c.dirty, valid |-> c.valid]
        /\ c.dirty = TRUE /\ c.valid = TRUE
    BY <1>1 DEF CachePage
  <2>. HIDE DEF d, c
  <2>2. [c EXCEPT !.data = d] =
           [page |-> c.page, data |-> d, dirty |-> c.dirty, valid |-> c.valid]
    BY <2>1
  <2>. QED  BY <1>1, <2>1, <2>2
<1>4. t = [s EXCEPT !.cache[at] =
              [page |-> p, data |-> d, dirty |-> TRUE, valid |-> TRUE]]
  <2>1. t = [s EXCEPT !.cache[at] = [c EXCEPT !.data = d]]
    BY DEF Put
  <2>. QED  BY <1>3, <2>1
<1>. HIDE DEF d
<1>5. /\ t \in Access /\ Consistent(t, T) /\ In(t, at, p) /\ t.ok = s.ok
      /\ t.cache[at].dirty
      /\ Same(View(t), [View(s) EXCEPT ![p] = d], T)
  <2>. HIDE DEF t
  <2>. QED  BY <1>2, <1>4, StoreFacts
<1>6. p \notin T => c.data = View(s)[p]
  BY <1>1 DEF View, Holds, In
<1>7. Same([View(s) EXCEPT ![p] = d], SetByte(View(s), p, o, b), T)
  BY <1>1, <1>6 DEF d, SetByte, Same, View
<1>8. Same(View(t), SetByte(View(s), p, o, b), T)
  <2>. HIDE DEF t
  <2>. QED  BY <1>5, <1>7 DEF Same
<1>. QED  BY <1>5, <1>8

\* Adding an element in front of a sequence.
LEMMA Prepend ==
    ASSUME NEW S, NEW m \in Nat, NEW f \in [1 .. m -> S], NEW x \in S
    PROVE  /\ <<x>> \o f \in Seq(S)
           /\ <<x>> \o f = [j \in 1 .. m + 1 |-> IF j = 1 THEN x ELSE f[j - 1]]
<1>1. f \in Seq(S) /\ Len(f) = m /\ <<x>> \in Seq(S) /\ Len(<<x>>) = 1
  OBVIOUS
<1>2. /\ <<x>> \o f \in Seq(S) /\ Len(<<x>> \o f) = m + 1
      /\ \A j \in 1 .. m + 1 : (<<x>> \o f)[j] = IF j = 1 THEN x ELSE f[j - 1]
  <2>1. /\ <<x>> \o f \in Seq(S) /\ Len(<<x>> \o f) = m + 1
        /\ \A j \in 1 .. m + 1 : (<<x>> \o f)[j] = IF j <= 1 THEN <<x>>[j] ELSE f[j - 1]
    BY <1>1
  <2>2. \A j \in 1 .. m + 1 : (j <= 1 <=> j = 1) /\ <<x>>[1] = x
    OBVIOUS
  <2>. QED  BY <2>1, <2>2
<1>. DEFINE y == <<x>> \o f
<1>. HIDE DEF y
<1>3. y \in [1 .. m + 1 -> S]
  <2>1. y \in Seq(S) /\ Len(y) = m + 1
    BY <1>2 DEF y
  <2>. QED  BY <2>1, LenProperties
<1>4. \A j \in 1 .. m + 1 : y[j] = IF j = 1 THEN x ELSE f[j - 1]
  BY <1>2 DEF y
<1>5. y = [j \in 1 .. m + 1 |-> IF j = 1 THEN x ELSE f[j - 1]]
  BY <1>3, <1>4
<1>. QED  BY <1>2, <1>5 DEF y

\* The pages of an access, and which of them share the slot `at` of one of them.
LEMMA AccessPages ==
    ASSUME NEW a \in Addresses, NEW n \in Sizes
    PROVE  /\ a \in Nat /\ n \in Nat /\ n >= 1 /\ n <= PageSize /\ a + n - 1 \in Nat
           /\ PageOf(a) \in Pages /\ PageOf(a + n - 1) \in Nat
           /\ PageOf(a) <= PageOf(a + n - 1)
           /\ Straddled(a, n) = IF Slot(PageOf(a)) = Slot(PageOf(a + n - 1)) THEN {}
                                ELSE {PageOf(a), PageOf(a + n - 1)}
           /\ \A b \in a .. a + n - 1 :
                 /\ b \in Nat /\ PageOf(b) \in Nat /\ OffsetOf(b) \in 0 .. PageSize - 1
                 /\ PageOf(b) <= PageOf(a + n - 1)
                 /\ PageOf(b) \in {PageOf(a), PageOf(a + n - 1)}
<1>1. a \in Nat /\ n \in Nat /\ n >= 1 /\ n <= PageSize
  BY DiskAssumption DEF Addresses
<1>2. a + n - 1 \in Nat
  BY <1>1
<1>3. PageOf(a) \in Pages /\ PageOf(a + n - 1) \in Nat
  BY <1>1, <1>2, AddressPages, Decompose
<1>4. ASSUME NEW b \in a .. a + n - 1
      PROVE  /\ b \in Nat /\ PageOf(b) \in Nat /\ OffsetOf(b) \in 0 .. PageSize - 1
             /\ PageOf(b) <= PageOf(a + n - 1)
             /\ PageOf(b) \in {PageOf(a), PageOf(a + n - 1)}
  <2>1. /\ b \in Nat /\ PageOf(b) <= PageOf(a + n - 1)
        /\ PageOf(b) = PageOf(a) \/ PageOf(b) = PageOf(a + n - 1)
    BY <1>1, TwoPages
  <2>. QED  BY <2>1, Decompose, PageSizes
<1>5. a \in a .. a + n - 1
  BY <1>1
<1>. QED  BY <1>1, <1>2, <1>3, <1>4, <1>5 DEF Straddled

\* read_val: the bytes come from the pages they are in, and reading them changes
\* no page, but for the two of an access across two slots: those it returns
\* right, and may leave damaged.
LEMMA ReadValFacts ==
    ASSUME Now \in Access, NEW T, Consistent(Now, T), Now.ok,
           NEW a \in Addresses, NEW n \in Sizes
    PROVE  LET r == ReadVal(a, n)
               U == T \cup Straddled(a, n)
           IN  /\ r.s \in Access
               /\ r.s.ok => /\ a + n - 1 \in Addresses
                            /\ Consistent(r.s, U) /\ Same(View(r.s), View(Now), U)
                            /\ r.out \in [1 .. n -> Byte]
                            /\ \A k \in 1 .. n : PageOf(a + k - 1) \notin T =>
                                  r.out[k] = View(Now)[PageOf(a + k - 1)][OffsetOf(a + k - 1) + 1]
<1>. DEFINE last == a + n - 1
            at == Slot(PageOf(last))
            U == T \cup Straddled(a, n)
            ByteOf(b) == View(Now)[PageOf(b)][OffsetOf(b) + 1]
            base == [s |-> Fetch(Now, PageOf(last)), out |-> <<>>]
            moved(k, w) == IF k > 1 /\ OffsetOf(a + n - k) = PageSize - 1
                           THEN FetchInto(w.s, at, PageOf(a + n - k)) ELSE w.s
            next(k, w) ==
               IF w.s.ok
               THEN [s |-> moved(k, w),
                     out |-> <<moved(k, w).cache[at].data[OffsetOf(a + n - k) + 1]>> \o w.out]
               ELSE w
            body(g) == [k \in 0 .. n |-> IF k = 0 THEN base ELSE next(k, g[k - 1])]
            walk == CHOOSE g : g = body(g)
            cur(k) == IF k = 0 THEN last ELSE a + n - k
            V == [s : Access, out : Seq(Byte)]
            \* What holds of the slots when k bytes have been read.
            Good(k, s) ==
               /\ In(s, at, PageOf(cur(k)))
               /\ Consistent(s, U) /\ Same(View(s), View(Now), U)
               /\ PageOf(cur(k)) = PageOf(last) => Consistent(s, T) /\ Same(View(s), View(Now), T)
               /\ PageOf(cur(k)) \notin T => s.cache[at].data = View(Now)[PageOf(cur(k))]
            Right(k, out) ==
               /\ out \in [1 .. k -> Byte]
               /\ \A j \in 1 .. k : PageOf(a + n - k + j - 1) \notin T =>
                     out[j] = ByteOf(a + n - k + j - 1)
            R == [k \in 0 .. n |->
                    {w \in V : w.s.ok =>
                        PageOf(last) \in Pages /\ Good(k, w.s) /\ Right(k, w.out)}]
            step == [kw \in (1 .. n) \X V |-> next(kw[1], kw[2])]
<1>1. /\ a \in Nat /\ n \in Nat /\ n >= 1 /\ last \in Nat
      /\ PageOf(a) \in Pages /\ PageOf(last) \in Nat /\ PageOf(a) <= PageOf(last)
      /\ Straddled(a, n) = IF Slot(PageOf(a)) = at THEN {} ELSE {PageOf(a), PageOf(last)}
  BY AccessPages
<1>2. ASSUME NEW k \in 1 .. n
      PROVE  /\ a + n - k \in Nat /\ PageOf(a + n - k) \in Nat
             /\ OffsetOf(a + n - k) \in 0 .. PageSize - 1
             /\ PageOf(a + n - k) <= PageOf(last)
             /\ PageOf(a + n - k) \in {PageOf(a), PageOf(last)}
  <2>1. a + n - k \in a .. a + n - 1
    BY <1>1
  <2>. QED  BY <2>1, AccessPages
<1>3. at \in Slots
  BY <1>1, SlotType
<1>4. base \in R[0]
  <2>. DEFINE t == Fetch(Now, PageOf(last))
  <2>1. /\ t \in Access /\ Consistent(t, T) /\ Same(View(t), View(Now), T)
        /\ t.ok => PageOf(last) \in Pages
        /\ PageOf(last) \in Pages => Holds(t, PageOf(last))
    BY <1>1, FetchFacts
  <2>. HIDE DEF t
  <2>2. base = [s |-> t, out |-> <<>>] /\ base.s = t /\ base.out = <<>>
    BY DEF t
  <2>3. cur(0) = last /\ 0 \in 0 .. n
    BY <1>1
  <2>4. <<>> \in Seq(Byte) /\ Right(0, <<>>)
    OBVIOUS
  <2>5. t.ok => Good(0, t)
    <3>. SUFFICES ASSUME t.ok
                  PROVE  Good(0, t)
      OBVIOUS
    <3>1. In(t, at, PageOf(last)) /\ PageOf(last) \in Pages
      BY <2>1 DEF Holds
    <3>2. Consistent(t, U) /\ Same(View(t), View(Now), U)
      <4>1. T \subseteq U
        OBVIOUS
      <4>. HIDE DEF U
      <4>. QED  BY <2>1, <4>1, MoreDamage
    <3>3. PageOf(last) \notin T => t.cache[at].data = View(Now)[PageOf(last)]
      <4>1. t.cache[at].data = View(t)[PageOf(last)]
        BY <2>1, <3>1 DEF View
      <4>. QED  BY <2>1, <3>1, <4>1 DEF Same
    <3>. HIDE DEF U, at, last
    <3>. QED  BY <2>1, <2>3, <3>1, <3>2, <3>3
  <2>. HIDE DEF base, last, cur, Good, Right
  <2>. QED  BY <2>1, <2>2, <2>3, <2>4, <2>5
<1>5. ASSUME NEW k \in 1 .. n, NEW w \in R[k - 1]
      PROVE  step[<<k, w>>] = next(k, w) /\ next(k, w) \in R[k]
  <2>1. k - 1 \in 0 .. n /\ k \in 0 .. n /\ cur(k) = a + n - k
    BY <1>1
  <2>2. w \in V
    BY <2>1
  <2>3. step[<<k, w>>] = next(k, w)
    <3>. HIDE DEF R, V, next
    <3>. QED  BY <2>2
  <2>4. CASE ~w.s.ok
    <3>1. next(k, w) = w
      BY <2>4
    <3>. HIDE DEF next, step, Good, Right, last
    <3>. QED  BY <2>1, <2>2, <2>3, <2>4, <3>1
  <2>5. CASE w.s.ok
    <3>. DEFINE b == a + n - k
                m == moved(k, w)
                x == m.cache[at].data[OffsetOf(b) + 1]
    <3>1. PageOf(last) \in Pages /\ Good(k - 1, w.s) /\ Right(k - 1, w.out)
      <4>. HIDE DEF Good, Right, last
      <4>. QED  BY <2>1, <2>5
    <3>2. /\ b \in Nat /\ PageOf(b) \in Nat /\ OffsetOf(b) \in 0 .. PageSize - 1
          /\ PageOf(b) <= PageOf(last) /\ PageOf(b) \in {PageOf(a), PageOf(last)}
          /\ PageOf(b) \in Pages
      BY <1>1, <1>2, <3>1
    <3>3. /\ m \in Access
          /\ In(m, at, PageOf(b))
          /\ Consistent(m, U) /\ Same(View(m), View(Now), U)
          /\ PageOf(b) = PageOf(last) => Consistent(m, T) /\ Same(View(m), View(Now), T)
          /\ PageOf(b) \notin T => m.cache[at].data = View(Now)[PageOf(b)]
      <4>1. w.s \in Access
        BY <2>2
      <4>2. CASE k > 1 /\ OffsetOf(b) = PageSize - 1
        <5>1. m = FetchInto(w.s, at, PageOf(b))
          BY <4>2
        <5>2. PageOf(b) = PageOf(a) /\ PageOf(cur(k - 1)) = PageOf(last) /\ PageOf(b) # PageOf(last)
          <6>1. cur(k - 1) = b + 1
            BY <1>1, <4>2
          <6>2. k - 1 \in 1 .. n /\ cur(k - 1) = a + n - (k - 1)
            BY <1>1, <4>2
          <6>3. PageOf(cur(k - 1)) \in {PageOf(a), PageOf(last)} /\ PageOf(cur(k - 1)) <= PageOf(last)
            BY <1>2, <6>2
          <6>. HIDE DEF cur, last, b
          <6>4. PageOf(b + 1) = PageOf(b) + 1
            BY <3>2, <4>2, NextAddress
          <6>. QED  BY <1>1, <3>2, <6>1, <6>3, <6>4
        <5>3. /\ In(w.s, at, PageOf(last)) /\ Consistent(w.s, T) /\ Same(View(w.s), View(Now), T)
          <6>. HIDE DEF at, last, cur, U
          <6>. QED  BY <3>1, <5>2
        <5>. DEFINE O == Overwritten(w.s, at, PageOf(b))
        <5>4. O = Straddled(a, n)
          <6>1. O = IF Slot(PageOf(a)) = at THEN {} ELSE {PageOf(last), PageOf(a)}
            BY <5>2, <5>3 DEF Overwritten, In
          <6>. QED  BY <1>1, <6>1
        <5>3a. w.s.cache[at].valid
          BY <5>3 DEF In
        <5>5. /\ In(m, at, PageOf(b)) /\ Consistent(m, T \cup O) /\ Same(View(m), View(w.s), T \cup O)
              /\ PageOf(b) \notin T => m.cache[at].data = View(w.s)[PageOf(b)]
          <6>. DEFINE p == PageOf(b)
                      v == w.s
          <6>1. v \in Access /\ Consistent(v, T) /\ p \in Pages /\ v.cache[at].valid
            BY <3>2, <4>1, <5>3, <5>3a
          <6>2. m = FetchInto(v, at, p) /\ O = Overwritten(v, at, p)
            BY <5>1
          <6>. HIDE DEF R, Good, Right, at, last, cur, b, x, m, p, v, O
          <6>3. /\ In(m, at, p) /\ Consistent(m, T \cup O) /\ Same(View(m), View(v), T \cup O)
                /\ p \notin T => m.cache[at].data = View(v)[p]
            BY <1>3, <6>1, <6>2, FetchIntoFacts
          <6>. QED  BY <6>3 DEF p, v
        <5>6. m \in Access
          <6>. HIDE DEF at, b, last, m
          <6>. QED  BY <1>3, <3>2, <4>1, <5>1, FetchIntoType
        <5>. HIDE DEF O, m, at, last, b
        <5>7. Same(View(m), View(Now), U)
          BY <5>3, <5>4, <5>5 DEF Same
        <5>8. PageOf(b) \notin T => m.cache[at].data = View(Now)[PageOf(b)]
          BY <3>2, <5>3, <5>5 DEF Same
        <5>. QED  BY <5>2, <5>4, <5>5, <5>6, <5>7, <5>8
      <4>3. CASE ~(k > 1 /\ OffsetOf(b) = PageSize - 1)
        <5>1. m = w.s
          BY <4>3
        <5>2. PageOf(cur(k - 1)) = PageOf(b)
          <6>1. CASE k = 1
            BY <6>1
          <6>2. CASE k > 1
            <7>1. cur(k - 1) = b + 1
              BY <1>1, <6>2
            <7>. HIDE DEF cur, b
            <7>. QED  BY <3>2, <4>3, <6>2, <7>1, NextAddress
          <6>. QED  BY <1>1, <6>1, <6>2
        <5>. HIDE DEF m, cur, b, at, last, U
        <5>. QED  BY <3>1, <4>1, <5>1, <5>2
      <4>. QED  BY <4>2, <4>3
    <3>. HIDE DEF moved, m
    <3>4. x \in Byte
      <4>1. m.cache[at].data \in PageData
        BY <1>3, <3>3, SlotData
      <4>2. OffsetOf(b) + 1 \in 1 .. PageSize
        BY <3>2, PageSizes
      <4>. HIDE DEF at, b
      <4>. QED  BY <4>1, <4>2 DEF PageData
    <3>5a. PageOf(b) \notin T => x = ByteOf(b)
      BY <3>3
    <3>. HIDE DEF x, last, at, b
    <3>5. next(k, w) = [s |-> m, out |-> <<x>> \o w.out]
      BY <2>5 DEF m, x, b, at, last
    <3>. HIDE DEF next
    <3>6. Right(k, <<x>> \o w.out)
      <4>1. w.out \in [1 .. k - 1 -> Byte] /\ k - 1 \in Nat
        BY <3>1
      <4>2. (k - 1) + 1 = k
        BY <1>1
      <4>3. /\ <<x>> \o w.out \in [1 .. k -> Byte]
            /\ <<x>> \o w.out = [j \in 1 .. k |-> IF j = 1 THEN x ELSE w.out[j - 1]]
        <5>. DEFINE f == w.out
                    l == k - 1
        <5>1. f \in [1 .. l -> Byte] /\ l \in Nat
          BY <4>1
        <5>. HIDE DEF f, l
        <5>2. /\ <<x>> \o f \in Seq(Byte)
              /\ <<x>> \o f = [j \in 1 .. l + 1 |-> IF j = 1 THEN x ELSE f[j - 1]]
          BY <3>4, <5>1, Prepend
        <5>3. l + 1 = k
          BY <4>2 DEF l
        <5>. DEFINE y == <<x>> \o f
        <5>. HIDE DEF y
        <5>4. y = [j \in 1 .. k |-> IF j = 1 THEN x ELSE f[j - 1]]
          BY <5>2, <5>3 DEF y
        <5>5. \A j \in 1 .. k : j # 1 => j - 1 \in 1 .. l
          BY <5>1, <5>3
        <5>6. y \in [1 .. k -> Byte]
          BY <3>4, <5>1, <5>4, <5>5
        <5>. QED  BY <5>4, <5>6 DEF f, y
      <4>4. ASSUME NEW j \in 1 .. k, PageOf(a + n - k + j - 1) \notin T
            PROVE  (IF j = 1 THEN x ELSE w.out[j - 1]) = ByteOf(a + n - k + j - 1)
        <5>1. CASE j = 1
          <6>1. a + n - k + j - 1 = b
            BY <1>1, <5>1 DEF b
          <6>. QED  BY <3>5a, <4>4, <5>1, <6>1
        <5>2. CASE j # 1
          <6>1. /\ j - 1 \in 1 .. k - 1
                /\ a + n - (k - 1) + (j - 1) - 1 = a + n - k + j - 1
            BY <1>1, <5>2
          <6>. HIDE DEF ByteOf
          <6>2. w.out[j - 1] = ByteOf(a + n - (k - 1) + (j - 1) - 1)
            BY <3>1, <4>4, <6>1
          <6>. QED  BY <5>2, <6>1, <6>2
        <5>. QED  BY <5>1, <5>2
      <4>. HIDE DEF ByteOf
      <4>. QED  BY <4>3, <4>4
    <3>7. next(k, w) \in V /\ next(k, w).s = m /\ next(k, w).out = <<x>> \o w.out
      <4>1. <<x>> \o w.out \in Seq(Byte)
        <5>. DEFINE y == <<x>> \o w.out
        <5>1. y \in [1 .. k -> Byte] /\ k \in Nat
          BY <3>6
        <5>. HIDE DEF y
        <5>2. y \in Seq(Byte)
          BY <5>1
        <5>. QED  BY <5>2 DEF y
      <4>. QED  BY <3>3, <3>5, <4>1
    <3>8. Good(k, m)
      <4>1. cur(k) = b
        BY <2>1 DEF b
      <4>. HIDE DEF cur, U
      <4>. QED  BY <3>3, <4>1
    <3>. HIDE DEF V, Good, Right
    <3>9. next(k, w) \in R[k]
      BY <2>1, <3>1, <3>6, <3>7, <3>8
    <3>. QED  BY <2>3, <3>9
  <2>. QED  BY <2>4, <2>5
<1>. HIDE DEF step, base
<1>6. \E g : g = body(g)
  <2>. HIDE DEF R, next
  <2>1. LoopWithin(n, R, base, step)
    BY <1>4, <1>5 DEF LoopWithin
  <2>2. PICK g : LoopOf(g, n, base, step) /\ \A k \in 0 .. n : g[k] \in R[k]
    BY <1>1, <2>1, LoopExists
  <2>3. \A k \in 1 .. n : k - 1 \in 0 .. n /\ step[<<k, g[k - 1]>>] = next(k, g[k - 1])
    <3>1. \A k \in 1 .. n : k - 1 \in 0 .. n
      BY <1>1
    <3>. QED  BY <1>5, <2>2, <3>1
  <2>4. \A k \in 0 .. n : k = 0 \/ k \in 1 .. n
    BY <1>1
  <2>5. g = [k \in 0 .. n |-> IF k = 0 THEN base ELSE step[<<k, g[k - 1]>>]]
    BY <2>2 DEF LoopOf
  <2>6. g = body(g)
    BY <2>3, <2>4, <2>5
  <2>. QED  BY <2>6
<1>7. walk = body(walk)
  <2>. HIDE DEF body
  <2>. QED  BY <1>6
<1>8. walk[n] \in R[n]
  <2>. HIDE DEF walk, R, next
  <2>. DEFINE Z == {k \in 0 .. n : walk[k] \in R[k]}
  <2>1. 0 \in Z
    BY <1>1, <1>4, <1>7
  <2>2. ASSUME NEW k \in 0 .. n - 1, k \in Z
        PROVE  k + 1 \in Z
    <3>1. k + 1 \in 1 .. n /\ k + 1 \in 0 .. n /\ (k + 1) - 1 = k /\ k + 1 # 0
      BY <1>1
    <3>2. walk[k + 1] = next(k + 1, walk[k])
      BY <1>7, <3>1
    <3>3. walk[k] \in R[(k + 1) - 1]
      BY <2>2, <3>1
    <3>4. next(k + 1, walk[k]) \in R[k + 1]
      BY <1>5, <3>1, <3>3
    <3>. QED  BY <3>1, <3>2, <3>4
  <2>. HIDE DEF Z
  <2>3. \A k \in 0 .. n : k \in Z
    BY <1>1, <2>1, <2>2, NatInduct
  <2>4. n \in Z
    BY <1>1, <2>3
  <2>. QED  BY <2>4 DEF Z
<1>9. ReadVal(a, n) = walk[n]
  BY DEF ReadVal, base
<1>. HIDE DEF walk
<1>10. /\ walk[n] \in V
       /\ walk[n].s.ok => PageOf(last) \in Pages /\ Good(n, walk[n].s) /\ Right(n, walk[n].out)
  <2>1. n \in 0 .. n
    BY <1>1
  <2>. HIDE DEF V, Good, Right, last
  <2>. QED  BY <1>8, <2>1
<1>11. \A j \in 1 .. n : a + n - n + j - 1 = a + j - 1
  BY <1>1
<1>12. PageOf(last) \in Pages => last \in Addresses
  BY <1>1, AddressPages
<1>13. walk[n].s.ok => \A j \in 1 .. n : PageOf(a + j - 1) \notin T => walk[n].out[j] = ByteOf(a + j - 1)
  <2>. HIDE DEF ByteOf, Good
  <2>. QED  BY <1>10, <1>11
<1>. QED  BY <1>9, <1>10, <1>12, <1>13

\* What the pages are when the first k bytes have been written from address a on.
WrittenOver(v, a, bytes, k) ==
    [p \in Pages |-> [o \in 1 .. PageSize |->
        IF p * PageSize + o - a \in 1 .. k THEN bytes[p * PageSize + o - a] ELSE v[p][o]]]

\* One more byte is one place more.
LEMMA WrittenNext ==
    ASSUME NEW v \in [Pages -> PageData], NEW a \in Nat, NEW n \in Nat,
           NEW bytes \in [1 .. n -> Byte], NEW k \in 1 .. n, PageOf(a + k - 1) \in Pages
    PROVE  WrittenOver(v, a, bytes, k) =
              SetByte(WrittenOver(v, a, bytes, k - 1),
                      PageOf(a + k - 1), OffsetOf(a + k - 1), bytes[k])
<1>. DEFINE b == a + k - 1
            q == PageOf(b)
            x == OffsetOf(b)
            old == WrittenOver(v, a, bytes, k - 1)
            new == WrittenOver(v, a, bytes, k)
<1>1. /\ b \in Nat /\ q \in Nat /\ x \in 0 .. PageSize - 1 /\ b = q * PageSize + x
      /\ k \in Nat /\ q \in Pages
  <2>1. b \in Nat
    OBVIOUS
  <2>. HIDE DEF b
  <2>. QED  BY <2>1, Decompose, PageSizes DEF b
<1>2. ASSUME NEW p \in Pages, NEW o \in 1 .. PageSize
      PROVE  new[p][o] = IF p = q /\ o = x + 1 THEN bytes[k] ELSE old[p][o]
  <2>1. p \in Nat /\ p * PageSize \in Nat /\ o \in Nat /\ o - 1 \in 0 .. PageSize - 1
    BY PageSizes DEF Pages
  <2>2. new[p][o] = IF p * PageSize + o - a \in 1 .. k
                    THEN bytes[p * PageSize + o - a] ELSE v[p][o]
    BY DEF WrittenOver
  <2>3. old[p][o] = IF p * PageSize + o - a \in 1 .. k - 1
                    THEN bytes[p * PageSize + o - a] ELSE v[p][o]
    BY DEF WrittenOver
  <2>. HIDE DEF new, old
  <2>4. p * PageSize + o - a = k <=> p * PageSize + (o - 1) = b
    BY <1>1, <2>1
  <2>5. p * PageSize + (o - 1) = b <=> p = q /\ o - 1 = x
    <3>. HIDE DEF q, x
    <3>1. p * PageSize + (o - 1) = b => p = q /\ o - 1 = x
      BY <1>1, <2>1, SamePlace
    <3>2. p = q /\ o - 1 = x => p * PageSize + (o - 1) = b
      BY <1>1
    <3>. QED  BY <3>1, <3>2
  <2>6. o - 1 = x <=> o = x + 1
    BY <1>1, <2>1
  <2>7. p * PageSize + o - a \in Int
    BY <2>1
  <2>. DEFINE j == p * PageSize + o - a
  <2>8. j = k <=> p = q /\ o = x + 1
    BY <2>4, <2>5, <2>6
  <2>9. j \in 1 .. k <=> j \in 1 .. k - 1 \/ j = k
    BY <1>1, <2>7
  <2>10. j = k => j \notin 1 .. k - 1
    BY <1>1
  <2>. HIDE DEF j, q, x
  <2>. QED  BY <2>2, <2>3, <2>8, <2>9, <2>10 DEF j
<1>. DEFINE put == SetByte(old, q, x, bytes[k])
<1>3. /\ new = [p \in Pages |-> [o \in 1 .. PageSize |-> new[p][o]]]
      /\ old = [p \in Pages |-> [o \in 1 .. PageSize |-> old[p][o]]]
  BY DEF WrittenOver
<1>. HIDE DEF new, old, q, x, b
<1>4. put = [p \in Pages |-> [o \in 1 .. PageSize |->
                IF p = q /\ o = x + 1 THEN bytes[k] ELSE old[p][o]]]
  BY <1>1, <1>3 DEF SetByte
<1>5. put = new
  <2>. HIDE DEF put
  <2>1. \A p \in Pages : [o \in 1 .. PageSize |-> new[p][o]] =
           [o \in 1 .. PageSize |-> IF p = q /\ o = x + 1 THEN bytes[k] ELSE old[p][o]]
    BY <1>2
  <2>. QED  BY <1>3, <1>4, <2>1
<1>. QED  BY <1>5 DEF new, old, q, x, b

LEMMA SetByteSame ==
    ASSUME NEW v \in [Pages -> PageData], NEW w \in [Pages -> PageData], NEW T, Same(v, w, T),
           NEW p \in Pages, NEW o, NEW b
    PROVE  Same(SetByte(v, p, o, b), SetByte(w, p, o, b), T)
BY DEF Same, SetByte

LEMMA ViewType ==
    ASSUME NEW s \in Access
    PROVE  View(s) \in [Pages -> PageData]
<1>1. \A p \in Pages : Slot(p) \in Slots
  BY SlotType DEF Pages
<1>2. \A p \in Pages : s.cache[Slot(p)].data \in PageData /\ s.file[p] \in PageData
  BY <1>1, SlotData DEF Access
<1>. QED  BY <1>2 DEF View

LEMMA WrittenType ==
    ASSUME NEW v \in [Pages -> PageData], NEW a \in Nat, NEW n \in Nat,
           NEW bytes \in [1 .. n -> Byte], NEW k \in 0 .. n
    PROVE  WrittenOver(v, a, bytes, k) \in [Pages -> PageData]
<1>1. ASSUME NEW p \in Pages, NEW o \in 1 .. PageSize
      PROVE  (IF p * PageSize + o - a \in 1 .. k THEN bytes[p * PageSize + o - a] ELSE v[p][o]) \in Byte
  <2>. DEFINE j == p * PageSize + o - a
  <2>1. v[p][o] \in Byte
    BY DEF PageData
  <2>2. j \in 1 .. k => j \in 1 .. n
    OBVIOUS
  <2>. HIDE DEF j
  <2>3. (IF j \in 1 .. k THEN bytes[j] ELSE v[p][o]) \in Byte
    BY <2>1, <2>2
  <2>. QED  BY <2>3 DEF j
<1>. QED  BY <1>1 DEF WrittenOver, PageData

\* write_val: the bytes end up in the pages they belong to, and no other byte of
\* any page changes, but for the two pages of an access across two slots.
LEMMA WriteValFacts ==
    ASSUME Now \in Access, NEW T, Consistent(Now, T), Now.ok,
           NEW a \in Addresses, NEW n \in Sizes, NEW bytes \in [1 .. n -> Byte]
    PROVE  LET s == WriteVal(a, bytes)
               U == T \cup Straddled(a, n)
           IN  /\ s \in Access
               /\ s.ok => /\ a + n - 1 \in Addresses
                          /\ Consistent(s, U)
                          /\ Same(View(s), WrittenOver(View(Now), a, bytes, n), U)
<1>. DEFINE at == Slot(PageOf(a))
            U == T \cup Straddled(a, n)
            base == Touch(Fetch(Now, PageOf(a)), at)
            moved(k, w) == IF k > 1 /\ OffsetOf(a + k - 1) = 0
                           THEN Touch(FetchInto(w, at, PageOf(a + k - 1)), at) ELSE w
            next(k, w) ==
               IF w.ok /\ moved(k, w).ok
               THEN Put(moved(k, w), at, OffsetOf(a + k - 1), bytes[k])
               ELSE [moved(k, w) EXCEPT !.ok = FALSE]
            body(g) == [k \in 0 .. n |-> IF k = 0 THEN base ELSE next(k, g[k - 1])]
            walk == CHOOSE g : g = body(g)
            cur(k) == IF k = 0 THEN a ELSE a + k - 1
            Written(k) == WrittenOver(View(Now), a, bytes, k)
            Good(k, w) == /\ In(w, at, PageOf(cur(k))) /\ w.cache[at].dirty
                          /\ Consistent(w, U) /\ Same(View(w), Written(k), U)
            R == [k \in 0 .. n |-> {w \in Access : w.ok => Good(k, w)}]
            step == [kw \in (1 .. n) \X Access |-> next(kw[1], kw[2])]
<1>1. /\ a \in Nat /\ n \in Nat /\ n >= 1 /\ PageOf(a) \in Nat /\ PageOf(a) \in Pages
      /\ Len(bytes) = n /\ a + n - 1 \in Nat
      /\ Straddled(a, n) = IF at = Slot(PageOf(a + n - 1)) THEN {}
                           ELSE {PageOf(a), PageOf(a + n - 1)}
  <2>1. /\ a \in Nat /\ n \in Nat /\ n >= 1 /\ PageOf(a) \in Pages /\ a + n - 1 \in Nat
        /\ Straddled(a, n) = IF at = Slot(PageOf(a + n - 1)) THEN {}
                             ELSE {PageOf(a), PageOf(a + n - 1)}
    BY AccessPages
  <2>2. Len(bytes) = n
    BY <2>1
  <2>. QED  BY <2>1, <2>2, Decompose
<1>2. View(Now) \in [Pages -> PageData] /\ at \in Slots
  BY <1>1, ViewType, SlotType
<1>3. ASSUME NEW k \in 1 .. n
      PROVE  /\ a + k - 1 \in Nat /\ PageOf(a + k - 1) \in Nat
             /\ OffsetOf(a + k - 1) \in 0 .. PageSize - 1
             /\ PageOf(a + k - 1) \in {PageOf(a), PageOf(a + n - 1)}
             /\ Slot(PageOf(a + k - 1)) = at \/ PageOf(a + k - 1) \in U
  <2>. DEFINE b == a + k - 1
  <2>1. b \in a .. a + n - 1
    BY <1>1
  <2>. HIDE DEF b, at
  <2>2. /\ b \in Nat /\ PageOf(b) \in Nat /\ OffsetOf(b) \in 0 .. PageSize - 1
        /\ PageOf(b) \in {PageOf(a), PageOf(a + n - 1)}
    BY <2>1, AccessPages
  <2>3. Slot(PageOf(b)) = at \/ PageOf(b) \in U
    BY <1>1, <2>2 DEF at
  <2>. QED  BY <2>2, <2>3 DEF b
<1>. HIDE DEF at
<1>4. base \in R[0]
  <2>. DEFINE f == Fetch(Now, PageOf(a))
              t == Touch(f, at)
  <2>1. /\ f \in Access /\ Consistent(f, T) /\ Same(View(f), View(Now), T)
        /\ In(f, at, PageOf(a))
    BY <1>1, FetchFacts DEF Holds, at
  <2>. HIDE DEF f
  <2>2. /\ t \in Access /\ Consistent(t, T) /\ View(t) = View(f) /\ In(t, at, PageOf(a))
        /\ t.cache[at].dirty
    BY <1>2, <2>1, TouchFacts
  <2>. HIDE DEF t
  <2>3. base = t
    BY DEF t, f
  <2>4. Written(0) = View(Now)
    <3>1. \A p \in Pages, o \in 1 .. PageSize : p * PageSize + o - a \notin 1 .. 0
      OBVIOUS
    <3>2. View(Now) = [p \in Pages |-> [o \in 1 .. PageSize |-> View(Now)[p][o]]]
      BY <1>2 DEF PageData
    <3>. QED  BY <3>1, <3>2 DEF WrittenOver
  <2>5. Consistent(t, U) /\ Same(View(t), View(Now), U)
    <3>1. T \subseteq U
      OBVIOUS
    <3>. HIDE DEF U
    <3>. QED  BY <2>1, <2>2, <3>1, MoreDamage
  <2>6. cur(0) = a /\ 0 \in 0 .. n
    BY <1>1
  <2>7. Good(0, t)
    <3>. HIDE DEF cur, Written, U
    <3>. QED  BY <2>2, <2>4, <2>5, <2>6
  <2>. HIDE DEF base, Good
  <2>. QED  BY <2>2, <2>3, <2>6, <2>7
<1>5. ASSUME NEW k \in 1 .. n, NEW w \in R[k - 1]
      PROVE  step[<<k, w>>] = next(k, w) /\ next(k, w) \in R[k]
  <2>1. k - 1 \in 0 .. n /\ k \in 0 .. n /\ cur(k) = a + k - 1
    BY <1>1
  <2>2. w \in Access /\ (w.ok => Good(k - 1, w))
    <3>. HIDE DEF Good
    <3>. QED  BY <2>1
  <2>3. step[<<k, w>>] = next(k, w)
    <3>. HIDE DEF R, next
    <3>. QED  BY <2>2
  <2>. DEFINE b == a + k - 1
              m == moved(k, w)
  <2>4. /\ b \in Nat /\ PageOf(b) \in Nat /\ OffsetOf(b) \in 0 .. PageSize - 1
        /\ PageOf(b) \in {PageOf(a), PageOf(a + n - 1)}
        /\ Slot(PageOf(b)) = at \/ PageOf(b) \in U
    BY <1>3
  <2>. HIDE DEF b
  <2>5. /\ m \in Access
        /\ w.ok /\ m.ok => /\ In(m, at, PageOf(b)) /\ m.cache[at].dirty
                           /\ Consistent(m, U) /\ Same(View(m), Written(k - 1), U)
    <3>1. CASE k > 1 /\ OffsetOf(b) = 0
      <4>. DEFINE f == FetchInto(w, at, PageOf(b))
      <4>1. m = Touch(f, at)
        BY <3>1 DEF b
      <4>2. f \in Access /\ f.ok = Fetch(w, PageOf(b)).ok
        BY <1>2, <2>2, <2>4, FetchIntoType
      <4>. HIDE DEF f
      <4>3. /\ m \in Access /\ View(m) = View(f) /\ m.ok = f.ok
            /\ Consistent(f, U) => Consistent(m, U)
            /\ In(m, at, PageOf(b)) <=> In(f, at, PageOf(b))
            /\ m.cache[at].dirty
        <5>. HIDE DEF m, U
        <5>. QED  BY <1>2, <4>1, <4>2, TouchFacts
      <4>. HIDE DEF m
      <4>4. ASSUME w.ok, m.ok
            PROVE  In(f, at, PageOf(b)) /\ Consistent(f, U) /\ Same(View(f), Written(k - 1), U)
        <5>1. /\ In(w, at, PageOf(cur(k - 1))) /\ Consistent(w, U)
              /\ Same(View(w), Written(k - 1), U)
          BY <2>2, <4>4
        <5>2. PageOf(b) \in Pages
          <6>. HIDE DEF U
          <6>. QED  BY <2>2, <2>4, <4>2, <4>3, <4>4, <5>1, FetchFacts
        <5>. DEFINE O == Overwritten(w, at, PageOf(b))
        <5>3. U \cup O = U
          <6>1. PageOf(cur(k - 1)) \in {PageOf(a), PageOf(a + n - 1)}
            <7>1. k - 1 \in 1 .. n /\ cur(k - 1) = a + (k - 1) - 1
              BY <1>1, <3>1
            <7>. HIDE DEF cur
            <7>. QED  BY <1>3, <7>1
          <6>2. ASSUME Slot(PageOf(b)) # at
                PROVE  O \subseteq Straddled(a, n)
            <7>1. PageOf(b) = PageOf(a + n - 1) /\ Slot(PageOf(a + n - 1)) # at
              BY <2>4, <6>2 DEF at
            <7>2. O = {PageOf(cur(k - 1)), PageOf(b)}
              BY <5>1, <6>2 DEF Overwritten, In
            <7>. HIDE DEF cur, O
            <7>. QED  BY <1>1, <6>1, <7>1, <7>2
          <6>3. Slot(PageOf(b)) = at => O = {}
            BY DEF Overwritten
          <6>. HIDE DEF O
          <6>. QED  BY <6>2, <6>3
        <5>4. w.cache[at].valid
          BY <5>1 DEF In
        <5>5. In(f, at, PageOf(b)) /\ Consistent(f, U \cup O) /\ Same(View(f), View(w), U \cup O)
          <6>. DEFINE p == PageOf(b)
          <6>1. p \in Pages /\ f = FetchInto(w, at, p) /\ O = Overwritten(w, at, p)
            BY <5>2 DEF f
          <6>. HIDE DEF p, O, U
          <6>2. In(f, at, p) /\ Consistent(f, U \cup O) /\ Same(View(f), View(w), U \cup O)
            BY <1>2, <2>2, <5>1, <5>4, <6>1, FetchIntoFacts
          <6>. QED  BY <6>2 DEF p
        <5>. HIDE DEF O, U, Written
        <5>. QED  BY <5>1, <5>3, <5>5 DEF Same
      <4>. HIDE DEF Written, U
      <4>. QED  BY <4>3, <4>4
    <3>2. CASE ~(k > 1 /\ OffsetOf(b) = 0)
      <4>1. m = w
        BY <3>2 DEF b
      <4>2. PageOf(cur(k - 1)) = PageOf(b)
        <5>1. CASE k = 1
          BY <1>1, <5>1 DEF b
        <5>2. CASE k > 1
          <6>1. cur(k - 1) = b - 1 /\ b - 1 \in Nat /\ (b - 1) + 1 = b
            BY <1>1, <5>2 DEF b
          <6>2. /\ OffsetOf((b - 1) + 1) = 0 <=> OffsetOf(b - 1) = PageSize - 1
                /\ PageOf((b - 1) + 1) =
                      IF OffsetOf(b - 1) = PageSize - 1 THEN PageOf(b - 1) + 1 ELSE PageOf(b - 1)
            BY <6>1, NextAddress
          <6>. QED  BY <3>2, <5>2, <6>1, <6>2
        <5>. QED  BY <1>1, <5>1, <5>2
      <4>. HIDE DEF m, cur, Written, U
      <4>. QED  BY <2>2, <4>1, <4>2
    <3>. QED  BY <3>1, <3>2
  <2>. HIDE DEF moved, m
  <2>6. CASE w.ok /\ m.ok
    <3>. DEFINE t == Put(m, at, OffsetOf(b), bytes[k])
    <3>1. next(k, w) = t
      BY <2>6 DEF m, b
    <3>2. bytes[k] \in Byte
      OBVIOUS
    <3>3. /\ t \in Access /\ Consistent(t, U) /\ In(t, at, PageOf(b)) /\ t.cache[at].dirty
          /\ Same(View(t), SetByte(View(m), PageOf(b), OffsetOf(b), bytes[k]), U)
      <4>. DEFINE p == PageOf(b)
                  o == OffsetOf(b)
                  y == bytes[k]
      <4>1. In(m, at, p) /\ m.cache[at].dirty /\ Consistent(m, U) /\ m \in Access
        BY <2>5, <2>6
      <4>2. (Slot(p) = at \/ p \in U) /\ o \in 0 .. PageSize - 1 /\ y \in Byte
        BY <2>4, <3>2
      <4>. HIDE DEF p, o, y, U
      <4>3. LET u == Put(m, at, o, y)
            IN  /\ u \in Access /\ Consistent(u, U) /\ In(u, at, p) /\ u.cache[at].dirty
                /\ Same(View(u), SetByte(View(m), p, o, y), U)
        BY <1>2, <4>1, <4>2, PutFacts
      <4>. QED  BY <4>3 DEF p, o, y
    <3>4. PageOf(b) \in Pages
      BY <1>2, <2>5, <2>6, SlotData DEF In
    <3>5. Written(k) = SetByte(Written(k - 1), PageOf(b), OffsetOf(b), bytes[k])
      <4>. DEFINE v == View(Now)
      <4>1. v \in [Pages -> PageData] /\ PageOf(a + k - 1) \in Pages /\ a \in Nat /\ n \in Nat
        BY <1>1, <1>2, <3>4 DEF b
      <4>. HIDE DEF v
      <4>2. WrittenOver(v, a, bytes, k) =
              SetByte(WrittenOver(v, a, bytes, k - 1),
                      PageOf(a + k - 1), OffsetOf(a + k - 1), bytes[k])
        BY <4>1, WrittenNext
      <4>. QED  BY <4>2 DEF v, b
    <3>6. cur(k) = b
      BY <2>1 DEF b
    <3>7. Same(SetByte(View(m), PageOf(b), OffsetOf(b), bytes[k]), Written(k), U)
      <4>. DEFINE v == View(m)
                  x == Written(k - 1)
      <4>1. v \in [Pages -> PageData]
        BY <2>5, ViewType
      <4>2. x \in [Pages -> PageData]
        BY <1>1, <1>2, <2>1, WrittenType
      <4>3. Same(v, x, U)
        BY <2>5, <2>6
      <4>. HIDE DEF v, x, U
      <4>4. Same(SetByte(v, PageOf(b), OffsetOf(b), bytes[k]), SetByte(x, PageOf(b), OffsetOf(b), bytes[k]), U)
        BY <3>4, <4>1, <4>2, <4>3, SetByteSame
      <4>. HIDE DEF Written
      <4>. QED  BY <3>5, <4>4 DEF v, x
    <3>. HIDE DEF next, t, cur, Written, U
    <3>8. Same(View(t), Written(k), U)
      BY <3>3, <3>7 DEF Same
    <3>9. Good(k, t)
      BY <3>3, <3>6, <3>8
    <3>. HIDE DEF Good
    <3>. QED  BY <2>1, <2>3, <3>1, <3>3, <3>9
  <2>7. CASE ~(w.ok /\ m.ok)
    <3>. DEFINE t == [m EXCEPT !.ok = FALSE]
    <3>1. next(k, w) = t
      BY <2>7 DEF m
    <3>2. t \in Access /\ ~t.ok
      BY <2>5 DEF Access
    <3>. HIDE DEF next, t, Good
    <3>. QED  BY <2>1, <2>3, <3>1, <3>2
  <2>. QED  BY <2>6, <2>7
<1>. HIDE DEF step, base
<1>6. \E g : g = body(g)
  <2>. HIDE DEF R, next
  <2>1. LoopWithin(n, R, base, step)
    BY <1>4, <1>5 DEF LoopWithin
  <2>2. PICK g : LoopOf(g, n, base, step) /\ \A k \in 0 .. n : g[k] \in R[k]
    BY <1>1, <2>1, LoopExists
  <2>3. \A k \in 1 .. n : k - 1 \in 0 .. n /\ step[<<k, g[k - 1]>>] = next(k, g[k - 1])
    <3>1. \A k \in 1 .. n : k - 1 \in 0 .. n
      BY <1>1
    <3>. QED  BY <1>5, <2>2, <3>1
  <2>4. \A k \in 0 .. n : k = 0 \/ k \in 1 .. n
    BY <1>1
  <2>5. g = [k \in 0 .. n |-> IF k = 0 THEN base ELSE step[<<k, g[k - 1]>>]]
    BY <2>2 DEF LoopOf
  <2>6. g = body(g)
    BY <2>3, <2>4, <2>5
  <2>. QED  BY <2>6
<1>7. walk = body(walk)
  <2>. HIDE DEF body
  <2>. QED  BY <1>6
<1>8. walk[n] \in R[n]
  <2>. HIDE DEF walk, R, next
  <2>. DEFINE Z == {k \in 0 .. n : walk[k] \in R[k]}
  <2>1. 0 \in Z
    BY <1>1, <1>4, <1>7
  <2>2. ASSUME NEW k \in 0 .. n - 1, k \in Z
        PROVE  k + 1 \in Z
    <3>1. k + 1 \in 1 .. n /\ k + 1 \in 0 .. n /\ (k + 1) - 1 = k /\ k + 1 # 0
      BY <1>1
    <3>2. walk[k + 1] = next(k + 1, walk[k])
      BY <1>7, <3>1
    <3>3. walk[k] \in R[(k + 1) - 1]
      BY <2>2, <3>1
    <3>4. next(k + 1, walk[k]) \in R[k + 1]
      BY <1>5, <3>1, <3>3
    <3>. QED  BY <3>1, <3>2, <3>4
  <2>. HIDE DEF Z
  <2>3. \A k \in 0 .. n : k \in Z
    BY <1>1, <2>1, <2>2, NatInduct
  <2>4. n \in Z
    BY <1>1, <2>3
  <2>. QED  BY <2>4 DEF Z
<1>9. WriteVal(a, bytes) = walk[n]
  BY <1>1 DEF WriteVal, base, at
<1>. HIDE DEF walk
<1>10. walk[n] \in Access /\ (walk[n].ok => Good(n, walk[n]))
  <2>1. n \in 0 .. n
    BY <1>1
  <2>. HIDE DEF Good
  <2>. QED  BY <1>8, <2>1
<1>11. walk[n].ok => a + n - 1 \in Addresses
  <2>1. cur(n) = a + n - 1
    BY <1>1
  <2>2. walk[n].ok => PageOf(a + n - 1) \in Pages
    BY <1>2, <1>10, <2>1, SlotData DEF In
  <2>. QED  BY <1>1, <2>2, AddressPages
<1>. QED  BY <1>9, <1>10, <1>11

-----------------------------------------------------------------------------
(* The operations on data, and the array of bytes they implement.          *)

\* The inductive invariant of the cache: nothing is cached while there is no
\* process, so that the next one starts from its file alone.
CacheInv ==
    /\ PagesInv
    /\ TypeOK
    /\ CacheConsistent
    /\ SaveComplete
    /\ phase \in {"saved", "crashed"} => cache = [i \in Slots |-> EmptyPage]

\* The bytes PageStore keeps.
Mem == IF phase \in {"on", "saving"} THEN Contents ELSE [p \in Pages |-> ZeroPage]

LEMMA NowFacts ==
    ASSUME CacheInv
    PROVE  /\ Now \in Access /\ Consistent(Now, torn) /\ Now.ok
           /\ Now.cache = cache /\ Now.file = file /\ View(Now) = Contents
           /\ Contents \in [Pages -> PageData]
<1>1. /\ Now.cache = cache /\ Now.file = file /\ Now.ok
      /\ cache \in [Slots -> CachePage] /\ file \in [Pages -> PageData]
  BY DEF Now, CacheInv, TypeOK
<1>2. Now \in Access
  BY <1>1 DEF Now, Access
<1>3. Consistent(Now, torn)
  BY <1>1 DEF Consistent, CacheInv, CacheConsistent
<1>4. View(Now) = Contents
  BY <1>1 DEF View, Holds, In, Contents
<1>5. \A p \in Pages : Slot(p) \in Slots
  BY SlotType DEF Pages
<1>6. Contents \in [Pages -> PageData]
  BY <1>1, <1>5 DEF Contents, CachePage
<1>. QED  BY <1>1, <1>2, <1>3, <1>4, <1>6

LEMMA ZeroPageType == ZeroPage \in PageData /\ EmptyPage \in CachePage /\ ~EmptyPage.valid
<1>1. ZeroPage \in PageData
  BY DiskAssumption DEF ZeroPage, PageData
<1>2. 0 \in Pages
  BY DiskAssumption DEF Pages
<1>. QED  BY <1>1, <1>2 DEF EmptyPage, CachePage

\* An empty cache in front of a file.
LEMMA EmptyCache ==
    ASSUME NEW c, c = [i \in Slots |-> EmptyPage]
    PROVE  c \in [Slots -> CachePage] /\ \A i \in Slots : ~c[i].valid
BY ZeroPageType

\* How an operation on data ends.
LEMMA FinishFacts ==
    ASSUME NEW lost, NEW s, NEW r, CacheInv, phase = "on", s \in Access,
           s.ok => lost \subseteq Pages, s.ok => Consistent(s, torn \cup lost),
           r.status \in {"ok", "throw"}, s.ok => r.bytes \in Seq(Byte), Finish(s, r, lost)
    PROVE  /\ CacheInv'
           /\ s.ok => Mem' = View(s) /\ reply' = r /\ torn' = torn \cup lost
           /\ ~s.ok => Mem' = [p \in Pages |-> ZeroPage] /\ reply' = Done /\ torn' = {}
<1>1. /\ s.cache \in [Slots -> CachePage] /\ s.file \in [Pages -> PageData]
  BY DEF Access
<1>2. /\ UNCHANGED <<blocks, info>> /\ file' = s.file
      /\ used \subseteq Pages /\ PagesInv /\ blocks \in Seq(FB!FreeBlock) /\ info \in InfoFile
      /\ torn \subseteq Pages
  BY DEF Finish, CacheInv, PagesInv, TypeOK
<1>3. CASE s.ok
  <2>1. cache' = s.cache /\ phase' = "on" /\ reply' = r /\ used' = used /\ torn' = torn \cup lost
    BY <1>3 DEF Finish
  <2>2. PagesInv'
    BY <1>2, <2>1 DEF PagesInv
  <2>3. TypeOK'
    BY <1>1, <1>2, <1>3, <2>1 DEF TypeOK
  <2>4. CacheConsistent'
    BY <1>2, <1>3, <2>1 DEF Consistent, CacheConsistent
  <2>5. Mem' = View(s)
    BY <1>2, <2>1 DEF Mem, Contents, View, Holds, In
  <2>. QED  BY <1>3, <2>1, <2>2, <2>3, <2>4, <2>5 DEF CacheInv, SaveComplete
<1>4. CASE ~s.ok
  <2>1. /\ cache' = [i \in Slots |-> EmptyPage] /\ phase' = "crashed" /\ reply' = Done
        /\ used' = {} /\ torn' = {}
    BY <1>4 DEF Finish
  <2>2. PagesInv'
    BY <1>2, <2>1 DEF PagesInv
  <2>3. cache' \in [Slots -> CachePage] /\ \A i \in Slots : ~cache'[i].valid
    BY <2>1, EmptyCache
  <2>4. Done.status = "ok" /\ Done.bytes = <<>> /\ <<>> \in Seq(Byte)
    BY DEF Done
  <2>5. TypeOK'
    BY <1>1, <1>2, <2>1, <2>3, <2>4 DEF TypeOK
  <2>6. CacheConsistent'
    BY <2>3 DEF CacheConsistent
  <2>7. Mem' = [p \in Pages |-> ZeroPage]
    BY <2>1 DEF Mem
  <2>. QED  BY <1>4, <2>1, <2>2, <2>5, <2>6, <2>7 DEF CacheInv, SaveComplete
<1>. QED  BY <1>3, <1>4

\* PageStore's variables and constants in terms of Disk's.
StoreStep == Store!Next \/ (Mem' = Mem /\ reply' = reply /\ torn' = torn)

LEMMA StoreStepMeans == StoreStep => [Store!Next]_(Store!vars)
BY DEF StoreStep, Store!vars, Mem

LEMMA StoreNames ==
    /\ Store!Pages = Pages /\ Store!Addresses = Addresses /\ Store!PageData = PageData
    /\ Store!Done = Done /\ Store!ZeroPage = ZeroPage
    /\ \A a : Store!PageOf(a) = PageOf(a)
BY DEF Store!Pages, Pages, Store!Addresses, Addresses, Store!PageData, PageData, Store!Done, Done,
       Store!ZeroPage, ZeroPage, Store!PageOf, PageOf

\* Two pages have slots of their own only if they are of two groups.
LEMMA DamagedPages ==
    ASSUME NEW a, NEW n
    PROVE  (torn \cup Straddled(a, n)) \in {torn, torn \cup Store!Damaged(a, n)}
<1>1. PageOf(a) \div PageSize = PageOf(a + n - 1) \div PageSize => Straddled(a, n) = {}
  BY DEF Straddled, Slot
<1>2. Straddled(a, n) = {} \/ Straddled(a, n) = {PageOf(a), PageOf(a + n - 1)}
  BY DEF Straddled
<1>3. Store!Damaged(a, n) = IF PageOf(a) \div PageSize = PageOf(a + n - 1) \div PageSize THEN {}
                            ELSE {PageOf(a), PageOf(a + n - 1)}
  BY StoreNames DEF Store!Damaged
<1>. QED  BY <1>1, <1>2, <1>3

\* All pages but the damaged ones hold what m says.
LEMMA HoldsFacts ==
    ASSUME NEW m, Mem' \in [Pages -> PageData], Same(Mem', m, torn')
    PROVE  Store!Holds(m)
BY StoreNames DEF Store!Holds, Same, Mem

LEMMA UntornEmpty ==
    ASSUME NEW s, NEW v, NEW w, NEW T
    PROVE  /\ Consistent(s, T) => Consistent(s, T \cup {})
           /\ Same(v, w, T) => Same(v, w, T \cup {})
BY DEF Consistent, Same

\* A process that ends takes what was stored with it.
LEMMA WipeStep ==
    ASSUME Mem' = [p \in Pages |-> ZeroPage], reply' = Done, torn' = {}
    PROVE  StoreStep
<1>1. Store!Wipe
  BY StoreNames DEF Store!Wipe, Store!Blank, Mem
<1>. QED  BY <1>1 DEF StoreStep, Store!Next

\* A page behind a page of zeros, as read_page returns it.
LEMMA BehindZeros ==
    ASSUME NEW data \in PageData
    PROVE  ZeroPage \o data \in Seq(Byte)
<1>1. ZeroPage \in Seq(Byte) /\ data \in Seq(Byte)
  BY ZeroPageType, PageSizes DEF PageData
<1>. QED  BY <1>1

LEMMA ReadPageStep ==
    ASSUME CacheInv, NEW p \in Pages \cup {NPages}, ReadPage(p)
    PROVE  CacheInv' /\ StoreStep
<1>. DEFINE s == Fetch(Now, p)
            data == s.cache[Slot(p)].data
            r == PageReply(data)
<1>1. phase = "on" /\ Finish(s, r, {}) /\ p \in Nat
  BY DiskAssumption DEF ReadPage, Pages
<1>2. /\ s \in Access /\ Consistent(s, torn \cup {}) /\ Same(View(s), Contents, torn) /\ Mem = Contents
      /\ s.ok => p \in Pages /\ Holds(s, p)
  BY <1>1, NowFacts, FetchFacts, UntornEmpty DEF Mem
<1>. HIDE DEF s
<1>3. data \in PageData
  BY <1>1, <1>2, SlotType, SlotData
<1>4. s.ok /\ p \notin torn => data = Contents[p]
  BY <1>2 DEF View, Same
<1>. HIDE DEF data
<1>5. /\ r.status = "ok" /\ r.bytes = ZeroPage \o data /\ r.bytes \in Seq(Byte)
  BY <1>3, BehindZeros DEF PageReply
<1>. HIDE DEF r
<1>6. /\ CacheInv'
      /\ s.ok => Mem' = View(s) /\ reply' = r /\ torn' = torn \cup {}
      /\ ~s.ok => Mem' = [q \in Pages |-> ZeroPage] /\ reply' = Done /\ torn' = {}
  <2>. DEFINE lost == {}
  <2>1. lost \subseteq Pages /\ Consistent(s, torn \cup lost) /\ Finish(s, r, lost)
    BY <1>1, <1>2
  <2>. HIDE DEF lost
  <2>2. /\ CacheInv'
        /\ s.ok => Mem' = View(s) /\ reply' = r /\ torn' = torn \cup lost
        /\ ~s.ok => Mem' = [q \in Pages |-> ZeroPage] /\ reply' = Done /\ torn' = {}
    BY <1>1, <1>2, <1>5, <2>1, FinishFacts
  <2>. QED  BY <2>2 DEF lost
<1>7. CASE s.ok
  <2>1. Store!Holds(Mem)
    <3>1. Mem' \in [Pages -> PageData] /\ Same(Mem', Mem, torn')
      BY <1>2, <1>6, <1>7, ViewType DEF Same
    <3>. QED  BY <3>1, HoldsFacts
  <2>2. Store!ReadPage
    <3>1. p \in Pages /\ reply'.status = "ok" /\ torn' = torn
          /\ (p \notin torn => reply'.bytes = ZeroPage \o Mem[p])
      BY <1>2, <1>4, <1>5, <1>6, <1>7
    <3>. QED  BY <2>1, <3>1, StoreNames DEF Store!ReadPage, Mem
  <2>. QED  BY <1>6, <2>2 DEF StoreStep, Store!Next
<1>8. CASE ~s.ok
  BY <1>6, <1>8, WipeStep
<1>. QED  BY <1>7, <1>8

LEMMA WritePageStep ==
    ASSUME CacheInv, NEW p \in Pages, NEW bytes \in PageData, WritePage(p, bytes)
    PROVE  CacheInv' /\ StoreStep
<1>. DEFINE s == Fetch(Now, p)
            t == [s EXCEPT !.cache[Slot(p)] =
                     [page |-> p, data |-> bytes, dirty |-> TRUE, valid |-> TRUE]]
<1>1. phase = "on" /\ Finish(t, Done, {}) /\ p \in Nat /\ Slot(p) \in Slots
  BY DiskAssumption, SlotType DEF WritePage, Pages
<1>2. /\ s \in Access /\ Consistent(s, torn) /\ Same(View(s), Contents, torn) /\ Mem = Contents
      /\ s.ok /\ In(s, Slot(p), p)
  BY <1>1, NowFacts, FetchFacts DEF Mem, Holds
<1>. HIDE DEF s
<1>3. /\ t \in Access /\ Consistent(t, torn) /\ t.ok
      /\ Same(View(t), [View(s) EXCEPT ![p] = bytes], torn)
  <2>. DEFINE at == Slot(p)
  <2>1. at \in Slots /\ In(s, at, p) /\ Slot(p) = at
    BY <1>1, <1>2
  <2>. HIDE DEF at
  <2>2. LET u == [s EXCEPT !.cache[at] =
                     [page |-> p, data |-> bytes, dirty |-> TRUE, valid |-> TRUE]]
        IN  /\ u \in Access /\ Consistent(u, torn) /\ u.ok
            /\ Same(View(u), [View(s) EXCEPT ![p] = bytes], torn)
    BY <1>2, <2>1, StoreFacts
  <2>. QED  BY <2>2 DEF at
<1>. HIDE DEF t
<1>4. Same(View(t), [Contents EXCEPT ![p] = bytes], torn)
  <2>1. View(s) \in [Pages -> PageData] /\ Contents \in [Pages -> PageData]
    BY <1>2, ViewType, NowFacts
  <2>. QED  BY <1>2, <1>3, <2>1 DEF Same
<1>5. CacheInv' /\ Mem' = View(t) /\ reply' = Done /\ torn' = torn
  <2>. DEFINE lost == {}
              r == Done
  <2>1. lost \subseteq Pages /\ Consistent(t, torn \cup lost) /\ Finish(t, r, lost)
    BY <1>1, <1>3, UntornEmpty
  <2>2. r.status \in {"ok", "throw"} /\ r.bytes \in Seq(Byte)
    BY DEF Done
  <2>. HIDE DEF lost, r
  <2>3. CacheInv' /\ Mem' = View(t) /\ reply' = r /\ torn' = torn \cup lost
    BY <1>1, <1>3, <2>1, <2>2, FinishFacts
  <2>. QED  BY <2>3 DEF lost, r
<1>6. Store!Holds([Mem EXCEPT ![p] = bytes])
  <2>1. Mem' \in [Pages -> PageData] /\ Same(Mem', [Mem EXCEPT ![p] = bytes], torn')
    BY <1>2, <1>3, <1>4, <1>5, ViewType
  <2>. QED  BY <2>1, HoldsFacts
<1>7. Store!WritePage
  BY <1>5, <1>6, StoreNames DEF Store!WritePage, Mem
<1>. QED  BY <1>5, <1>7 DEF StoreStep, Store!Next

LEMMA ReadBytesStep ==
    ASSUME CacheInv, NEW a \in Addresses, NEW n \in Sizes, ReadBytes(a, n)
    PROVE  CacheInv' /\ StoreStep
<1>. DEFINE v == ReadVal(a, n)
            r == [status |-> "ok", bytes |-> v.out]
            lost == Straddled(a, n)
<1>1. phase = "on" /\ Finish(v.s, r, lost)
  BY DEF ReadBytes
<1>2. Mem = Contents /\ Contents = View(Now) /\ n \in Nat
  BY <1>1, NowFacts, DiskAssumption DEF Mem
<1>3. /\ v.s \in Access
      /\ v.s.ok => /\ a + n - 1 \in Addresses
                   /\ Consistent(v.s, torn \cup lost) /\ Same(View(v.s), View(Now), torn \cup lost)
                   /\ v.out \in [1 .. n -> Byte]
                   /\ \A k \in 1 .. n : PageOf(a + k - 1) \notin torn =>
                         v.out[k] = View(Now)[PageOf(a + k - 1)][OffsetOf(a + k - 1) + 1]
  BY NowFacts, ReadValFacts
<1>4. v.s.ok => lost \subseteq Pages
  BY <1>3, AccessPages, AddressPages DEF Straddled
<1>5. lost = Straddled(a, n)
  OBVIOUS
<1>. HIDE DEF v, lost
<1>6. r.status = "ok" /\ r.bytes = v.out
  OBVIOUS
<1>. HIDE DEF r
<1>7. /\ CacheInv'
      /\ v.s.ok => Mem' = View(v.s) /\ reply' = r /\ torn' = torn \cup lost
      /\ ~v.s.ok => Mem' = [q \in Pages |-> ZeroPage] /\ reply' = Done /\ torn' = {}
  <2>1. v.s.ok => r.bytes \in Seq(Byte)
    BY <1>2, <1>3, <1>6
  <2>2. r.status \in {"ok", "throw"}
    BY <1>6
  <2>. QED  BY <1>1, <1>3, <1>4, <2>1, <2>2, FinishFacts
<1>8. CASE v.s.ok
  <2>1. Store!Holds(Mem)
    <3>1. Mem' \in [Pages -> PageData] /\ Same(Mem', Mem, torn')
      BY <1>2, <1>3, <1>7, <1>8, ViewType
    <3>. QED  BY <3>1, HoldsFacts
  <2>2. torn' \in {torn, torn \cup Store!Damaged(a, n)}
    BY <1>5, <1>7, <1>8, DamagedPages
  <2>3. /\ reply'.status = "ok" /\ DOMAIN reply'.bytes = 1 .. n
        /\ \A k \in 1 .. n : PageOf(a + k - 1) \notin torn =>
              reply'.bytes[k] = Mem[PageOf(a + k - 1)][((a + k - 1) % PageSize) + 1]
    <3>1. reply' = r /\ r.bytes = v.out /\ v.out \in [1 .. n -> Byte]
      BY <1>3, <1>6, <1>7, <1>8
    <3>. QED  BY <1>2, <1>3, <1>6, <1>8, <3>1 DEF OffsetOf
  <2>4. Store!Read
    <3>1. a + n - 1 \in Addresses
      BY <1>3, <1>8
    <3>2. \A k \in 1 .. n : Store!ByteAt(a + k - 1) =
                               Mem[PageOf(a + k - 1)][((a + k - 1) % PageSize) + 1]
      BY StoreNames DEF Store!ByteAt, Mem
    <3>3. \A k \in 1 .. n : Store!PageOf(a + k - 1) \notin torn =>
              reply'.bytes[k] = Store!ByteAt(a + k - 1)
      BY <2>3, <3>2, StoreNames
    <3>4. a \in Store!Addresses /\ a + n - 1 \in Store!Addresses
      BY <3>1, StoreNames
    <3>. QED  BY <2>1, <2>2, <2>3, <3>3, <3>4 DEF Store!Read, Mem
  <2>. QED  BY <1>7, <2>4 DEF StoreStep, Store!Next
<1>9. CASE ~v.s.ok
  BY <1>7, <1>9, WipeStep
<1>. QED  BY <1>8, <1>9

LEMMA WriteBytesStep ==
    ASSUME CacheInv, NEW a \in Addresses, NEW n \in Sizes, NEW bytes \in [1 .. n -> Byte],
           WriteBytes(a, bytes)
    PROVE  CacheInv' /\ StoreStep
<1>. DEFINE s == WriteVal(a, bytes)
            lost == Straddled(a, n)
<1>1. phase = "on" /\ Finish(s, Done, lost) /\ n \in Nat
  <2>1. n \in Nat /\ Len(bytes) = n
    BY DiskAssumption
  <2>. QED  BY <2>1 DEF WriteBytes
<1>2. Mem = Contents /\ Contents = View(Now)
  BY <1>1, NowFacts DEF Mem
<1>3. /\ s \in Access
      /\ s.ok => /\ a + n - 1 \in Addresses
                 /\ Consistent(s, torn \cup lost)
                 /\ Same(View(s), WrittenOver(Mem, a, bytes, n), torn \cup lost)
  BY <1>2, NowFacts, WriteValFacts
<1>4. s.ok => lost \subseteq Pages
  BY <1>3, AccessPages, AddressPages DEF Straddled
<1>5. lost = Straddled(a, n)
  OBVIOUS
<1>. HIDE DEF s, lost
<1>6. /\ CacheInv'
      /\ s.ok => Mem' = View(s) /\ reply' = Done /\ torn' = torn \cup lost
      /\ ~s.ok => Mem' = [q \in Pages |-> ZeroPage] /\ reply' = Done /\ torn' = {}
  <2>. DEFINE r == Done
  <2>1. r.status \in {"ok", "throw"} /\ r.bytes \in Seq(Byte) /\ Finish(s, r, lost)
    BY <1>1 DEF Done
  <2>. HIDE DEF r
  <2>2. /\ CacheInv'
        /\ s.ok => Mem' = View(s) /\ reply' = r /\ torn' = torn \cup lost
        /\ ~s.ok => Mem' = [q \in Pages |-> ZeroPage] /\ reply' = Done /\ torn' = {}
    BY <1>1, <1>3, <1>4, <2>1, FinishFacts
  <2>. QED  BY <2>2 DEF r
<1>7. CASE s.ok
  <2>. DEFINE m == [p \in Pages |-> [o \in 1 .. PageSize |->
                       LET k == p * PageSize + o - a
                       IN  IF k \in 1 .. n THEN bytes[k] ELSE Mem[p][o]]]
  <2>1. m = WrittenOver(Mem, a, bytes, n)
    BY DEF WrittenOver
  <2>. HIDE DEF m
  <2>2. Store!Holds(m)
    <3>1. Mem' \in [Pages -> PageData] /\ Same(Mem', m, torn')
      BY <1>3, <1>6, <1>7, <2>1, ViewType
    <3>. QED  BY <3>1, HoldsFacts
  <2>3. torn' \in {torn, torn \cup Store!Damaged(a, n)}
    BY <1>5, <1>6, <1>7, DamagedPages
  <2>4. Store!Write
    <3>1. a \in Store!Addresses /\ a + n - 1 \in Store!Addresses /\ reply' = Store!Done
      BY <1>3, <1>6, <1>7, StoreNames
    <3>2. m = [p \in Store!Pages |-> [o \in 1 .. PageSize |->
                  LET k == p * PageSize + o - a
                  IN  IF k \in 1 .. n THEN bytes[k] ELSE Mem[p][o]]]
      BY StoreNames DEF m
    <3>. QED  BY <2>2, <2>3, <3>1, <3>2 DEF Store!Write, Mem
  <2>. QED  BY <1>6, <2>4 DEF StoreStep, Store!Next
<1>8. CASE ~s.ok
  BY <1>6, <1>8, WipeStep
<1>. QED  BY <1>7, <1>8

LEMMA InitCache == Init => CacheInv /\ Store!Init
<1>. SUFFICES ASSUME Init
              PROVE  CacheInv /\ Store!Init
  OBVIOUS
<1>1. /\ cache \in [Slots -> CachePage] /\ \A i \in Slots : ~cache[i].valid
  BY EmptyCache DEF Init
<1>2. /\ phase = "on" /\ file = [p \in Pages |-> ZeroPage] /\ reply = Done /\ torn = {}
      /\ file \in [Pages -> PageData]
  BY ZeroPageType DEF Init
<1>3. PagesInv
  BY InitPages
<1>4. Done.status = "ok" /\ Done.bytes = <<>> /\ <<>> \in Seq(Byte)
  BY DEF Done
<1>5. TypeOK
  BY <1>1, <1>2, <1>3, <1>4 DEF TypeOK, PagesInv, PageList
<1>6. CacheInv
  BY <1>1, <1>2, <1>3, <1>5 DEF CacheInv, CacheConsistent, SaveComplete
<1>7. Contents = file
  <2>1. \A p \in Pages : Slot(p) \in Slots
    BY SlotType DEF Pages
  <2>. QED  BY <1>1, <1>2, <2>1 DEF Contents
<1>8. Store!Init
  BY <1>2, <1>7, StoreNames DEF Store!Init, Store!Blank
<1>. QED  BY <1>6, <1>8

LEMMA WritePageThrowsStep ==
    ASSUME CacheInv, NEW bytes, WritePageThrows(bytes)
    PROVE  CacheInv' /\ StoreStep
<1>1. /\ reply' = Threw /\ UNCHANGED <<cache, file, blocks, used, info, phase, torn>>
  BY DEF WritePageThrows, dataVars, pageVars
<1>2. Threw.status = "throw" /\ Threw.bytes = <<>> /\ <<>> \in Seq(Byte)
  BY DEF Threw
<1>3. CacheInv'
  BY <1>1, <1>2
     DEF CacheInv, PagesInv, TypeOK, CacheConsistent, SaveComplete, Contents
<1>4. Mem' = Mem
  BY <1>1 DEF Mem, Contents
<1>5. Store!Refuse
  BY <1>1, <1>4 DEF Store!Refuse, Threw, Mem
<1>. QED  BY <1>3, <1>5 DEF StoreStep, Store!Next

\* save writes to each page of the file what the cache has of it: no more than
\* one slot can hold a page, unless it is damaged.
LEMMA Saved ==
    ASSUME CacheInv, SaveFile
    PROVE  file' \in [Pages -> PageData] /\ Same(file', Contents, torn)
<1>1. \A p \in Pages : Slot(p) \in Slots
  BY SlotType DEF Pages
<1>2. /\ cache \in [Slots -> CachePage] /\ CacheConsistent /\ Contents \in [Pages -> PageData]
  BY NowFacts DEF CacheInv, TypeOK
<1>. DEFINE S(p) == {i \in Slots : cache[i].valid /\ cache[i].dirty /\ cache[i].page = p}
<1>3. file' = [p \in Pages |-> IF S(p) = {} THEN file[p] ELSE cache[Max(S(p))].data]
  BY DEF SaveFile
<1>4. ASSUME NEW p \in Pages \ torn
      PROVE  file'[p] = Contents[p]
  <2>1. S(p) \subseteq {Slot(p)}
    BY <1>2 DEF CacheConsistent
  <2>2. Contents[p] = IF cache[Slot(p)].valid /\ cache[Slot(p)].page = p
                      THEN cache[Slot(p)].data ELSE file[p]
    BY DEF Contents
  <2>3. file'[p] = IF S(p) = {} THEN file[p] ELSE cache[Max(S(p))].data
    BY <1>3
  <2>4. CASE S(p) = {}
    <3>1. ~(cache[Slot(p)].valid /\ cache[Slot(p)].dirty /\ cache[Slot(p)].page = p)
      BY <1>1, <2>4
    <3>. QED  BY <1>1, <1>2, <2>2, <2>3, <2>4, <3>1 DEF CacheConsistent
  <2>5. CASE S(p) # {}
    <3>1. Slot(p) \in S(p)
      BY <2>1, <2>5
    <3>2. Max(S(p)) = Slot(p)
      <4>1. S(p) \in SUBSET (0 .. CacheSize - 1) /\ CacheSize - 1 \in Nat
        BY DiskAssumption DEF Slots
      <4>. HIDE DEF S
      <4>2. Max(S(p)) \in S(p)
        BY <2>5, <4>1, MaxNat
      <4>. QED  BY <2>1, <4>2
    <3>. QED  BY <2>2, <2>3, <2>5, <3>1, <3>2
  <2>. QED  BY <2>4, <2>5
<1>5. file' \in [Pages -> PageData]
  <2>1. ASSUME NEW p \in Pages
        PROVE  (IF S(p) = {} THEN file[p] ELSE cache[Max(S(p))].data) \in PageData
    <3>1. CASE S(p) = {}
      BY <3>1 DEF CacheInv, TypeOK
    <3>2. CASE S(p) # {}
      <4>1. S(p) \in SUBSET (0 .. CacheSize - 1) /\ CacheSize - 1 \in Nat
        BY DiskAssumption DEF Slots
      <4>. HIDE DEF S
      <4>2. Max(S(p)) \in S(p)
        BY <3>2, <4>1, MaxNat
      <4>3. Max(S(p)) \in Slots
        BY <4>1, <4>2 DEF Slots
      <4>. QED  BY <1>2, <3>2, <4>3 DEF CachePage
    <3>. QED  BY <3>1, <3>2
  <2>. HIDE DEF S
  <2>. QED  BY <1>3, <2>1
<1>. QED  BY <1>4, <1>5 DEF Same

LEMMA SaveFileStep ==
    ASSUME CacheInv, SaveFile
    PROVE  CacheInv' /\ StoreStep
<1>1. /\ phase = "on" /\ phase' = "saving" /\ UNCHANGED <<cache, blocks, info, used, reply, torn>>
      /\ file' \in [Pages -> PageData] /\ Same(file', Contents, torn)
  BY Saved DEF SaveFile
<1>2. PagesInv'
  BY EndOfRunPages DEF CacheInv, EndOfRun
<1>3. /\ cache \in [Slots -> CachePage] /\ Contents \in [Pages -> PageData]
      /\ CacheConsistent /\ TypeOK
  BY NowFacts DEF CacheInv, TypeOK
<1>4. Same(Contents', Contents, torn)
  <2>1. ASSUME NEW p \in Pages \ torn
        PROVE  Contents'[p] = Contents[p]
    <3>1. Contents'[p] = IF cache[Slot(p)].valid /\ cache[Slot(p)].page = p
                         THEN cache[Slot(p)].data ELSE file'[p]
      BY <1>1 DEF Contents
    <3>2. Contents[p] = IF cache[Slot(p)].valid /\ cache[Slot(p)].page = p
                        THEN cache[Slot(p)].data ELSE file[p]
      BY DEF Contents
    <3>3. file'[p] = Contents[p]
      BY <1>1 DEF Same
    <3>. QED  BY <3>1, <3>2, <3>3
  <2>. QED  BY <2>1 DEF Same
<1>5. TypeOK'
  BY <1>1, <1>3 DEF TypeOK
<1>6. CacheConsistent'
  <2>1. ASSUME NEW i \in Slots, cache[i].valid, cache[i].page \notin torn
        PROVE  Slot(cache[i].page) = i /\ cache[i].data = file'[cache[i].page]
    <3>1. Slot(cache[i].page) = i /\ cache[i].page \in Pages
      BY <1>3, <2>1 DEF CacheConsistent, CachePage
    <3>2. cache[i].data = Contents[cache[i].page]
      BY <2>1, <3>1 DEF Contents
    <3>. QED  BY <1>1, <2>1, <3>1, <3>2 DEF Same
  <2>. QED  BY <1>1, <2>1 DEF CacheConsistent
<1>7. SaveComplete'
  BY <1>1, <1>4 DEF SaveComplete, Same
<1>8. CacheInv'
  BY <1>1, <1>2, <1>5, <1>6, <1>7 DEF CacheInv
<1>9. Store!Save
  <2>1. Mem = Contents /\ Mem' = Contents'
    BY <1>1 DEF Mem
  <2>2. Contents' \in [Pages -> PageData]
    <3>1. \A p \in Pages : Slot(p) \in Slots
      BY SlotType DEF Pages
    <3>. QED  BY <1>1, <1>3, <3>1 DEF Contents, CachePage
  <2>3. Store!Holds(Mem)
    BY <1>1, <1>4, <2>1, <2>2, HoldsFacts
  <2>. QED  BY <1>1, <2>3 DEF Store!Save, Mem
<1>. QED  BY <1>8, <1>9 DEF StoreStep, Store!Next

\* The end of a process, in order or not, empties the cache.
LEMMA StopStep ==
    ASSUME CacheInv, SaveInfo \/ Crash
    PROVE  CacheInv' /\ StoreStep
<1>1. /\ cache' = [i \in Slots |-> EmptyPage] /\ file' = file /\ reply' = Done /\ torn' = {}
      /\ phase' \in {"saved", "crashed"}
  BY DEF SaveInfo, Crash
<1>2. PagesInv'
  BY EndOfRunPages DEF CacheInv, EndOfRun
<1>3. cache' \in [Slots -> CachePage] /\ \A i \in Slots : ~cache'[i].valid
  BY <1>1, EmptyCache
<1>4. Done.status = "ok" /\ Done.bytes = <<>> /\ <<>> \in Seq(Byte)
  BY DEF Done
<1>5. TypeOK'
  BY <1>1, <1>2, <1>3, <1>4 DEF CacheInv, TypeOK, PagesInv, PageList
<1>6. CacheInv'
  BY <1>1, <1>2, <1>3, <1>5 DEF CacheInv, CacheConsistent, SaveComplete
<1>7. Mem' = [p \in Pages |-> ZeroPage]
  BY <1>1 DEF Mem
<1>. QED  BY <1>1, <1>6, <1>7, WipeStep

\* The constructor finds an empty cache and leaves a file of zeros.
LEMMA RestartStep ==
    ASSUME CacheInv, Restart
    PROVE  CacheInv' /\ StoreStep
<1>1. /\ Reload(info).status = "ok"
  BY ReloadFacts DEF CacheInv, PagesInv
<1>2. /\ phase \in {"saved", "crashed"} /\ phase' = "on"
      /\ file' = [p \in Pages |-> ZeroPage] /\ UNCHANGED <<cache, info, used, reply, torn>>
  BY <1>1 DEF Restart
<1>3. PagesInv'
  BY EndOfRunPages DEF CacheInv, EndOfRun
<1>4. cache \in [Slots -> CachePage] /\ \A i \in Slots : ~cache[i].valid
  BY <1>2, EmptyCache DEF CacheInv
<1>5. file' \in [Pages -> PageData]
  BY <1>2, ZeroPageType
<1>6. TypeOK'
  BY <1>2, <1>3, <1>4, <1>5 DEF CacheInv, TypeOK, PagesInv, PageList
<1>7. CacheInv'
  BY <1>2, <1>3, <1>4, <1>6 DEF CacheInv, CacheConsistent, SaveComplete
<1>8. Contents' = [p \in Pages |-> ZeroPage]
  <2>1. \A p \in Pages : Slot(p) \in Slots
    BY SlotType DEF Pages
  <2>2. \A p \in Pages : Contents'[p] = ZeroPage
    BY <1>2, <1>4, <2>1 DEF Contents
  <2>3. Contents' = [p \in Pages |-> Contents'[p]]
    BY DEF Contents
  <2>. QED  BY <2>2, <2>3
<1>9. Mem' = Mem
  BY <1>2, <1>8 DEF Mem
<1>. QED  BY <1>2, <1>7, <1>9 DEF StoreStep

LEMMA NextCache == CacheInv /\ [CacheNext]_vars => CacheInv' /\ StoreStep
<1>. SUFFICES ASSUME CacheInv, [CacheNext]_vars
              PROVE  CacheInv' /\ StoreStep
  OBVIOUS
<1>1. ASSUME NEW p \in Pages \cup {NPages}, ReadPage(p)
      PROVE  CacheInv' /\ StoreStep
  BY <1>1, ReadPageStep
<1>2. ASSUME NEW p \in Pages, NEW bytes \in PageData, WritePage(p, bytes)
      PROVE  CacheInv' /\ StoreStep
  BY <1>2, WritePageStep
<1>3. ASSUME NEW data \in PageData, WritePageThrows(PageReply(data).bytes)
      PROVE  CacheInv' /\ StoreStep
  BY <1>3, WritePageThrowsStep
<1>4. ASSUME NEW a \in Addresses, NEW n \in Sizes, ReadBytes(a, n)
      PROVE  CacheInv' /\ StoreStep
  BY <1>4, ReadBytesStep
<1>5. ASSUME NEW a \in Addresses, NEW n \in Sizes, NEW bytes \in [1 .. n -> Byte],
             WriteBytes(a, bytes)
      PROVE  CacheInv' /\ StoreStep
  BY <1>5, WriteBytesStep
<1>6. CASE EndOfRun
  BY <1>6, SaveFileStep, StopStep, RestartStep DEF EndOfRun
<1>7. CASE UNCHANGED vars
  <2>1. UNCHANGED <<cache, file, blocks, info, used, phase, reply, torn>>
    BY <1>7 DEF vars
  <2>2. CacheInv'
    BY <2>1 DEF CacheInv, PagesInv, TypeOK, CacheConsistent, SaveComplete, Contents
  <2>3. Mem' = Mem
    BY <2>1 DEF Mem, Contents
  <2>. QED  BY <2>1, <2>2, <2>3 DEF StoreStep
<1>. QED  BY <1>1, <1>2, <1>3, <1>4, <1>5, <1>6, <1>7 DEF CacheNext

\* The values of the variables keep their types, whatever is read and written:
\* no access leaves a slot with a page that is not one of the disk's.
THEOREM CacheTypeCorrect == CacheSpec => []TypeOK
<1>1. CacheInv => TypeOK
  BY DEF CacheInv
<1>. QED  BY <1>1, InitCache, NextCache, PTL DEF CacheSpec

\* A slot that is not dirty holds what the file holds, so that get_cpage may drop
\* it without a write (disk.cpp:303-309), and no page sits in a wrong slot, but
\* for the two pages of an access across two slots.
THEOREM CacheIsConsistent == CacheSpec => []CacheConsistent
<1>1. CacheInv => CacheConsistent
  BY DEF CacheInv
<1>. QED  BY <1>1, InitCache, NextCache, PTL DEF CacheSpec

\* After save the file has every byte the cache had, whatever evictions and
\* write-backs came before (disk.cpp:375-412), of all pages that no access across
\* two slots has damaged.
THEOREM SavesAreComplete == CacheSpec => []SaveComplete
<1>1. CacheInv => SaveComplete
  BY DEF CacheInv
<1>. QED  BY <1>1, InitCache, NextCache, PTL DEF CacheSpec

\* Within a run the disk is an array of bytes: whatever the cache drops, fetches
\* and writes back, a read answers with the bytes last written, also across a
\* page boundary, and a write changes exactly the bytes it names.  Accesses of
\* every address and size are covered; one across two slots (disk.cpp:217, 278)
\* is still answered right, costs the contents of its own two pages at most, and
\* no other page ever suffers from it.  A page is read behind a page of zeros
\* (disk.cpp:176-182).
THEOREM StoreImplementation == CacheSpec => StoreSpec
<1>1. CacheInv /\ [CacheNext]_vars => [Store!Next]_(Store!vars)
  BY NextCache, StoreStepMeans
<1>. QED  BY <1>1, InitCache, NextCache, PTL DEF CacheSpec, StoreSpec, Store!Spec

=============================================================================
