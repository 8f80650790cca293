--------------------------- MODULE SystemBusProofs ---------------------------
(***************************************************************************)
(* The virtual memory and the system bus, for every number of processes,   *)
(* physical pages, disk pages, TLB slots and bytes of a page: no number is *)
(* lost or handed out twice, the page that eviction picks has a live       *)
(* virtual page in it, frames stay accounted for under physical accesses   *)
(* too, and each process has memory of its own, as ProcessMemory says.     *)
(***************************************************************************)
EXTENDS SystemBus, DataLemmas

-----------------------------------------------------------------------------
(* Part 1: the virtual memory. *)

-----------------------------------------------------------------------------
(* The three lists of free numbers. *)

LEMMA ListRanges ==
    /\ PidList!RangeAssumption
    /\ FrameList!RangeAssumption
    /\ DiskList!RangeAssumption
BY VMAssumption
   DEF PidList!RangeAssumption, FrameList!RangeAssumption, DiskList!RangeAssumption

LEMMA ListSpans ==
    /\ PidList!Span(0, MaxProcesses) = Pids
    /\ FrameList!Span(0, NFrames) = Frames
    /\ DiskList!Span(0, NDiskPages) = DiskPages
BY VMAssumption
   DEF PidList!Span, FrameList!Span, DiskList!Span, Pids, Frames, DiskPages

\* A list offers numbers of its range only.
LEMMA FreePids ==
    ASSUME NEW bs, PidList!GoodList(bs)
    PROVE  bs \in Seq(PidList!FreeBlock) /\ PidList!FreeSet(bs) \subseteq Pids
<1>1. bs \in Seq(PidList!FreeBlock) /\ PidList!SoundList(bs)
  BY DEF PidList!GoodList
<1>. QED  BY <1>1, ListRanges, ListSpans, PidList!FreeInRange

LEMMA FreeFrames ==
    ASSUME NEW bs, FrameList!GoodList(bs)
    PROVE  bs \in Seq(FrameList!FreeBlock) /\ FrameList!FreeSet(bs) \subseteq Frames
<1>1. bs \in Seq(FrameList!FreeBlock) /\ FrameList!SoundList(bs)
  BY DEF FrameList!GoodList
<1>. QED  BY <1>1, ListRanges, ListSpans, FrameList!FreeInRange

LEMMA FreeDiskPages ==
    ASSUME NEW bs, DiskList!GoodList(bs)
    PROVE  bs \in Seq(DiskList!FreeBlock) /\ DiskList!FreeSet(bs) \subseteq DiskPages
<1>1. bs \in Seq(DiskList!FreeBlock) /\ DiskList!SoundList(bs)
  BY DEF DiskList!GoodList
<1>. QED  BY <1>1, ListRanges, ListSpans, DiskList!FreeInRange

-----------------------------------------------------------------------------
(* The LRU list. *)

\* add_lru leaves every page in the list once, and adds the page it is called
\* with.
LEMMA AddLruFacts ==
    ASSUME NEW list \in Seq(Frames), IsInjective(list), NEW f \in Frames
    PROVE  /\ AddLru(list, f) \in Seq(Frames)
           /\ IsInjective(AddLru(list, f))
           /\ Range(AddLru(list, f)) = Range(list) \cup {f}
<1>. DEFINE at == {i \in 1 .. Len(list) : list[i] = f}
            rest == IF at = {} THEN list ELSE RemoveAt(list, Min(at))
<1>1. /\ Len(list) \in Nat /\ DOMAIN list = 1 .. Len(list)
      /\ \A i \in 1 .. Len(list) : list[i] \in Frames
      /\ \A i, j \in 1 .. Len(list) : list[i] = list[j] => i = j
      /\ Range(list) = {list[i] : i \in 1 .. Len(list)}
  BY ElementOfSeq, LenProperties DEF IsInjective, Range
<1>2. /\ rest \in Seq(Frames)
      /\ \A i, j \in 1 .. Len(rest) : rest[i] = rest[j] => i = j
      /\ {rest[i] : i \in 1 .. Len(rest)} = Range(list) \ {f}
  <2>1. CASE at = {}
    BY <1>1, <2>1
  <2>2. CASE at # {}
    <3>. DEFINE m == Min(at)
    <3>1. m \in at
      <4>1. at \in SUBSET Nat
        BY <1>1
      <4>. HIDE DEF at
      <4>. QED  BY <2>2, <4>1, MinNat
    <3>2. m \in 1 .. Len(list) /\ list[m] = f
      BY <3>1
    <3>. HIDE DEF m
    <3>3. /\ RemoveAt(list, m) \in Seq(Frames)
          /\ Len(RemoveAt(list, m)) = Len(list) - 1
          /\ \A j \in 1 .. Len(list) - 1 :
                RemoveAt(list, m)[j] = IF j < m THEN list[j] ELSE list[j + 1]
      BY <3>2, RemoveAtFacts
    <3>. DEFINE s == RemoveAt(list, m)
    <3>. HIDE DEF s
    <3>4. /\ s \in Seq(Frames) /\ Len(s) = Len(list) - 1
          /\ \A j \in 1 .. Len(s) : s[j] = IF j < m THEN list[j] ELSE list[j + 1]
      BY <3>3 DEF s
    <3>5. \A i, j \in 1 .. Len(s) : s[i] = s[j] => i = j
      BY <1>1, <3>2, <3>4
    <3>6. \A j \in 1 .. Len(s) : s[j] \in Range(list) \ {f}
      <4>. SUFFICES ASSUME NEW j \in 1 .. Len(s)
                    PROVE  s[j] \in Range(list) \ {f}
        OBVIOUS
      <4>. DEFINE k == IF j < m THEN j ELSE j + 1
      <4>1. k \in 1 .. Len(list) /\ k # m /\ s[j] = list[k]
        BY <1>1, <3>2, <3>4
      <4>. HIDE DEF k
      <4>. QED  BY <1>1, <3>2, <4>1
    <3>7. ASSUME NEW x \in Range(list) \ {f}
          PROVE  \E j \in 1 .. Len(s) : s[j] = x
      <4>1. PICK k \in 1 .. Len(list) : list[k] = x
        BY <1>1
      <4>. DEFINE j == IF k < m THEN k ELSE k - 1
      <4>2. k # m
        BY <3>2, <4>1
      <4>3. j \in 1 .. Len(s) /\ s[j] = list[k]
        BY <1>1, <3>2, <3>4, <4>2
      <4>. HIDE DEF j
      <4>. QED  BY <4>1, <4>3
    <3>8. rest = s
      BY <2>2 DEF s, m
    <3>. HIDE DEF rest
    <3>. QED  BY <3>4, <3>5, <3>6, <3>7, <3>8
  <2>. QED  BY <2>1, <2>2
<1>. HIDE DEF rest
<1>. DEFINE new == Append(rest, f)
<1>3. /\ new \in Seq(Frames) /\ Len(rest) \in Nat /\ Len(new) = Len(rest) + 1
      /\ \A i \in 1 .. Len(rest) : new[i] = rest[i]
      /\ new[Len(rest) + 1] = f
      /\ DOMAIN new = 1 .. Len(new)
  BY <1>2, AppendProperties, LenProperties
<1>. HIDE DEF new
<1>4. \A i \in 1 .. Len(rest) : rest[i] # f
  BY <1>2
<1>5. \A i \in DOMAIN new : i \in 1 .. Len(rest) \/ i = Len(rest) + 1
  BY <1>3
<1>6. IsInjective(new)
  <2>. SUFFICES ASSUME NEW i \in DOMAIN new, NEW j \in DOMAIN new, new[i] = new[j]
                PROVE  i = j
    BY DEF IsInjective
  <2>. QED  BY <1>2, <1>3, <1>4, <1>5
<1>7. Range(new) = Range(list) \cup {f}
  <2>1. \A i \in DOMAIN new : new[i] \in Range(list) \cup {f}
    BY <1>2, <1>3, <1>5
  <2>2. ASSUME NEW x \in Range(list) \cup {f}
        PROVE  \E i \in DOMAIN new : new[i] = x
    <3>1. CASE x = f
      <4>1. Len(rest) + 1 \in DOMAIN new
        BY <1>3
      <4>. QED  BY <1>3, <3>1, <4>1
    <3>2. CASE x # f
      <4>1. PICK i \in 1 .. Len(rest) : rest[i] = x
        BY <1>2, <2>2, <3>2
      <4>2. i \in DOMAIN new
        BY <1>3
      <4>. QED  BY <1>3, <4>1, <4>2
    <3>. QED  BY <3>1, <3>2
  <2>. QED  BY <2>1, <2>2 DEF Range
<1>8. AddLru(list, f) = new
  BY DEF AddLru, new, rest
<1>. QED  BY <1>3, <1>6, <1>7, <1>8

-----------------------------------------------------------------------------
(* The loops of add_vpage and set_vpage_permissions. *)

NewPages(pid, s) == DOMAIN s.table \ DOMAIN entries[pid]

AddState ==
    [table : PageTable, diskfree : Seq(DiskList!FreeBlock),
     status : {"ok", "throw", "no_disk_page"}]

\* What the loop for process pid may have done so far: the pages it found are
\* as they were, and each new one took a disk page of its own.
GoodAdd(pid, s) ==
    /\ s \in AddState
    /\ DiskList!GoodList(s.diskfree)
    /\ DOMAIN entries[pid] \subseteq DOMAIN s.table
    /\ \A v \in DOMAIN entries[pid] : s.table[v] = entries[pid][v]
    /\ \A v \in NewPages(pid, s) :
          s.table[v].disk /\ s.table[v].diskpage \in DiskList!FreeSet(diskfree)
    /\ \A v, w \in NewPages(pid, s) :
          s.table[v].diskpage = s.table[w].diskpage => v = w
    /\ DiskList!FreeSet(s.diskfree) =
          DiskList!FreeSet(diskfree) \ {s.table[v].diskpage : v \in NewPages(pid, s)}

LEMMA TableFacts ==
    ASSUME NEW t \in PageTable
    PROVE  /\ DOMAIN t \subseteq VPages
           /\ \A v \in DOMAIN t : t[v] \in Entry
BY DEF PageTable

LEMMA AddPageFacts ==
    ASSUME NEW pid \in Pids, NEW s, GoodAdd(pid, s), NEW v \in VPages,
           s.status = "ok" => v \notin DOMAIN s.table
    PROVE  GoodAdd(pid, AddPage(s, v))
<1>1. CASE s.status # "ok"
  BY <1>1 DEF AddPage
<1>2. CASE s.status = "ok" /\ ~DiskList!CanFit(s.diskfree, 1)
  <2>1. AddPage(s, v) = [s EXCEPT !.status = "no_disk_page"]
    BY <1>2 DEF AddPage
  <2>. DEFINE t == [s EXCEPT !.status = "no_disk_page"]
  <2>2. t \in AddState /\ t.table = s.table /\ t.diskfree = s.diskfree
    BY DEF GoodAdd, AddState
  <2>. HIDE DEF t
  <2>3. GoodAdd(pid, t)
    BY <2>2 DEF GoodAdd, NewPages
  <2>. QED  BY <2>1, <2>3 DEF t
<1>3. CASE s.status = "ok" /\ DiskList!CanFit(s.diskfree, 1)
  <2>. DEFINE page == DiskList!TakenAddr(s.diskfree, 1)
              free == DiskList!TakeFirst(s.diskfree, 1)
              table == [w \in DOMAIN s.table \cup {v} |->
                           IF w = v THEN NewEntry(page) ELSE s.table[w]]
              t == [table |-> table, diskfree |-> free, status |-> "ok"]
  <2>1. AddPage(s, v) = t
    BY <1>3 DEF AddPage
  <2>2. /\ s \in AddState /\ DiskList!GoodList(s.diskfree) /\ v \notin DOMAIN s.table
        /\ s.table \in PageTable
    BY <1>3 DEF GoodAdd, AddState
  <2>3. /\ DiskList!GoodList(free) /\ page \in DiskList!FreeSet(s.diskfree)
        /\ DiskList!FreeSet(free) = DiskList!FreeSet(s.diskfree) \ {page}
    BY <1>3, <2>2, ListRanges, DiskList!TakeOne
  <2>4. /\ free \in Seq(DiskList!FreeBlock) /\ page \in DiskPages
    BY <2>2, <2>3, FreeDiskPages
  <2>. HIDE DEF page, free
  <2>5. NewEntry(page) \in Entry /\ NewEntry(page).disk /\ NewEntry(page).diskpage = page
    BY <2>4, VMAssumption DEF NewEntry, Entry, Frames
  <2>6. table \in PageTable
    <3>1. table \in [DOMAIN s.table \cup {v} -> Entry]
      BY <2>2, <2>5, TableFacts
    <3>2. DOMAIN s.table \cup {v} \in SUBSET VPages
      BY <2>2, TableFacts
    <3>. QED  BY <3>1, <3>2 DEF PageTable
  <2>7. /\ DOMAIN table = DOMAIN s.table \cup {v} /\ table[v] = NewEntry(page)
        /\ \A w \in DOMAIN s.table : table[w] = s.table[w]
    BY <2>2
  <2>. HIDE DEF table
  <2>8. t \in AddState /\ t.table = table /\ t.diskfree = free
    BY <2>4, <2>6 DEF AddState
  <2>. HIDE DEF t
  <2>9. NewPages(pid, t) = NewPages(pid, s) \cup {v} /\ v \notin NewPages(pid, s)
    BY <2>2, <2>7, <2>8 DEF NewPages, GoodAdd
  <2>10. /\ DOMAIN entries[pid] \subseteq DOMAIN t.table
         /\ \A w \in DOMAIN entries[pid] : t.table[w] = entries[pid][w]
    BY <2>7, <2>8 DEF GoodAdd
  <2>11. \A w \in NewPages(pid, s) : t.table[w] = s.table[w]
    BY <2>7, <2>8 DEF NewPages
  <2>12. t.table[v].disk /\ t.table[v].diskpage = page
    BY <2>5, <2>7, <2>8
  <2>13. /\ \A w \in NewPages(pid, t) :
               t.table[w].disk /\ t.table[w].diskpage \in DiskList!FreeSet(diskfree)
         /\ \A w, x \in NewPages(pid, t) :
               t.table[w].diskpage = t.table[x].diskpage => w = x
         /\ DiskList!FreeSet(t.diskfree) =
               DiskList!FreeSet(diskfree) \ {t.table[w].diskpage : w \in NewPages(pid, t)}
    BY <2>3, <2>8, <2>9, <2>11, <2>12 DEF GoodAdd
  <2>14. GoodAdd(pid, t)
    BY <2>3, <2>8, <2>10, <2>13 DEF GoodAdd
  <2>. QED  BY <2>1, <2>14
<1>. QED  BY <1>1, <1>2, <1>3

LEMMA AddOrSkipFacts ==
    ASSUME NEW pid \in Pids, NEW s, GoodAdd(pid, s), NEW v \in VPages,
           NEW there \in {"ok", "throw"}
    PROVE  GoodAdd(pid, AddOrSkip(s, v, there))
<1>1. CASE s.status = "ok" /\ v \in DOMAIN s.table
  <2>. DEFINE t == [s EXCEPT !.status = there]
  <2>1. AddOrSkip(s, v, there) = t
    BY <1>1 DEF AddOrSkip
  <2>2. t \in AddState /\ t.table = s.table /\ t.diskfree = s.diskfree
    BY DEF GoodAdd, AddState
  <2>. HIDE DEF t
  <2>3. GoodAdd(pid, t)
    BY <2>2 DEF GoodAdd, NewPages
  <2>. QED  BY <2>1, <2>3
<1>2. CASE ~(s.status = "ok" /\ v \in DOMAIN s.table)
  <2>1. AddOrSkip(s, v, there) = AddPage(s, v)
    BY <1>2 DEF AddOrSkip
  <2>. QED  BY <1>2, <2>1, AddPageFacts
<1>. QED  BY <1>1, <1>2

LEMMA AddEachFacts ==
    ASSUME NEW pid \in Pids, entries[pid] \in PageTable, DiskList!GoodList(diskfree),
           NEW vs \in Seq(VPages), NEW there \in {"ok", "throw"}
    PROVE  GoodAdd(pid, AddEach(pid, vs, there))
<1>. DEFINE V == {s \in AddState : GoodAdd(pid, s)}
            S == DOMAIN vs
            R == [s \in SUBSET S |-> V]
            base == Adding(pid)
            pick == [s \in SUBSET S |-> Max(s)]
            step == [xv \in S \X V |-> AddOrSkip(xv[2], vs[xv[1]], there)]
<1>0. IsFiniteSet(S)
  BY LenProperties, FS_Interval
<1>1. /\ Len(vs) \in Nat /\ S = 1 .. Len(vs)
      /\ \A i \in S : vs[i] \in VPages
  BY ElementOfSeq, LenProperties
<1>. HIDE DEF S
<1>2. base \in V
  <2>1. /\ base \in AddState /\ base.table = entries[pid] /\ base.diskfree = diskfree
    BY FreeDiskPages DEF Adding, AddState
  <2>. HIDE DEF base
  <2>2. NewPages(pid, base) = {}
    BY <2>1 DEF NewPages
  <2>. QED  BY <2>1, <2>2 DEF GoodAdd
<1>. HIDE DEF base
<1>3. \A s \in SUBSET S : s # {} => Max(s) \in s
  <2>. SUFFICES ASSUME NEW s \in SUBSET S, s # {}
                PROVE  Max(s) \in s
    OBVIOUS
  <2>1. s \in SUBSET (0 .. Len(vs))
    BY <1>1
  <2>. QED  BY <1>1, <2>1, MaxNat
<1>4. ASSUME NEW i \in S, NEW s \in V
      PROVE  AddOrSkip(s, vs[i], there) \in V
  BY <1>1, AddOrSkipFacts DEF GoodAdd
<1>. HIDE DEF V
<1>5. ASSUME NEW s \in SUBSET S, s # {}, NEW st \in R[s \ {pick[s]}]
      PROVE  /\ pick[s] = Max(s) /\ pick[s] \in s
             /\ step[<<pick[s], st>>] = AddOrSkip(st, vs[Max(s)], there)
             /\ step[<<pick[s], st>>] \in R[s]
  <2>1. /\ pick[s] = Max(s) /\ pick[s] \in s /\ pick[s] \in S
        /\ R[s] = V /\ st \in V
    BY <1>3, <1>5
  <2>. HIDE DEF pick, R
  <2>2. step[<<pick[s], st>>] = AddOrSkip(st, vs[pick[s]], there)
    BY <2>1
  <2>. HIDE DEF step
  <2>. QED  BY <1>4, <2>1, <2>2
<1>. DEFINE body(g) == [s \in SUBSET S |->
                          IF s = {} THEN base
                          ELSE AddOrSkip(g[s \ {Max(s)}], vs[Max(s)], there)]
            iter == CHOOSE g : g = body(g)
<1>6. \E g : g = body(g)
  <2>1. base \in R[{}] /\ \A s \in SUBSET S : s # {} => s \ {pick[s]} \in SUBSET S
    BY <1>2
  <2>2. PICK g : FoldOf(g, S, base, pick, step) /\ \A s \in SUBSET S : g[s] \in R[s]
    <3>. HIDE DEF R, pick, step
    <3>1. FoldWithin(S, R, base, pick, step)
      <4>1. \A s \in SUBSET S : s # {} => pick[s] \in s
        BY <1>3 DEF pick
      <4>. QED  BY <1>5, <2>1, <4>1 DEF FoldWithin
    <3>. QED  BY <1>0, <3>1, FoldExists
  <2>3. \A s \in SUBSET S : s # {} =>
           /\ pick[s] = Max(s)
           /\ step[<<pick[s], g[s \ {pick[s]}]>>] =
                 AddOrSkip(g[s \ {Max(s)}], vs[Max(s)], there)
    <3>. HIDE DEF R, pick, step
    <3>. QED  BY <1>5, <2>1, <2>2
  <2>4. g = body(g)
    <3>. HIDE DEF R, pick, step
    <3>. QED  BY <2>2, <2>3 DEF FoldOf
  <2>. QED  BY <2>4
<1>7. iter = body(iter)
  <2>. HIDE DEF body
  <2>. QED  BY <1>6
<1>8. \A s \in SUBSET S : iter[s] \in V
  <2>. DEFINE T == {s \in SUBSET S : iter[s] \in V}
  <2>1. {} \in T
    BY <1>2, <1>7
  <2>2. ASSUME NEW s \in SUBSET S, s # {}, \A x \in s : s \ {x} \in T
        PROVE  s \in T
    <3>1. iter[s] = AddOrSkip(iter[s \ {Max(s)}], vs[Max(s)], there)
      BY <1>7, <2>2
    <3>2. Max(s) \in S /\ iter[s \ {Max(s)}] \in V
      BY <1>3, <2>2
    <3>. HIDE DEF iter
    <3>. QED  BY <1>4, <3>1, <3>2
  <2>. HIDE DEF T
  <2>3. \A s \in SUBSET S : s \in T
    BY <1>0, <2>1, <2>2, SubsetInduct
  <2>. QED  BY <2>3 DEF T
<1>9. AddEach(pid, vs, there) = iter[S]
  BY DEF AddEach, FoldLeft, MapThenFoldSet, S, base
<1>. HIDE DEF iter
<1>. QED  BY <1>8, <1>9 DEF V

-----------------------------------------------------------------------------
(* The calls of get_free_page that evict_ppage makes. *)

LEMMA AfterPagesFacts ==
    ASSUME NEW free, DiskList!GoodList(free), NEW n \in Nat
    PROVE  DiskList!GoodList(AfterPages(free, n))
<1>. DEFINE V == {bs \in Seq(DiskList!FreeBlock) : DiskList!GoodList(bs)}
            S == 1 .. n
            take(bs) == IF DiskList!CanFit(bs, 1) THEN DiskList!TakeFirst(bs, 1) ELSE bs
            R == [s \in SUBSET S |-> V]
            pick == [s \in SUBSET S |-> CHOOSE x \in s : TRUE]
            step == [xv \in S \X V |-> take(xv[2])]
<1>0. IsFiniteSet(S)
  BY FS_Interval
<1>1. free \in V
  BY FreeDiskPages
<1>2. ASSUME NEW bs \in V
      PROVE  take(bs) \in V
  <2>1. CASE ~DiskList!CanFit(bs, 1)
    BY <2>1
  <2>2. CASE DiskList!CanFit(bs, 1)
    <3>1. DiskList!GoodList(DiskList!TakeFirst(bs, 1))
      BY <2>2, ListRanges, DiskList!TakeOne
    <3>. QED  BY <2>2, <3>1, FreeDiskPages
  <2>. QED  BY <2>1, <2>2
<1>. HIDE DEF V, S, take
<1>3. \A s \in SUBSET S : s # {} => pick[s] \in s
  OBVIOUS
<1>4. ASSUME NEW s \in SUBSET S, s # {}, NEW bs \in R[s \ {pick[s]}]
      PROVE  /\ step[<<pick[s], bs>>] = take(bs)
             /\ step[<<pick[s], bs>>] \in R[s]
  <2>1. pick[s] \in S /\ R[s] = V /\ bs \in V
    BY <1>3, <1>4
  <2>. HIDE DEF pick, R
  <2>2. step[<<pick[s], bs>>] = take(bs)
    BY <2>1
  <2>. HIDE DEF step
  <2>. QED  BY <1>2, <2>1, <2>2
<1>. DEFINE body(g) == [s \in SUBSET S |->
                          IF s = {} THEN free ELSE take(g[s \ {CHOOSE x \in s : TRUE}])]
            iter == CHOOSE g : g = body(g)
<1>5. \E g : g = body(g)
  <2>1. free \in R[{}] /\ \A s \in SUBSET S : s # {} => s \ {pick[s]} \in SUBSET S
    BY <1>1
  <2>2. PICK g : FoldOf(g, S, free, pick, step) /\ \A s \in SUBSET S : g[s] \in R[s]
    <3>. HIDE DEF R, pick, step
    <3>1. FoldWithin(S, R, free, pick, step)
      BY <1>3, <1>4, <2>1 DEF FoldWithin
    <3>. QED  BY <1>0, <3>1, FoldExists
  <2>3. \A s \in SUBSET S : s # {} =>
           step[<<pick[s], g[s \ {pick[s]}]>>] = take(g[s \ {pick[s]}])
    <3>. HIDE DEF R, pick, step
    <3>. QED  BY <1>4, <2>1, <2>2
  <2>4. g = [s \in SUBSET S |-> IF s = {} THEN free ELSE take(g[s \ {pick[s]}])]
    <3>. HIDE DEF R, pick, step
    <3>. QED  BY <2>2, <2>3 DEF FoldOf
  <2>5. g = body(g)
    BY <2>4
  <2>. QED  BY <2>5
<1>6. iter = body(iter)
  <2>. HIDE DEF body
  <2>. QED  BY <1>5
<1>7. \A s \in SUBSET S : iter[s] \in V
  <2>. DEFINE T == {s \in SUBSET S : iter[s] \in V}
  <2>1. {} \in T
    BY <1>1, <1>6
  <2>2. ASSUME NEW s \in SUBSET S, s # {}, \A x \in s : s \ {x} \in T
        PROVE  s \in T
    <3>. DEFINE x == CHOOSE y \in s : TRUE
    <3>1. iter[s] = take(iter[s \ {x}])
      BY <1>6, <2>2
    <3>2. x \in s /\ iter[s \ {x}] \in V
      BY <2>2
    <3>. HIDE DEF x, iter
    <3>. QED  BY <1>2, <3>1, <3>2
  <2>. HIDE DEF T
  <2>3. \A s \in SUBSET S : s \in T
    BY <1>0, <2>1, <2>2, SubsetInduct
  <2>. QED  BY <2>3 DEF T
<1>8. AfterPages(free, n) = iter[S]
  BY DEF AfterPages, FoldSet, MapThenFoldSet, S, take
<1>9. iter[S] \in V
  <2>. HIDE DEF iter
  <2>. QED  BY <1>7
<1>. HIDE DEF iter
<1>. QED  BY <1>8, <1>9 DEF V

-----------------------------------------------------------------------------
(* The inductive invariant. *)

\* The lists are sorted, in range, and neighbours that touch are joined.
ListsSound ==
    /\ PidList!GoodList(freepids)
    /\ FrameList!GoodList(freelist)
    /\ DiskList!GoodList(diskfree)

\* A process that ended left no page table entry behind.
TablesOfProcs == \A pid \in Pids \ procs : entries[pid] = EmptyTable

\* The live pointers of a physical page are exactly the virtual pages in it.
MappedExact ==
    Alive => \A f \in Frames :
                mapped[f] \ {Freed} = {r \in Resident : EntryOf(r).ppage = f}

\* A misplaced page has been used, and the list keeps what was.
MisplacedListed == Alive => misplaced \subseteq Range(lru)

\* A return is accepted because what is returned is not free; it is not free
\* because of what the page tables say; and they say so only if tables of
\* dead processes are empty.  Eviction relies on the list of used pages being
\* complete and on the pointers being live.
IInv ==
    /\ TypeOK
    /\ ListsSound
    /\ TablesOfProcs
    /\ FramesKept
    /\ NumbersAccounted
    /\ MappedExact
    /\ LruComplete
    /\ MisplacedListed

LEMMA PageFacts ==
    ASSUME TypeOK
    PROVE  /\ AllPages \subseteq Pids \X VPages
           /\ \A r \in AllPages : EntryOf(r) \in Entry
           /\ \A p \in Pids : entries[p] \in PageTable
           /\ \A p \in Pids : \A v \in DOMAIN entries[p] :
                 <<p, v>> \in AllPages /\ EntryOf(<<p, v>>) = entries[p][v]
           /\ \A r \in AllPages :
                 /\ r = <<r[1], r[2]>> /\ r[1] \in Pids /\ r[2] \in DOMAIN entries[r[1]]
                 /\ EntryOf(r) = entries[r[1]][r[2]]
<1>1. \A p \in Pids : entries[p] \in PageTable
  BY DEF TypeOK
<1>2. \A p \in Pids : /\ DOMAIN entries[p] \subseteq VPages
                       /\ \A v \in DOMAIN entries[p] : entries[p][v] \in Entry
  BY <1>1, TableFacts
<1>. QED  BY <1>1, <1>2 DEF AllPages, EntryOf

LEMMA PairNotFreed == \A r \in Pids \X VPages : r # Freed
BY DEF Freed

LEMMA InitIInv == Init => IInv
<1>. SUFFICES ASSUME Init
              PROVE  IInv
  OBVIOUS
<1>1. \A p \in Pids : entries[p] = EmptyTable
  BY DEF Init
<1>2. EmptyTable \in PageTable /\ DOMAIN EmptyTable = {}
  BY DEF EmptyTable, PageTable
<1>3. AllPages = {} /\ Resident = {} /\ OnDisk = {}
  BY <1>1, <1>2 DEF AllPages, Resident, OnDisk
<1>4. /\ PidList!GoodList(freepids) /\ PidList!FreeSet(freepids) = Pids
      /\ FrameList!GoodList(freelist) /\ FrameList!FreeSet(freelist) = Frames
      /\ DiskList!GoodList(diskfree) /\ DiskList!FreeSet(diskfree) = DiskPages
  BY ListRanges, ListSpans, PidList!FullList, FrameList!FullList, DiskList!FullList
     DEF Init, PidList!GoodList, FrameList!GoodList, DiskList!GoodList
<1>5. TypeOK
  <2>1. /\ freepids \in Seq(PidList!FreeBlock) /\ freelist \in Seq(FrameList!FreeBlock)
        /\ diskfree \in Seq(DiskList!FreeBlock)
    BY <1>4, FreePids, FreeFrames, FreeDiskPages
  <2>2. /\ procs \subseteq Pids /\ cur \in procs \cup {NoProcess}
        /\ entries \in [Pids -> PageTable]
        /\ used \in [Frames -> BOOLEAN] /\ lru \in Seq(Frames)
        /\ status \in {"ok", "throw", "no_disk_page", "out_of_range", "free_list"}
        /\ misplaced \subseteq Frames
    BY <1>2 DEF Init
  <2>3. mapped \in [Frames -> SUBSET ((Pids \X VPages) \cup {Freed})]
    BY DEF Init
  <2>4. tlb \in [0 .. TlbSize - 1 -> TlbEntry]
    <3>1. 0 \in Frames
      BY VMAssumption DEF Frames
    <3>. QED  BY <3>1 DEF Init, TlbEntry
  <2>. QED  BY <2>1, <2>2, <2>3, <2>4 DEF TypeOK
<1>6. TablesOfProcs
  BY <1>1 DEF TablesOfProcs
<1>7. FramesKept
  BY <1>3, <1>4 DEF Init, FramesKept
<1>8. NumbersAccounted
  BY <1>3, <1>4 DEF Init, NumbersAccounted
<1>9. MappedExact
  BY <1>3 DEF Init, MappedExact
<1>10. LruComplete
  <2>1. lru = <<>> /\ \A f \in Frames : ~used[f]
    BY DEF Init
  <2>. QED  BY <2>1 DEF LruComplete, IsInjective
<1>11. MisplacedListed
  BY DEF Init, MisplacedListed
<1>. QED  BY <1>4, <1>5, <1>6, <1>7, <1>8, <1>9, <1>10, <1>11 DEF IInv, ListsSound

\* What the steps below need of the state before a call.
LEMMA LiveFacts ==
    ASSUME IInv, Alive
    PROVE  /\ TypeOK /\ ListsSound /\ TablesOfProcs
           /\ \A r, s \in Resident :
                 EntryOf(r).ppage = EntryOf(s).ppage => r = s \/ EntryOf(r).ppage \in misplaced
           /\ \A f \in Frames \ misplaced : used[f] <=> \E r \in Resident : EntryOf(r).ppage = f
           /\ \A f \in FrameList!FreeSet(freelist) : used[f] => f \in misplaced
           /\ misplaced = {} => FrameList!FreeSet(freelist) = {f \in Frames : ~used[f]}
           /\ \A r, s \in OnDisk : EntryOf(r).diskpage = EntryOf(s).diskpage => r = s
           /\ DiskList!FreeSet(diskfree) = DiskPages \ {EntryOf(r).diskpage : r \in OnDisk}
           /\ PidList!FreeSet(freepids) = Pids \ procs
           /\ \A f \in Frames :
                 mapped[f] \ {Freed} = {r \in Resident : EntryOf(r).ppage = f}
           /\ IsInjective(lru) /\ {f \in Frames : used[f]} \subseteq Range(lru)
           /\ misplaced \subseteq Range(lru)
BY DEF IInv, FramesKept, NumbersAccounted, MappedExact, LruComplete, MisplacedListed

\* A free physical page serves no virtual page, unless it was misplaced.
LEMMA FreeFacts ==
    ASSUME IInv, Alive, NEW f \in FrameList!FreeSet(freelist)
    PROVE  /\ f \in Frames
           /\ f \notin misplaced => ~used[f] /\ \A r \in Resident : EntryOf(r).ppage # f
<1>1. f \in Frames
  BY FreeFrames DEF IInv, ListsSound
<1>. QED  BY <1>1, LiveFacts

\* The tables of a program that has ended need not agree.
LEMMA DeadIInv ==
    ASSUME TypeOK', ListsSound', TablesOfProcs', ~Alive'
    PROVE  IInv'
BY DEF IInv, FramesKept, NumbersAccounted, MappedExact, LruComplete, MisplacedListed

\* Calls that throw, and those that only choose a process or fill the TLB.
LEMMA UnmovedIInv ==
    ASSUME IInv, Alive, TypeOK',
           UNCHANGED <<procs, entries, freepids, diskfree, freelist, used, mapped, lru, misplaced>>
    PROVE  IInv'
<1>1. /\ AllPages' = AllPages /\ Resident' = Resident /\ OnDisk' = OnDisk
      /\ \A r : EntryOf(r)' = EntryOf(r)
  BY DEF AllPages, Resident, OnDisk, EntryOf
<1>2. FramesKept'
  BY <1>1, LiveFacts DEF FramesKept
<1>3. NumbersAccounted'
  BY <1>1, LiveFacts DEF NumbersAccounted
<1>4. MappedExact'
  BY <1>1, LiveFacts DEF MappedExact
<1>5. LruComplete' /\ MisplacedListed'
  BY LiveFacts DEF LruComplete, MisplacedListed
<1>6. ListsSound' /\ TablesOfProcs'
  BY DEF IInv, ListsSound, TablesOfProcs
<1>. QED  BY <1>2, <1>3, <1>4, <1>5, <1>6 DEF IInv

LEMMA ThrowIInv == IInv /\ Alive /\ Throw => IInv'
<1>. SUFFICES ASSUME IInv, Alive, Throw
              PROVE  IInv'
  OBVIOUS
<1>1. /\ UNCHANGED <<procs, cur, entries, freepids, diskfree, freelist, used, mapped,
                     lru, tlb, misplaced>>
      /\ status' = "throw"
  BY DEF Throw, tables, frames
<1>2. TypeOK'
  BY <1>1 DEF IInv, TypeOK
<1>. QED  BY <1>1, <1>2, UnmovedIInv

\* return_block refuses a page, or evict_ppage finds no single virtual page.
LEMMA EndedIInv ==
    ASSUME IInv, Alive, status' \in {"free_list", "out_of_range", "no_disk_page"},
           UNCHANGED <<tables, frames, tlb>>
    PROVE  IInv' /\ ~Alive'
<1>1. UNCHANGED <<procs, cur, entries, freepids, diskfree, freelist, used, mapped, lru, tlb,
                  misplaced>>
  BY DEF tables, frames
<1>2. TypeOK'
  BY <1>1 DEF IInv, TypeOK
<1>3. ~Alive'
  BY DEF Alive
<1>. QED  BY <1>1, <1>2, <1>3, UnmovedIInv

LEMMA EndThrowsIInv ==
    ASSUME IInv, Alive, NEW pid \in Pids, EndThrows(pid)
    PROVE  IInv' /\ ~Alive'
BY EndedIInv DEF EndThrows

LEMMA EvictMisplacedIInv ==
    ASSUME IInv, Alive, NEW f, EvictMisplaced(f)
    PROVE  IInv' /\ ~Alive'
BY EndedIInv DEF EvictMisplaced

LEMMA SetProcessIInv ==
    ASSUME IInv, Alive, NEW pid \in Pids, SetProcess(pid)
    PROVE  IInv'
<1>1. /\ UNCHANGED <<procs, entries, freepids, diskfree, freelist, used, mapped, lru, tlb, misplaced>>
      /\ pid \in procs /\ cur' = pid /\ status' = "ok"
  BY DEF SetProcess, frames
<1>2. TypeOK'
  BY <1>1 DEF IInv, TypeOK
<1>. QED  BY <1>1, <1>2, UnmovedIInv

LEMMA AccessHitIInv ==
    ASSUME IInv, Alive, NEW pid \in Pids, NEW v, AccessHit(pid, v)
    PROVE  IInv'
<1>1. /\ UNCHANGED <<procs, cur, entries, freepids, diskfree, freelist, used, mapped,
                     lru, tlb, misplaced>>
      /\ status' = "ok"
  BY DEF AccessHit, tables, frames
<1>2. TypeOK'
  BY <1>1 DEF IInv, TypeOK
<1>. QED  BY <1>1, <1>2, UnmovedIInv

\* The buffer takes the translation that the page table gives.
LEMMA AccessResidentIInv ==
    ASSUME IInv, Alive, NEW pid \in Pids, NEW v \in VPages, AccessResident(pid, v)
    PROVE  IInv'
<1>. DEFINE new == [valid |-> TRUE, pid |-> pid, vpage |-> v, ppage |-> entries[pid][v].ppage]
<1>1. /\ UNCHANGED <<procs, cur, entries, freepids, diskfree, freelist, used, mapped, lru,
                     misplaced>>
      /\ status' = "ok" /\ v \in DOMAIN entries[pid]
      /\ tlb' = [tlb EXCEPT ![TlbSlot(v)] = new]
  BY DEF AccessResident, tables, frames
<1>2. new \in TlbEntry
  <2>1. entries[pid][v] \in Entry
    BY <1>1, TableFacts DEF IInv, TypeOK
  <2>. QED  BY <2>1 DEF Entry, TlbEntry
<1>. HIDE DEF new
<1>3. TypeOK'
  BY <1>1, <1>2 DEF IInv, TypeOK
<1>. QED  BY <1>1, <1>3, UnmovedIInv

\* The process id handed out belongs to no process.
LEMMA BeginProcessIInv ==
    ASSUME IInv, Alive, BeginProcess
    PROVE  /\ IInv' /\ entries' = entries
           /\ \E pid \in Pids \ procs : procs' = procs \cup {pid} /\ cur' = pid
<1>. DEFINE pid == PidList!TakenAddr(freepids, 1)
            free == PidList!TakeFirst(freepids, 1)
<1>1. /\ PidList!CanFit(freepids, 1) /\ freepids' = free
      /\ procs' = procs \cup {pid} /\ entries' = [entries EXCEPT ![pid] = EmptyTable]
      /\ cur' = pid /\ status' = "ok"
      /\ UNCHANGED <<diskfree, freelist, used, mapped, lru, tlb, misplaced>>
  BY DEF BeginProcess, frames
<1>2. /\ PidList!GoodList(free) /\ pid \in PidList!FreeSet(freepids)
      /\ PidList!FreeSet(free) = PidList!FreeSet(freepids) \ {pid}
  BY <1>1, ListRanges, PidList!TakeOne DEF IInv, ListsSound
<1>. HIDE DEF pid, free
<1>3. pid \in Pids \ procs /\ PidList!FreeSet(free) = Pids \ (procs \cup {pid})
  BY <1>2, LiveFacts
<1>4. entries[pid] = EmptyTable /\ entries \in [Pids -> PageTable]
  BY <1>3 DEF IInv, TypeOK, TablesOfProcs
<1>5. entries' = entries
  BY <1>1, <1>3, <1>4
<1>6. /\ AllPages' = AllPages /\ Resident' = Resident /\ OnDisk' = OnDisk
      /\ \A r : EntryOf(r)' = EntryOf(r)
  BY <1>5 DEF AllPages, Resident, OnDisk, EntryOf
<1>7. TypeOK'
  <2>1. free \in Seq(PidList!FreeBlock)
    BY <1>2, FreePids
  <2>. QED  BY <1>1, <1>3, <1>5, <2>1 DEF IInv, TypeOK
<1>8. ListsSound' /\ TablesOfProcs'
  BY <1>1, <1>2, <1>5 DEF IInv, ListsSound, TablesOfProcs
<1>9. FramesKept'
  BY <1>1, <1>6, LiveFacts DEF FramesKept
<1>10. NumbersAccounted'
  BY <1>1, <1>3, <1>6, LiveFacts DEF NumbersAccounted
<1>11. MappedExact' /\ LruComplete' /\ MisplacedListed'
  BY <1>1, <1>6, LiveFacts DEF MappedExact, LruComplete, MisplacedListed
<1>12. IInv'
  BY <1>7, <1>8, <1>9, <1>10, <1>11 DEF IInv
<1>. QED  BY <1>1, <1>3, <1>5, <1>12

\* No number of the process is free or returned twice, so each of the returns succeeds.
LEMMA EndProcessIInv ==
    ASSUME IInv, Alive, NEW pid \in Pids, EndProcess(pid)
    PROVE  IInv'
<1>. DEFINE D == DiskPagesOf(pid)
            F == FramesOf(pid)
            Mine == {r \in AllPages : r[1] = pid}
<1>1. /\ pid \in procs /\ F \cap FrameList!FreeSet(freelist) = {}
      /\ diskfree' = DiskList!ReturnEach(diskfree, D)
      /\ freelist' = FrameList!ReturnEach(freelist, F)
      /\ used' = [f \in Frames |-> used[f] /\ f \notin F]
      /\ mapped' = [f \in Frames |->
            {IF r # Freed /\ r[1] = pid THEN Freed ELSE r : r \in mapped[f]}]
      /\ entries' = [entries EXCEPT ![pid] = EmptyTable]
      /\ cur' = IF cur = pid THEN NoProcess ELSE cur
      /\ procs' = procs \ {pid}
      /\ freepids' = PidList!ReturnBlock(freepids, pid, 1).blocks
      /\ status' = "ok" /\ lru' = lru /\ tlb' = tlb /\ misplaced' = misplaced
  BY DEF EndProcess, FramesReturnable
<1>2. TypeOK
  BY DEF IInv
<1>3. /\ D = {EntryOf(r).diskpage : r \in OnDisk \cap Mine}
      /\ F = {EntryOf(r).ppage : r \in Resident \cap Mine}
  <2>1. ASSUME NEW r \in Mine
        PROVE  r[2] \in DOMAIN entries[pid] /\ EntryOf(r) = entries[pid][r[2]]
    BY <1>2, PageFacts
  <2>2. ASSUME NEW v \in DOMAIN entries[pid]
        PROVE  <<pid, v>> \in Mine /\ EntryOf(<<pid, v>>) = entries[pid][v]
    BY <1>2, PageFacts
  <2>3. D = {EntryOf(r).diskpage : r \in OnDisk \cap Mine}
    <3>1. ASSUME NEW x \in D
          PROVE  \E r \in OnDisk \cap Mine : x = EntryOf(r).diskpage
      <4>1. PICK v \in DOMAIN entries[pid] :
               entries[pid][v].disk /\ x = entries[pid][v].diskpage
        BY DEF DiskPagesOf
      <4>. DEFINE r == <<pid, v>>
      <4>2. r \in Mine /\ EntryOf(r) = entries[pid][v]
        BY <2>2
      <4>. HIDE DEF r
      <4>3. r \in OnDisk
        BY <4>1, <4>2 DEF OnDisk, Resident
      <4>. QED  BY <4>1, <4>2, <4>3
    <3>2. ASSUME NEW r \in OnDisk \cap Mine
          PROVE  EntryOf(r).diskpage \in D
      <4>1. EntryOf(r).disk
        BY DEF OnDisk, Resident
      <4>. QED  BY <2>1, <4>1 DEF DiskPagesOf
    <3>. QED  BY <3>1, <3>2
  <2>4. F = {EntryOf(r).ppage : r \in Resident \cap Mine}
    <3>1. ASSUME NEW x \in F
          PROVE  \E r \in Resident \cap Mine : x = EntryOf(r).ppage
      <4>1. PICK v \in DOMAIN entries[pid] :
               ~entries[pid][v].disk /\ x = entries[pid][v].ppage
        BY DEF FramesOf
      <4>. DEFINE r == <<pid, v>>
      <4>2. r \in Mine /\ EntryOf(r) = entries[pid][v]
        BY <2>2
      <4>. HIDE DEF r
      <4>3. r \in Resident
        BY <4>1, <4>2 DEF OnDisk, Resident
      <4>. QED  BY <4>1, <4>2, <4>3
    <3>2. ASSUME NEW r \in Resident \cap Mine
          PROVE  EntryOf(r).ppage \in F
      <4>1. ~EntryOf(r).disk
        BY DEF OnDisk, Resident
      <4>. QED  BY <2>1, <4>1 DEF FramesOf
    <3>. QED  BY <3>1, <3>2
  <2>. QED  BY <2>3, <2>4
<1>4. D \subseteq DiskPages /\ F \subseteq Frames
  BY <1>2, <1>3, PageFacts DEF OnDisk, Resident, Entry
<1>. HIDE DEF D, F
<1>5. /\ DiskList!GoodList(diskfree') 
      /\ DiskList!FreeSet(diskfree') = DiskList!FreeSet(diskfree) \cup D
  <2>1. D \cap DiskList!FreeSet(diskfree) = {}
    BY <1>3, LiveFacts
  <2>2. D \in SUBSET DiskList!Span(0, NDiskPages) /\ DiskList!GoodList(diskfree)
    BY <1>4, ListSpans DEF IInv, ListsSound
  <2>. QED  BY <1>1, <2>1, <2>2, ListRanges, DiskList!ReturnEachFacts
<1>6. /\ FrameList!GoodList(freelist')
      /\ FrameList!FreeSet(freelist') = FrameList!FreeSet(freelist) \cup F
  <2>1. F \cap FrameList!FreeSet(freelist) = {}
    BY <1>1
  <2>2. F \in SUBSET FrameList!Span(0, NFrames) /\ FrameList!GoodList(freelist)
    BY <1>4, ListSpans DEF IInv, ListsSound
  <2>. QED  BY <1>1, <2>1, <2>2, ListRanges, FrameList!ReturnEachFacts
<1>7. /\ PidList!GoodList(freepids')
      /\ PidList!FreeSet(freepids') = PidList!FreeSet(freepids) \cup {pid}
  <2>1. pid \in PidList!Span(0, MaxProcesses) /\ pid \notin PidList!FreeSet(freepids)
    BY <1>1, ListSpans, LiveFacts
  <2>. QED  BY <1>1, <2>1, ListRanges, PidList!ReturnOne DEF IInv, ListsSound
<1>8. EmptyTable \in PageTable /\ DOMAIN EmptyTable = {}
  BY DEF EmptyTable, PageTable
<1>9. /\ entries' \in [Pids -> PageTable] /\ entries'[pid] = EmptyTable
      /\ \A p \in Pids \ {pid} : entries'[p] = entries[p]
  BY <1>1, <1>2, <1>8 DEF TypeOK
<1>10. AllPages' = AllPages \ Mine
  BY <1>8, <1>9 DEF AllPages
<1>11. \A r \in AllPages' : EntryOf(r)' = EntryOf(r)
  BY <1>2, <1>9, <1>10, PageFacts DEF EntryOf
<1>12. Resident' = Resident \ Mine /\ OnDisk' = OnDisk \ Mine
  BY <1>10, <1>11 DEF Resident, OnDisk
<1>13. TypeOK'
  <2>1. /\ freepids' \in Seq(PidList!FreeBlock) /\ freelist' \in Seq(FrameList!FreeBlock)
        /\ diskfree' \in Seq(DiskList!FreeBlock)
    BY <1>5, <1>6, <1>7, FreePids, FreeFrames, FreeDiskPages
  <2>2. used' \in [Frames -> BOOLEAN]
    BY <1>1
  <2>3. mapped' \in [Frames -> SUBSET ((Pids \X VPages) \cup {Freed})]
    BY <1>1, <1>2 DEF TypeOK
  <2>4. procs' \subseteq Pids /\ cur' \in procs' \cup {NoProcess}
    BY <1>1, <1>2 DEF TypeOK
  <2>. QED  BY <1>1, <1>2, <1>9, <2>1, <2>2, <2>3, <2>4 DEF TypeOK
<1>14. ListsSound' /\ TablesOfProcs'
  <2>1. \A p \in Pids \ procs' : entries'[p] = EmptyTable
    BY <1>1, <1>9 DEF IInv, TablesOfProcs
  <2>. QED  BY <1>5, <1>6, <1>7, <2>1 DEF ListsSound, TablesOfProcs
<1>15. FramesKept'
  <2>0. \A r \in Resident' : r \in Resident /\ EntryOf(r)' = EntryOf(r)
    BY <1>11, <1>12 DEF Resident
  <2>1. \A r, s \in Resident' :
           EntryOf(r)'.ppage = EntryOf(s)'.ppage => r = s \/ EntryOf(r)'.ppage \in misplaced
    BY <2>0, LiveFacts
  <2>2. \A f \in Frames : used'[f] <=> used[f] /\ f \notin F
    BY <1>1
  <2>3. ASSUME NEW f \in Frames \ misplaced
        PROVE  used'[f] <=> \E r \in Resident' : EntryOf(r)'.ppage = f
    <3>1. used[f] <=> \E r \in Resident : EntryOf(r).ppage = f
      BY LiveFacts
    <3>2. \A r, s \in Resident : EntryOf(r).ppage = f /\ EntryOf(s).ppage = f => r = s
      BY LiveFacts
    <3>3. f \in F <=> \E r \in Resident \cap Mine : EntryOf(r).ppage = f
      BY <1>3
    <3>4. \A r \in Resident : r \in Resident' <=> r \notin Mine
      BY <1>12
    <3>. QED  BY <2>0, <2>2, <3>1, <3>2, <3>3, <3>4
  <2>4. \A f \in FrameList!FreeSet(freelist') : used'[f] => f \in misplaced
    <3>1. FrameList!FreeSet(freelist) \subseteq Frames
      BY FreeFrames DEF IInv, ListsSound
    <3>. QED  BY <1>4, <1>6, <2>2, <3>1, LiveFacts
  <2>5. misplaced = {} => FrameList!FreeSet(freelist') = {f \in Frames : ~used'[f]}
    BY <1>4, <1>6, <2>2, LiveFacts
  <2>. QED  BY <1>1, <2>1, <2>3, <2>4, <2>5 DEF FramesKept
<1>16. NumbersAccounted'
  <2>1. \A r, s \in OnDisk' : EntryOf(r)'.diskpage = EntryOf(s)'.diskpage => r = s
    BY <1>11, <1>12, LiveFacts DEF OnDisk
  <2>2. {EntryOf(r)'.diskpage : r \in OnDisk'} = {EntryOf(r).diskpage : r \in OnDisk \ Mine}
    BY <1>11, <1>12 DEF OnDisk
  <2>3. {EntryOf(r).diskpage : r \in OnDisk \ Mine} = {EntryOf(r).diskpage : r \in OnDisk} \ D
    BY <1>3, LiveFacts
  <2>4. DiskList!FreeSet(diskfree') = DiskPages \ {EntryOf(r)'.diskpage : r \in OnDisk'}
    BY <1>4, <1>5, <2>2, <2>3, LiveFacts
  <2>5. PidList!FreeSet(freepids') = Pids \ procs'
    BY <1>1, <1>7, LiveFacts
  <2>. QED  BY <2>1, <2>4, <2>5 DEF NumbersAccounted
<1>17. MappedExact'
  <2>. SUFFICES ASSUME NEW f \in Frames
                PROVE  mapped'[f] \ {Freed} = {r \in Resident' : EntryOf(r)'.ppage = f}
    BY DEF MappedExact
  <2>1. mapped'[f] \ {Freed} = {r \in mapped[f] \ {Freed} : r[1] # pid}
    BY <1>1
  <2>2. mapped[f] \ {Freed} = {r \in Resident : EntryOf(r).ppage = f}
    BY LiveFacts
  <2>3. \A r \in Resident : r \in Resident' <=> r[1] # pid
    BY <1>12 DEF Resident
  <2>4. \A r \in Resident' : r \in Resident /\ EntryOf(r)' = EntryOf(r)
    BY <1>11, <1>12 DEF Resident
  <2>. QED  BY <2>1, <2>2, <2>3, <2>4
<1>18. LruComplete'
  <2>1. \A f \in Frames : used'[f] => used[f]
    BY <1>1
  <2>. QED  BY <1>1, <2>1, LiveFacts DEF LruComplete
<1>19. MisplacedListed'
  BY <1>1, LiveFacts DEF MisplacedListed
<1>. QED  BY <1>13, <1>14, <1>15, <1>16, <1>17, <1>18, <1>19 DEF IInv

\* The page tables after pages were added.
LEMMA GrownTables ==
    ASSUME TypeOK, NEW pid \in procs, NEW s, GoodAdd(pid, s)
    PROVE  LET ents == [entries EXCEPT ![pid] = s.table]
               Fresh == {<<pid, v>> : v \in NewPages(pid, s)}
           IN  /\ ents \in [Pids -> PageTable] /\ ents[pid] = s.table
               /\ \A q \in Pids \ {pid} : ents[q] = entries[q]
               /\ \A q \in Pids : DOMAIN entries[q] \subseteq DOMAIN ents[q]
               /\ Fresh \cap AllPages = {}
               /\ \A r \in Fresh : /\ r \in Pids \X VPages /\ r[1] = pid
                                   /\ r[2] \in NewPages(pid, s) /\ r = <<pid, r[2]>>
               /\ {r \in Pids \X VPages : r[2] \in DOMAIN ents[r[1]]} = AllPages \cup Fresh
               /\ \A r \in AllPages : ents[r[1]][r[2]] = EntryOf(r)
               /\ \A r \in Fresh : ents[r[1]][r[2]] = s.table[r[2]] /\ s.table[r[2]].disk
<1>. DEFINE ents == [entries EXCEPT ![pid] = s.table]
            Fresh == {<<pid, v>> : v \in NewPages(pid, s)}
            All == {r \in Pids \X VPages : r[2] \in DOMAIN ents[r[1]]}
<1>1. pid \in Pids
  BY DEF TypeOK
<1>2. /\ s.table \in PageTable
      /\ DOMAIN s.table \subseteq VPages
      /\ DOMAIN s.table = DOMAIN entries[pid] \cup NewPages(pid, s)
      /\ \A v \in DOMAIN entries[pid] : s.table[v] = entries[pid][v]
      /\ \A v \in NewPages(pid, s) : v \notin DOMAIN entries[pid] /\ s.table[v].disk
  <2>1. s.table \in PageTable
    BY DEF GoodAdd, AddState
  <2>. QED  BY <2>1, TableFacts DEF GoodAdd, NewPages
<1>3. /\ ents \in [Pids -> PageTable] /\ ents[pid] = s.table
      /\ \A p \in Pids \ {pid} : ents[p] = entries[p]
  BY <1>1, <1>2 DEF TypeOK
<1>. HIDE DEF ents
<1>4. \A r \in Fresh : /\ r \in Pids \X VPages /\ r[1] = pid
                      /\ r[2] \in NewPages(pid, s) /\ r = <<pid, r[2]>>
  BY <1>1, <1>2
<1>5. Fresh \cap AllPages = {}
  <2>1. \A r \in AllPages : r[1] = pid => r[2] \in DOMAIN entries[pid]
    BY DEF AllPages
  <2>. QED  BY <1>2, <1>4, <2>1
<1>6. All = AllPages \cup Fresh
  <2>1. ASSUME NEW r \in All
        PROVE  r \in AllPages \cup Fresh
    <3>1. r \in Pids \X VPages /\ r[2] \in DOMAIN ents[r[1]]
      OBVIOUS
    <3>2. r = <<r[1], r[2]>> /\ r[1] \in Pids
      BY <3>1
    <3>3. CASE r[1] = pid
      <4>1. r[2] \in DOMAIN entries[pid] \/ r[2] \in NewPages(pid, s)
        BY <1>2, <1>3, <3>1, <3>3
      <4>. QED  BY <3>1, <3>2, <3>3, <4>1 DEF AllPages
    <3>4. CASE r[1] # pid
      BY <1>3, <3>1, <3>2, <3>4 DEF AllPages
    <3>. QED  BY <3>3, <3>4
  <2>2. ASSUME NEW r \in AllPages
        PROVE  r \in All
    <3>1. r \in Pids \X VPages /\ r[1] \in Pids /\ r[2] \in DOMAIN entries[r[1]]
      BY PageFacts
    <3>2. r[2] \in DOMAIN ents[r[1]]
      BY <1>2, <1>3, <3>1
    <3>. QED  BY <3>1, <3>2
  <2>3. ASSUME NEW r \in Fresh
        PROVE  r \in All
    BY <1>2, <1>3, <1>4
  <2>. QED  BY <2>1, <2>2, <2>3
<1>7. \A r \in AllPages : ents[r[1]][r[2]] = EntryOf(r)
  <2>. SUFFICES ASSUME NEW r \in AllPages
                PROVE  ents[r[1]][r[2]] = EntryOf(r)
    OBVIOUS
  <2>1. r[1] \in Pids /\ r[2] \in DOMAIN entries[r[1]]
    BY PageFacts
  <2>. QED  BY <1>2, <1>3, <2>1 DEF EntryOf
<1>8. \A r \in Fresh : ents[r[1]][r[2]] = s.table[r[2]] /\ s.table[r[2]].disk
  BY <1>2, <1>3, <1>4
<1>9. \A q \in Pids : DOMAIN entries[q] \subseteq DOMAIN ents[q]
  BY <1>2, <1>3
<1>. HIDE DEF Fresh, All
<1>. QED  BY <1>3, <1>4, <1>5, <1>6, <1>7, <1>8, <1>9 DEF ents, Fresh, All

\* Pages added before the disk ran out stay, and their disk pages are theirs.
LEMMA AddedIInv ==
    ASSUME IInv, Alive, NEW pid \in procs, NEW s, GoodAdd(pid, s), Added(pid, s)
    PROVE  /\ IInv'
           /\ AllPages' = AllPages \cup {<<pid, v>> : v \in NewPages(pid, s)}
           /\ Resident' = Resident
           /\ \A r \in AllPages : EntryOf(r)' = EntryOf(r)
<1>. DEFINE ents == [entries EXCEPT ![pid] = s.table]
            Fresh == {<<pid, v>> : v \in NewPages(pid, s)}
<1>1. /\ entries' = ents
      /\ diskfree' = s.diskfree /\ status' = s.status
      /\ UNCHANGED <<procs, cur, freepids, freelist, used, mapped, lru, tlb, misplaced>>
  BY DEF Added, frames
<1>2. TypeOK /\ pid \in Pids
  BY DEF IInv, TypeOK
<1>3. /\ s.status \in {"ok", "throw", "no_disk_page"}
      /\ DiskList!GoodList(s.diskfree)
  BY DEF GoodAdd, AddState
<1>4. /\ \A v \in NewPages(pid, s) :
            s.table[v].disk /\ s.table[v].diskpage \in DiskList!FreeSet(diskfree)
      /\ \A v, w \in NewPages(pid, s) :
            s.table[v].diskpage = s.table[w].diskpage => v = w
      /\ DiskList!FreeSet(s.diskfree) =
            DiskList!FreeSet(diskfree) \ {s.table[v].diskpage : v \in NewPages(pid, s)}
  BY DEF GoodAdd
<1>5. /\ ents \in [Pids -> PageTable] /\ \A q \in Pids \ {pid} : ents[q] = entries[q]
      /\ Fresh \cap AllPages = {}
      /\ \A r \in Fresh : /\ r \in Pids \X VPages /\ r[1] = pid
                          /\ r[2] \in NewPages(pid, s) /\ r = <<pid, r[2]>>
      /\ {r \in Pids \X VPages : r[2] \in DOMAIN ents[r[1]]} = AllPages \cup Fresh
      /\ \A r \in AllPages : ents[r[1]][r[2]] = EntryOf(r)
      /\ \A r \in Fresh : ents[r[1]][r[2]] = s.table[r[2]] /\ s.table[r[2]].disk
  BY <1>2, GrownTables
<1>. HIDE DEF ents
<1>6. TypeOK'
  <2>1. diskfree' \in Seq(DiskList!FreeBlock)
    BY <1>1, <1>3, FreeDiskPages
  <2>. QED  BY <1>1, <1>2, <1>3, <1>5, <2>1 DEF TypeOK
<1>7. ListsSound' /\ TablesOfProcs'
  BY <1>1, <1>2, <1>3, <1>5 DEF IInv, ListsSound, TablesOfProcs
<1>8. /\ Fresh \cap AllPages = {}
      /\ \A r \in Fresh : /\ r \in Pids \X VPages /\ r[1] = pid
                          /\ r[2] \in NewPages(pid, s) /\ r = <<pid, r[2]>>
  BY <1>5
<1>9. AllPages' = AllPages \cup Fresh
  BY <1>1, <1>5 DEF AllPages
<1>10. /\ \A r \in AllPages : EntryOf(r)' = EntryOf(r)
       /\ \A r \in Fresh : EntryOf(r)' = s.table[r[2]]
  <2>1. \A r \in AllPages : EntryOf(r)' = EntryOf(r)
    <3>1. \A r : EntryOf(r)' = ents[r[1]][r[2]]
      BY <1>1 DEF EntryOf
    <3>. QED  BY <1>5, <3>1
  <2>2. \A r \in Fresh : EntryOf(r)' = s.table[r[2]]
    BY <1>1, <1>5 DEF EntryOf
  <2>. QED  BY <2>1, <2>2
<1>. HIDE DEF Fresh
<1>11. Resident' = Resident /\ OnDisk' = OnDisk \cup Fresh
  <2>1. \A r \in Fresh : EntryOf(r)'.disk
    BY <1>4, <1>8, <1>10
  <2>. QED  BY <1>8, <1>9, <1>10, <2>1 DEF Resident, OnDisk
<1>12. FramesKept'
  <2>1. \A r \in Resident : EntryOf(r)' = EntryOf(r)
    BY <1>10 DEF Resident
  <2>. QED  BY <1>1, <1>11, <2>1, LiveFacts DEF FramesKept
<1>13. NumbersAccounted'
  <2>1. \A r \in OnDisk : EntryOf(r)' = EntryOf(r)
    BY <1>10 DEF OnDisk
  <2>2. \A r \in Fresh : /\ EntryOf(r)'.diskpage = s.table[r[2]].diskpage
                          /\ EntryOf(r)'.diskpage \in DiskList!FreeSet(diskfree)
    BY <1>4, <1>8, <1>10
  <2>3. \A r \in OnDisk : EntryOf(r)'.diskpage \notin DiskList!FreeSet(diskfree)
    BY <2>1, LiveFacts
  <2>4. ASSUME NEW r \in OnDisk', NEW t \in OnDisk', EntryOf(r)'.diskpage = EntryOf(t)'.diskpage
        PROVE  r = t
    <3>1. CASE r \in Fresh /\ t \in Fresh
      BY <1>4, <1>8, <2>2, <2>4, <3>1
    <3>2. CASE r \in OnDisk /\ t \in OnDisk
      BY <2>1, <2>4, <3>2, LiveFacts
    <3>. QED  BY <1>11, <2>2, <2>3, <2>4, <3>1, <3>2
  <2>5. {EntryOf(r)'.diskpage : r \in Fresh} = {s.table[v].diskpage : v \in NewPages(pid, s)}
    <3>1. \A v \in NewPages(pid, s) : <<pid, v>> \in Fresh /\ <<pid, v>>[2] = v
      BY DEF Fresh
    <3>2. \A r \in Fresh : \E v \in NewPages(pid, s) :
             EntryOf(r)'.diskpage = s.table[v].diskpage
      BY <1>8, <2>2
    <3>3. \A v \in NewPages(pid, s) : \E r \in Fresh :
             s.table[v].diskpage = EntryOf(r)'.diskpage
      <4>. SUFFICES ASSUME NEW v \in NewPages(pid, s)
                    PROVE  \E r \in Fresh : s.table[v].diskpage = EntryOf(r)'.diskpage
        OBVIOUS
      <4>. DEFINE t == <<pid, v>>
      <4>1. t \in Fresh /\ t[2] = v
        BY <3>1
      <4>. HIDE DEF t
      <4>. QED  BY <2>2, <4>1
    <3>. QED  BY <3>2, <3>3, Zenon
  <2>6. {EntryOf(r)'.diskpage : r \in OnDisk'} =
           {EntryOf(r).diskpage : r \in OnDisk} \cup {EntryOf(r)'.diskpage : r \in Fresh}
    BY <1>11, <2>1
  <2>7. DiskList!FreeSet(diskfree') = DiskPages \ {EntryOf(r)'.diskpage : r \in OnDisk'}
    BY <1>1, <1>4, <2>5, <2>6, LiveFacts
  <2>8. PidList!FreeSet(freepids') = Pids \ procs'
    BY <1>1, LiveFacts
  <2>. QED  BY <2>4, <2>7, <2>8 DEF NumbersAccounted
<1>14. MappedExact'
  <2>1. \A r \in Resident : EntryOf(r)' = EntryOf(r)
    BY <1>10 DEF Resident
  <2>. QED  BY <1>1, <1>11, <2>1, LiveFacts DEF MappedExact
<1>15. LruComplete' /\ MisplacedListed'
  BY <1>1, LiveFacts DEF LruComplete, MisplacedListed
<1>16. IInv'
  BY <1>6, <1>7, <1>12, <1>13, <1>14, <1>15 DEF IInv
<1>. QED  BY <1>9, <1>10, <1>11, <1>16 DEF Fresh

\* The pages that add_vpage and set_vpage_permissions add.
LEMMA AddPagesFacts ==
    ASSUME IInv, Alive, NEW pid \in Pids, NEW vs \in Ranges,
           AddVPages(pid, vs) \/ SetVPagePermissions(pid, vs)
    PROVE  \E s : pid \in procs /\ GoodAdd(pid, s) /\ Added(pid, s)
<1>1. vs \in Seq(VPages)
  <2>1. PICK lo \in VPages, hi \in VPages : lo <= hi /\ vs = RunOf(lo, hi)
    BY DEF Ranges
  <2>2. lo \in Nat /\ hi \in Nat /\ lo .. hi \subseteq VPages
    BY VMAssumption
  <2>3. RunOf(lo, hi) \in [1 .. hi - lo + 1 -> VPages]
    BY <2>1, <2>2 DEF RunOf
  <2>4. hi - lo + 1 \in Nat
    BY <2>1, <2>2
  <2>. QED  BY <2>1, <2>3, <2>4, SeqDef
<1>2. PICK there \in {"ok", "throw"} : pid \in procs /\ Added(pid, AddEach(pid, vs, there))
  BY DEF AddVPages, SetVPagePermissions
<1>3. GoodAdd(pid, AddEach(pid, vs, there))
  BY <1>1, AddEachFacts DEF IInv, TypeOK, ListsSound
<1>. QED  BY <1>2, <1>3

LEMMA AddPagesIInv ==
    ASSUME IInv, Alive, NEW pid \in Pids, NEW vs \in Ranges,
           AddVPages(pid, vs) \/ SetVPagePermissions(pid, vs)
    PROVE  IInv'
BY AddPagesFacts, AddedIInv

\* The page comes into a physical page nobody uses, or a misplaced one, and its disk page,
\* which no other page has, becomes free.
LEMMA PageInIInv ==
    ASSUME IInv, Alive, NEW pid \in Pids, NEW v \in VPages, PageIn(pid, v)
    PROVE  LET f == FrameList!TakenAddr(freelist, 1)
               page == <<pid, v>>
           IN  /\ IInv'
               /\ f \in FrameList!FreeSet(freelist) /\ f \in Frames /\ page \in OnDisk
               /\ \A p \in Pids : DOMAIN entries'[p] = DOMAIN entries[p]
               /\ AllPages' = AllPages /\ Resident' = Resident \cup {page}
               /\ EntryOf(page)'.ppage = f
               /\ \A r \in Resident : r # page /\ EntryOf(r)' = EntryOf(r)
               /\ \A r \in AllPages \ {page} : EntryOf(r)' = EntryOf(r)
<1>. DEFINE f == FrameList!TakenAddr(freelist, 1)
            list == FrameList!TakeFirst(freelist, 1)
            d == entries[pid][v].diskpage
            page == <<pid, v>>
            new == [entries[pid][v] EXCEPT !.ppage = f, !.disk = FALSE]
<1>1. /\ pid \in procs /\ v \in DOMAIN entries[pid] /\ entries[pid][v].disk
      /\ FrameList!CanFit(freelist, 1) /\ freelist' = list
      /\ diskfree' = DiskList!ReturnBlock(diskfree, d, 1).blocks
      /\ entries' = [entries EXCEPT ![pid] = [entries[pid] EXCEPT ![v] = new]]
      /\ mapped' = [mapped EXCEPT ![f] = @ \cup {page}]
      /\ used' = [used EXCEPT ![f] = TRUE]
      /\ lru' = AddLru(lru, f)
      /\ status' = "ok"
      /\ UNCHANGED <<procs, cur, freepids, tlb, misplaced>>
  BY DEF PageIn, Fault, MapVPageToPPage, Pushed
<1>2. TypeOK
  BY DEF IInv
<1>3. /\ FrameList!GoodList(list) /\ f \in FrameList!FreeSet(freelist)
      /\ FrameList!FreeSet(list) = FrameList!FreeSet(freelist) \ {f}
  BY <1>1, ListRanges, FrameList!TakeOne DEF IInv, ListsSound
<1>. HIDE DEF f, list
<1>4. f \in Frames /\ (f \notin misplaced => ~used[f])
  BY <1>3, FreeFacts
<1>5. /\ page \in AllPages /\ page[1] = pid /\ page[2] = v
      /\ EntryOf(page) = entries[pid][v] /\ page \in Pids \X VPages
  BY <1>1, <1>2, PageFacts
<1>6. page \in OnDisk /\ page \notin Resident /\ d = EntryOf(page).diskpage
  BY <1>1, <1>5 DEF OnDisk, Resident
<1>7. entries[pid][v] \in Entry
  BY <1>2, <1>5, PageFacts
<1>8. d \in DiskPages
  BY <1>7 DEF Entry
<1>9. new \in Entry /\ new.ppage = f /\ new.disk = FALSE
  BY <1>4, <1>7 DEF Entry
<1>. HIDE DEF d, page, new
<1>10. /\ DiskList!GoodList(diskfree')
       /\ DiskList!FreeSet(diskfree') = DiskList!FreeSet(diskfree) \cup {d}
  <2>1. d \in DiskList!Span(0, NDiskPages) /\ d \notin DiskList!FreeSet(diskfree)
    BY <1>6, <1>8, ListSpans, LiveFacts
  <2>. QED  BY <1>1, <2>1, ListRanges, DiskList!ReturnOne DEF IInv, ListsSound
<1>11. /\ entries' \in [Pids -> PageTable]
       /\ \A p \in Pids : DOMAIN entries'[p] = DOMAIN entries[p]
       /\ entries'[pid][v] = new
       /\ \A p \in Pids : \A w \in DOMAIN entries[p] :
             p # pid \/ w # v => entries'[p][w] = entries[p][w]
  <2>. DEFINE table == [entries[pid] EXCEPT ![v] = new]
  <2>1. entries' = [entries EXCEPT ![pid] = table] /\ entries \in [Pids -> PageTable]
    BY <1>1, <1>2 DEF TypeOK
  <2>2. /\ table \in PageTable /\ DOMAIN table = DOMAIN entries[pid] /\ table[v] = new
        /\ \A w \in DOMAIN entries[pid] : w # v => table[w] = entries[pid][w]
    <3>1. entries[pid] \in PageTable
      BY <2>1
    <3>. QED  BY <1>1, <1>9, <3>1 DEF PageTable
  <2>. HIDE DEF table
  <2>3. /\ entries' \in [Pids -> PageTable] /\ entries'[pid] = table
        /\ \A p \in Pids \ {pid} : entries'[p] = entries[p]
    BY <2>1, <2>2
  <2>. QED  BY <2>2, <2>3
<1>12. AllPages' = AllPages
  BY <1>11 DEF AllPages
<1>13. /\ EntryOf(page)' = new
       /\ \A r \in AllPages \ {page} : EntryOf(r)' = EntryOf(r)
  <2>1. EntryOf(page)' = new
    BY <1>5, <1>11 DEF EntryOf
  <2>2. ASSUME NEW r \in AllPages \ {page}
        PROVE  EntryOf(r)' = EntryOf(r)
    <3>1. /\ r = <<r[1], r[2]>> /\ r[1] \in Pids /\ r[2] \in DOMAIN entries[r[1]]
      BY <1>2, PageFacts
    <3>2. r[1] # pid \/ r[2] # v
      BY <3>1 DEF page
    <3>. QED  BY <1>11, <3>1, <3>2 DEF EntryOf
  <2>. QED  BY <2>1, <2>2
<1>14. /\ Resident' = Resident \cup {page} /\ OnDisk' = OnDisk \ {page}
  BY <1>5, <1>9, <1>12, <1>13 DEF Resident, OnDisk
<1>15. /\ \A r \in Resident : r # page /\ EntryOf(r)' = EntryOf(r)
       /\ \A r \in OnDisk \ {page} : EntryOf(r)' = EntryOf(r)
       /\ EntryOf(page)'.ppage = f
  BY <1>6, <1>9, <1>13 DEF Resident, OnDisk
<1>16. f \notin misplaced => \A r \in Resident : EntryOf(r).ppage # f
  BY <1>3, FreeFacts
<1>17. \A g \in Frames : used'[g] <=> used[g] \/ g = f
  BY <1>1, <1>2 DEF TypeOK
<1>18. AddLru(lru, f) \in Seq(Frames) /\ IsInjective(AddLru(lru, f))
       /\ Range(AddLru(lru, f)) = Range(lru) \cup {f}
  BY <1>2, <1>4, AddLruFacts, LiveFacts DEF TypeOK
<1>19. TypeOK'
  <2>1. freelist' \in Seq(FrameList!FreeBlock) /\ diskfree' \in Seq(DiskList!FreeBlock)
    BY <1>1, <1>3, <1>10, FreeFrames, FreeDiskPages
  <2>2. used' \in [Frames -> BOOLEAN]
    BY <1>1, <1>2 DEF TypeOK
  <2>3. mapped' \in [Frames -> SUBSET ((Pids \X VPages) \cup {Freed})]
    BY <1>1, <1>2, <1>5 DEF TypeOK
  <2>. QED  BY <1>1, <1>2, <1>11, <1>18, <2>1, <2>2, <2>3 DEF TypeOK
<1>20. ListsSound' /\ TablesOfProcs'
  <2>1. \A p \in Pids \ procs : entries'[p] = entries[p]
    BY <1>1, <1>2 DEF TypeOK
  <2>. QED  BY <1>1, <1>3, <1>10, <2>1 DEF IInv, ListsSound, TablesOfProcs
<1>21. FramesKept'
  <2>1. ASSUME NEW r \in Resident', NEW s \in Resident', EntryOf(r)'.ppage = EntryOf(s)'.ppage
        PROVE  r = s \/ EntryOf(r)'.ppage \in misplaced
    BY <1>14, <1>15, <1>16, <2>1, LiveFacts
  <2>2. ASSUME NEW g \in Frames \ misplaced
        PROVE  used'[g] <=> \E r \in Resident' : EntryOf(r)'.ppage = g
    <3>1. used[g] <=> \E r \in Resident : EntryOf(r).ppage = g
      BY LiveFacts
    <3>. QED  BY <1>14, <1>15, <1>17, <3>1
  <2>3. \A g \in FrameList!FreeSet(freelist') : used'[g] => g \in misplaced
    <3>1. FrameList!FreeSet(freelist) \subseteq Frames
      BY FreeFrames DEF IInv, ListsSound
    <3>. QED  BY <1>1, <1>3, <1>17, <3>1, LiveFacts
  <2>4. misplaced = {} => FrameList!FreeSet(freelist') = {g \in Frames : ~used'[g]}
    BY <1>1, <1>3, <1>17, LiveFacts
  <2>. QED  BY <1>1, <2>1, <2>2, <2>3, <2>4 DEF FramesKept
<1>22. NumbersAccounted'
  <2>1. \A r, s \in OnDisk' : EntryOf(r)'.diskpage = EntryOf(s)'.diskpage => r = s
    BY <1>14, <1>15, LiveFacts
  <2>2. {EntryOf(r)'.diskpage : r \in OnDisk'} = {EntryOf(r).diskpage : r \in OnDisk} \ {d}
    <3>1. {EntryOf(r)'.diskpage : r \in OnDisk'} = {EntryOf(r).diskpage : r \in OnDisk \ {page}}
      BY <1>14, <1>15
    <3>2. \A r \in OnDisk : EntryOf(r).diskpage = d <=> r = page
      BY <1>6, LiveFacts
    <3>. QED  BY <3>1, <3>2
  <2>3. DiskList!FreeSet(diskfree') = DiskPages \ {EntryOf(r)'.diskpage : r \in OnDisk'}
    BY <1>8, <1>10, <2>2, LiveFacts
  <2>4. PidList!FreeSet(freepids') = Pids \ procs'
    BY <1>1, LiveFacts
  <2>. QED  BY <2>1, <2>3, <2>4 DEF NumbersAccounted
<1>23. MappedExact'
  <2>. SUFFICES ASSUME NEW g \in Frames
                PROVE  mapped'[g] \ {Freed} = {r \in Resident' : EntryOf(r)'.ppage = g}
    BY DEF MappedExact
  <2>1. mapped'[g] = IF g = f THEN mapped[g] \cup {page} ELSE mapped[g]
    BY <1>1, <1>2 DEF TypeOK
  <2>2. mapped[g] \ {Freed} = {r \in Resident : EntryOf(r).ppage = g}
    BY LiveFacts
  <2>3. page # Freed
    BY <1>5, PairNotFreed
  <2>. QED  BY <1>14, <1>15, <2>1, <2>2, <2>3
<1>24. LruComplete' /\ MisplacedListed'
  BY <1>1, <1>17, <1>18, LiveFacts DEF LruComplete, MisplacedListed
<1>25. IInv'
  BY <1>19, <1>20, <1>21, <1>22, <1>23, <1>24 DEF IInv
<1>. QED  BY <1>3, <1>4, <1>6, <1>11, <1>12, <1>13, <1>14, <1>15, <1>25 DEF f, page

\* When no physical page is free, the list is not empty.  The head of it is in use, and the
\* page table entry that put it to use still points to it, if no page was misplaced.
LEMMA VictimFacts ==
    ASSUME IInv, Alive, ~FrameList!CanFit(freelist, 1)
    PROVE  /\ lru # <<>> /\ Head(lru) \in Frames /\ Tail(lru) \in Seq(Frames)
           /\ misplaced = {} =>
                \E r \in mapped[Head(lru)] \cap Resident : EntryOf(r).ppage = Head(lru)
<1>1. FrameList!FreeSet(freelist) = {}
  BY ListRanges, FrameList!SingleFits DEF IInv, ListsSound
<1>2. misplaced = {} => \A f \in Frames : used[f]
  BY <1>1, LiveFacts
<1>3. 0 \in Frames /\ lru \in Seq(Frames)
  BY VMAssumption DEF Frames, IInv, TypeOK
<1>4. \E f : f \in Range(lru)
  BY <1>2, <1>3, LiveFacts
<1>5. lru # <<>>
  BY <1>4 DEF Range
<1>6. Head(lru) \in Frames /\ Tail(lru) \in Seq(Frames)
  BY <1>3, <1>5, HeadTailProperties
<1>7. ASSUME misplaced = {}
      PROVE  \E r \in mapped[Head(lru)] \cap Resident : EntryOf(r).ppage = Head(lru)
  <2>1. PICK r \in Resident : EntryOf(r).ppage = Head(lru)
    BY <1>2, <1>6, <1>7, LiveFacts
  <2>2. r \in mapped[Head(lru)]
    BY <1>6, <2>1, LiveFacts
  <2>. QED  BY <2>1, <2>2
<1>. QED  BY <1>5, <1>6, <1>7

\* evict_ppage never returns: it ends the program with tables and lists intact, and the
\* page that was in the physical page is on disk.  The tables and the list of free disk
\* pages may have grown before.
LEMMA EvictPPageFacts ==
    ASSUME IInv, Alive, NEW f \in Frames, NEW ents \in [Pids -> PageTable],
           \A p \in Pids : DOMAIN entries[p] \subseteq DOMAIN ents[p],
           \A p \in Pids \ procs : ents[p] = EmptyTable,
           NEW free, DiskList!GoodList(free),
           lru' \in Seq(Frames), EvictPPage(f, ents, free)
    PROVE  /\ IInv' /\ ~Alive' /\ UNCHANGED <<procs, cur>>
           /\ \E r \in Resident, new \in Entry :
                 /\ EntryOf(r).ppage = f /\ new.disk /\ entries'[r[1]][r[2]] = new
                 /\ \A q \in Pids : DOMAIN entries'[q] = DOMAIN ents[q]
                 /\ \A q \in Pids : \A v \in DOMAIN ents[q] :
                       q # r[1] \/ v # r[2] => entries'[q][v] = ents[q][v]
<1>3. TypeOK
  BY DEF IInv
<1>4. PICK dangling \in IF Freed \in mapped[f] THEN 1 .. NDiskPages ELSE {0},
           r \in {s \in mapped[f] : mapped[f] \ {Freed} = {s}} :
          LET list == AfterPages(free, dangling)
              room == DiskList!CanFit(list, 1)
              page == IF room THEN DiskList!TakenAddr(list, 1) ELSE ents[r[1]][r[2]].diskpage
              t == tlb[TlbSlot(r[2])]
          IN  /\ entries' = [ents EXCEPT ![r[1]][r[2]] =
                    [@ EXCEPT !.disk = TRUE, !.diskpage = page]]
              /\ tlb' = IF room /\ t.valid /\ t.ppage = f /\ t.vpage = r[2]
                        THEN [tlb EXCEPT ![TlbSlot(r[2])] = [t EXCEPT !.valid = FALSE]]
                        ELSE tlb
              /\ diskfree' = AfterPages(free, dangling + 1)
              /\ mapped' = IF room THEN [mapped EXCEPT ![f] = {}] ELSE mapped
              /\ status' = IF room THEN "out_of_range" ELSE "no_disk_page"
  BY Zenon DEF EvictPPage
<1>5. UNCHANGED <<procs, cur, freepids, freelist, misplaced>> /\ used' = [used EXCEPT ![f] = FALSE]
  BY DEF EvictPPage
<1>. DEFINE list == AfterPages(free, dangling)
            room == DiskList!CanFit(list, 1)
            page == IF room THEN DiskList!TakenAddr(list, 1) ELSE ents[r[1]][r[2]].diskpage
            slot == TlbSlot(r[2])
            new == [ents[r[1]][r[2]] EXCEPT !.disk = TRUE, !.diskpage = page]
<1>6. /\ entries' = [ents EXCEPT ![r[1]] = [@ EXCEPT ![r[2]] = new]]
      /\ tlb' = tlb \/ tlb' = [tlb EXCEPT ![slot] = [tlb[slot] EXCEPT !.valid = FALSE]]
      /\ diskfree' = AfterPages(free, dangling + 1)
      /\ mapped' = [mapped EXCEPT ![f] = {}] \/ mapped' = mapped
      /\ status' \in {"out_of_range", "no_disk_page"}
  <2>1. entries' = [ents EXCEPT ![r[1]] = [ents[r[1]] EXCEPT ![r[2]] = new]]
    BY <1>4, Zenon
  <2>2. tlb' = tlb \/ tlb' = [tlb EXCEPT ![slot] = [tlb[slot] EXCEPT !.valid = FALSE]]
    BY <1>4, Zenon
  <2>3. /\ diskfree' = AfterPages(free, dangling + 1)
        /\ mapped' = [mapped EXCEPT ![f] = {}] \/ mapped' = mapped
        /\ status' \in {"out_of_range", "no_disk_page"}
    BY <1>4
  <2>. QED  BY <2>1, <2>2, <2>3
<1>7. dangling \in Nat
  BY VMAssumption
<1>8. /\ r \in Resident /\ EntryOf(r).ppage = f
      /\ r[1] \in procs /\ r[1] \in Pids /\ r[2] \in DOMAIN ents[r[1]]
  <2>0. r \in Resident /\ EntryOf(r).ppage = f
    <3>1. r \in mapped[f] \ {Freed}
      OBVIOUS
    <3>. QED  BY <3>1, LiveFacts
  <2>1. r \in AllPages
    BY <2>0 DEF Resident
  <2>2. r[1] \in Pids /\ r[2] \in DOMAIN entries[r[1]]
    BY <1>3, <2>1, PageFacts
  <2>3. DOMAIN EmptyTable = {}
    BY DEF EmptyTable
  <2>4. r[1] \in procs
    BY <2>2, <2>3 DEF IInv, TablesOfProcs
  <2>. QED  BY <2>0, <2>2, <2>4
<1>9. ents[r[1]] \in PageTable /\ ents[r[1]][r[2]] \in Entry
  BY <1>8, TableFacts
<1>10. DiskList!GoodList(list) /\ DiskList!GoodList(diskfree')
  BY <1>6, <1>7, AfterPagesFacts
<1>11. page \in DiskPages
  <2>1. CASE room
    <3>1. DiskList!TakenAddr(list, 1) \in DiskList!FreeSet(list)
      BY <1>10, <2>1, ListRanges, DiskList!TakeOne
    <3>. QED  BY <1>10, <2>1, <3>1, FreeDiskPages
  <2>2. CASE ~room
    BY <1>9, <2>2 DEF Entry
  <2>. QED  BY <2>1, <2>2
<1>. HIDE DEF page, list, room
<1>12. new \in Entry /\ new.disk
  BY <1>9, <1>11 DEF Entry
<1>. HIDE DEF new
<1>13. /\ entries' \in [Pids -> PageTable] /\ \A p \in Pids \ procs : entries'[p] = EmptyTable
       /\ entries'[r[1]][r[2]] = new
       /\ \A q \in Pids : DOMAIN entries'[q] = DOMAIN ents[q]
       /\ \A q \in Pids : \A v \in DOMAIN ents[q] :
             q # r[1] \/ v # r[2] => entries'[q][v] = ents[q][v]
  <2>. DEFINE table == [ents[r[1]] EXCEPT ![r[2]] = new]
  <2>1. /\ table \in PageTable /\ DOMAIN table = DOMAIN ents[r[1]] /\ table[r[2]] = new
        /\ \A v \in DOMAIN ents[r[1]] : v # r[2] => table[v] = ents[r[1]][v]
    BY <1>8, <1>9, <1>12 DEF PageTable
  <2>2. entries' = [ents EXCEPT ![r[1]] = table]
    BY <1>6
  <2>. HIDE DEF table
  <2>3. /\ entries' \in [Pids -> PageTable] /\ entries'[r[1]] = table
        /\ \A q \in Pids \ {r[1]} : entries'[q] = ents[q]
    BY <1>8, <2>1, <2>2
  <2>. QED  BY <1>8, <2>1, <2>3
<1>14. tlb' \in [0 .. TlbSize - 1 -> TlbEntry]
  <2>1. tlb \in [0 .. TlbSize - 1 -> TlbEntry]
    BY <1>3 DEF TypeOK
  <2>2. slot \in 0 .. TlbSize - 1
    <3>1. r[2] \in Nat
      BY <1>8, <1>9, TableFacts, VMAssumption
    <3>. QED  BY <3>1, VMAssumption DEF TlbSlot
  <2>. HIDE DEF slot
  <2>3. [tlb[slot] EXCEPT !.valid = FALSE] \in TlbEntry
    BY <2>1, <2>2 DEF TlbEntry
  <2>. QED  BY <1>6, <2>1, <2>2, <2>3
<1>15. TypeOK'
  <2>1. diskfree' \in Seq(DiskList!FreeBlock)
    BY <1>10, FreeDiskPages
  <2>2. mapped' \in [Frames -> SUBSET ((Pids \X VPages) \cup {Freed})]
    BY <1>3, <1>6 DEF TypeOK
  <2>3. used' \in [Frames -> BOOLEAN]
    BY <1>3, <1>5 DEF TypeOK
  <2>. QED  BY <1>3, <1>5, <1>6, <1>13, <1>14, <2>1, <2>2, <2>3 DEF TypeOK
<1>16. ListsSound' /\ TablesOfProcs'
  BY <1>5, <1>10, <1>13 DEF IInv, ListsSound, TablesOfProcs
<1>17. ~Alive'
  BY <1>6 DEF Alive
<1>18. IInv'
  BY <1>15, <1>16, <1>17, DeadIInv
<1>. QED  BY <1>5, <1>8, <1>12, <1>13, <1>17, <1>18

LEMMA EvictIInv ==
    ASSUME IInv, Alive, NEW pid \in Pids, NEW v \in VPages, Evict(pid, v)
    PROVE  IInv'
<1>1. /\ ~FrameList!CanFit(freelist, 1) /\ lru' = Tail(lru)
      /\ EvictPPage(Head(lru), entries, diskfree)
  BY DEF Evict
<1>2. Head(lru) \in Frames /\ lru' \in Seq(Frames)
  BY <1>1, VictimFacts
<1>3. /\ entries \in [Pids -> PageTable] /\ \A p \in Pids \ procs : entries[p] = EmptyTable
      /\ \A p \in Pids : DOMAIN entries[p] \subseteq DOMAIN entries[p]
      /\ DiskList!GoodList(diskfree)
  BY DEF IInv, TypeOK, ListsSound, TablesOfProcs
<1>. QED  BY <1>1, <1>2, <1>3, EvictPPageFacts

LEMMA StutterIInv == IInv /\ UNCHANGED vars => IInv'
<1>. SUFFICES ASSUME IInv, UNCHANGED vars
              PROVE  IInv'
  OBVIOUS
<1>1. /\ AllPages' = AllPages /\ Resident' = Resident /\ OnDisk' = OnDisk
      /\ \A r : EntryOf(r)' = EntryOf(r)
      /\ Alive' = Alive
  BY DEF vars, AllPages, Resident, OnDisk, EntryOf, Alive
<1>2. TypeOK' /\ ListsSound' /\ TablesOfProcs'
  BY DEF vars, IInv, TypeOK, ListsSound, TablesOfProcs
<1>3. FramesKept' /\ NumbersAccounted'
  BY <1>1 DEF vars, IInv, FramesKept, NumbersAccounted
<1>4. MappedExact' /\ LruComplete' /\ MisplacedListed'
  BY <1>1 DEF vars, IInv, MappedExact, LruComplete, MisplacedListed
<1>. QED  BY <1>2, <1>3, <1>4 DEF IInv

LEMMA NextIInv == IInv /\ [Next]_vars => IInv'
<1>. SUFFICES ASSUME IInv, [Next]_vars
              PROVE  IInv'
  OBVIOUS
<1>1. CASE UNCHANGED vars
  BY <1>1, StutterIInv
<1>2. CASE Next
  <2>1. Alive
    BY <1>2 DEF Next
  <2>2. CASE BeginProcess
    BY <2>1, <2>2, BeginProcessIInv
  <2>3. CASE BeginThrows
    BY <2>1, <2>3, ThrowIInv DEF BeginThrows
  <2>4. ASSUME NEW pid \in Pids, SetProcess(pid)
        PROVE  IInv'
    BY <2>1, <2>4, SetProcessIInv
  <2>5. ASSUME NEW pid \in Pids, EndProcess(pid)
        PROVE  IInv'
    BY <2>1, <2>5, EndProcessIInv
  <2>6. ASSUME NEW pid \in Pids, InvalidPid(pid)
        PROVE  IInv'
    BY <2>1, <2>6, ThrowIInv DEF InvalidPid
  <2>7. ASSUME NEW pid \in Pids, NEW vs \in Ranges,
               AddVPages(pid, vs) \/ SetVPagePermissions(pid, vs)
        PROVE  IInv'
    BY <2>1, <2>7, AddPagesIInv
  <2>8. ASSUME NEW pid \in Pids, NEW v \in VPages, Access(pid, v)
        PROVE  IInv'
    <3>1. CASE AccessHit(pid, v)
      BY <2>1, <3>1, AccessHitIInv
    <3>2. CASE AccessUnmapped(pid, v)
      BY <2>1, <3>2, ThrowIInv DEF AccessUnmapped
    <3>3. CASE AccessResident(pid, v)
      BY <2>1, <3>3, AccessResidentIInv
    <3>4. CASE PageIn(pid, v)
      BY <2>1, <3>4, PageInIInv
    <3>5. CASE Evict(pid, v)
      BY <2>1, <3>5, EvictIInv
    <3>. QED  BY <2>8, <3>1, <3>2, <3>3, <3>4, <3>5 DEF Access
  <2>. QED  BY <1>2, <2>2, <2>3, <2>4, <2>5, <2>6, <2>7, <2>8 DEF Next
<1>. QED  BY <1>1, <1>2

\* Only map_ppage can misplace a page, and the processes alone do not call it.
LEMMA NoneMisplaced == [Next]_vars => UNCHANGED misplaced
<1>. SUFFICES ASSUME [Next]_vars
              PROVE  misplaced' = misplaced
  OBVIOUS
<1>1. CASE UNCHANGED vars
  BY <1>1 DEF vars
<1>2. Throw => misplaced' = misplaced
  BY DEF Throw, frames
<1>3. \A pid \in Pids, vs \in Ranges :
         AddVPages(pid, vs) \/ SetVPagePermissions(pid, vs) => misplaced' = misplaced
  BY DEF AddVPages, SetVPagePermissions, Added, frames
<1>4. \A pid \in Pids, v \in VPages : Access(pid, v) => misplaced' = misplaced
  <2>. SUFFICES ASSUME NEW pid \in Pids, NEW v \in VPages, Access(pid, v)
                PROVE  misplaced' = misplaced
    OBVIOUS
  <2>1. CASE PageIn(pid, v)
    BY <2>1 DEF PageIn
  <2>2. CASE Evict(pid, v)
    BY <2>2 DEF Evict, EvictPPage
  <2>3. AccessHit(pid, v) \/ AccessResident(pid, v) \/ AccessUnmapped(pid, v) => misplaced' = misplaced
    BY <1>2 DEF AccessHit, AccessResident, AccessUnmapped, frames
  <2>. QED  BY <2>1, <2>2, <2>3 DEF Access
<1>5. CASE Next
  BY <1>2, <1>3, <1>4, <1>5
     DEF Next, BeginProcess, BeginThrows, SetProcess, EndProcess, InvalidPid, frames
<1>. QED  BY <1>1, <1>5

VMInv == IInv /\ misplaced = {}

THEOREM Invariance == Spec => []VMInv
<1>1. Init => VMInv
  BY InitIInv DEF Init, VMInv
<1>2. VMInv /\ [Next]_vars => VMInv'
  BY NextIInv, NoneMisplaced DEF VMInv
<1>. QED  BY <1>1, <1>2, PTL DEF Spec

-----------------------------------------------------------------------------
(* The properties. *)

\* Page tables, lists, LRU list and TLB keep their types in every run, also
\* those that end in an exception.
THEOREM TypeCorrect == Spec => []TypeOK
<1>1. VMInv => TypeOK
  BY DEF VMInv, IInv
<1>. QED  BY <1>1, Invariance, PTL

\* No physical page serves two virtual pages or is lost, for any number of
\* processes that begin, end, add pages and fault in any order.
THEOREM PhysicalPages == Spec => []FramesAccounted
<1>1. VMInv => FramesAccounted
  <2>. SUFFICES ASSUME VMInv, Alive
                PROVE  /\ \A r, s \in Resident : EntryOf(r).ppage = EntryOf(s).ppage => r = s
                       /\ {EntryOf(r).ppage : r \in Resident} = {f \in Frames : used[f]}
                       /\ FrameList!FreeSet(freelist) = {f \in Frames : ~used[f]}
    BY DEF FramesAccounted
  <2>1. IInv /\ misplaced = {}
    BY DEF VMInv
  <2>2. \A r \in Resident : EntryOf(r).ppage \in Frames
    BY <2>1, PageFacts DEF IInv, Resident, Entry
  <2>3. \A f \in Frames : used[f] <=> \E r \in Resident : EntryOf(r).ppage = f
    BY <2>1, LiveFacts
  <2>. QED  BY <2>1, <2>2, <2>3, LiveFacts
<1>. QED  BY <1>1, Invariance, PTL

\* The same of disk pages and process ids, also when add_vpage throws half way.
THEOREM DiskPagesAndPids == Spec => []NumbersAccounted
<1>1. VMInv => NumbersAccounted
  BY DEF VMInv, IInv
<1>. QED  BY <1>1, Invariance, PTL

\* "there MUST be a mapped vpage or else we should not be evicting this ppage"
\* (virtual_memory.cpp:419) holds of the page eviction picks.
THEOREM Victim == Spec => []VictimMapped
<1>1. VMInv => VictimMapped
  BY VictimFacts DEF VMInv, VictimMapped
<1>. QED  BY <1>1, Invariance, PTL

\* add_lru and end_process never lose a used page from the LRU list, and none
\* is in it twice.
THEOREM Lru == Spec => []LruComplete
<1>1. VMInv => LruComplete
  BY DEF VMInv, IInv
<1>. QED  BY <1>1, Invariance, PTL

-----------------------------------------------------------------------------
(* Part 2: the system bus. *)

-----------------------------------------------------------------------------
(* The inductive invariant. *)

\* An access under way: parts that are still to be made, each within a page and none of
\* its bytes in another part.  A write has a byte for each of them, a read none yet.
Underway(p) ==
    /\ p \in [kind : {"read", "write"}, todo : Seq(SUBSET Nat), data : {p.data}]
    /\ p.todo # <<>>
    /\ DOMAIN p.data \subseteq Nat
    /\ \A a \in DOMAIN p.data : p.data[a] \in Byte
    /\ \A i \in 1 .. Len(p.todo) :
         /\ p.todo[i] # {} /\ IsFiniteSet(p.todo[i])
         /\ \A a, b \in p.todo[i] : PageOf(a) = PageOf(b)
         /\ p.kind = "write" => p.todo[i] \subseteq DOMAIN p.data
         /\ p.kind = "read" => p.todo[i] \cap DOMAIN p.data = {}
         /\ \A j \in 1 .. Len(p.todo) : i # j => p.todo[i] \cap p.todo[j] = {}

\* Only RAM and ROM have misplaced pages.
BusInv ==
    /\ IInv
    /\ misplaced \subseteq Backed
    /\ memory \in [Backed -> [0 .. PageBytes - 1 -> Byte]]
    /\ pending = Idle \/ Underway(pending)
    /\ reply.status \in {"ok", "throw", "exit"}

-----------------------------------------------------------------------------
(* ensure_physical_page_mapping. *)

\* Page p of process p, which is the page it was looking for, comes into physical page p.
\* The disk page it was given a moment ago is free again.
LEMMA MappedIInv ==
    ASSUME IInv, Alive, NEW pid \in Pids, NEW p \in procs, NEW s, GoodAdd(p, s), p \in Frames,
           NewPages(p, s) = {PageForPid}, ~used[p], p \notin DOMAIN entries[pid],
           FrameList!GoodList(Taken(p)),
           FrameList!FreeSet(Taken(p)) \subseteq FrameList!FreeSet(freelist),
           freelist' = Taken(p),
           misplaced' = IF RemovesExactly(p) THEN misplaced ELSE misplaced \cup {p},
           p \in DOMAIN [entries EXCEPT ![p] = s.table][pid],
           MapVPageToPPage(pid, p, p, [entries EXCEPT ![p] = s.table], s.diskfree)
    PROVE  LET page == <<p, PageForPid>>
           IN  /\ IInv' /\ p = PageForPid
               /\ AllPages' = AllPages \cup {page} /\ page \notin AllPages
               /\ Resident' = Resident \cup {page}
               /\ EntryOf(page)'.ppage = p
               /\ \A r \in AllPages : EntryOf(r)' = EntryOf(r)
               /\ p \notin misplaced => \A r \in Resident : EntryOf(r).ppage # p
<1>. DEFINE ents == [entries EXCEPT ![p] = s.table]
            d == s.table[p].diskpage
            page == <<p, p>>
            new == [s.table[p] EXCEPT !.ppage = p, !.disk = FALSE]
<1>1. TypeOK /\ p \in Pids
  BY DEF IInv, TypeOK
<1>2. /\ ents \in [Pids -> PageTable] /\ ents[p] = s.table
      /\ \A q \in Pids \ {p} : ents[q] = entries[q]
      /\ s.table \in PageTable /\ DiskList!GoodList(s.diskfree)
  <2>1. s.table \in PageTable /\ DiskList!GoodList(s.diskfree)
    BY DEF GoodAdd, AddState
  <2>. QED  BY <1>1, <2>1 DEF TypeOK
<1>3. pid = p /\ p = PageForPid /\ NewPages(p, s) = {p} /\ p \in DOMAIN s.table
  <2>1. pid = p
    BY <1>2
  <2>2. p \in NewPages(p, s)
    BY <1>2, <2>1 DEF NewPages
  <2>. QED  BY <1>2, <2>1, <2>2
<1>4. /\ DOMAIN s.table = DOMAIN entries[p] \cup {p}
      /\ \A v \in DOMAIN entries[p] : s.table[v] = entries[p][v]
      /\ s.table[p].disk /\ d \in DiskList!FreeSet(diskfree)
      /\ DiskList!FreeSet(s.diskfree) = DiskList!FreeSet(diskfree) \ {d}
  <2>1. DOMAIN s.table = DOMAIN entries[p] \cup NewPages(p, s)
    BY DEF GoodAdd, NewPages
  <2>. QED  BY <1>3, <2>1 DEF GoodAdd
<1>5. s.table[p] \in Entry /\ p \in VPages
  BY <1>2, <1>3, TableFacts
<1>6. new \in Entry /\ new.ppage = p /\ new.disk = FALSE
  BY <1>5 DEF Entry
<1>7. d \in DiskPages
  BY <1>5 DEF Entry
<1>8. /\ diskfree' = DiskList!ReturnBlock(s.diskfree, d, 1).blocks
      /\ entries' = [ents EXCEPT ![p] = [s.table EXCEPT ![p] = new]]
      /\ mapped' = [mapped EXCEPT ![p] = @ \cup {page}]
      /\ used' = [used EXCEPT ![p] = TRUE]
      /\ lru' = AddLru(lru, p)
      /\ status' = "ok"
      /\ UNCHANGED <<procs, cur, freepids, tlb>>
  <2>1. entries' = [ents EXCEPT ![p] = [ents[p] EXCEPT ![p] =
                       [ents[p][p] EXCEPT !.ppage = p, !.disk = FALSE]]]
    BY <1>3 DEF MapVPageToPPage
  <2>2. entries' = [ents EXCEPT ![p] = [s.table EXCEPT ![p] = new]]
    <3>. HIDE DEF ents
    <3>. QED  BY <1>2, <2>1
  <2>3. diskfree' = DiskList!ReturnBlock(s.diskfree, d, 1).blocks
    <3>1. diskfree' = DiskList!ReturnBlock(s.diskfree, ents[p][p].diskpage, 1).blocks
      BY <1>3 DEF MapVPageToPPage
    <3>. HIDE DEF ents
    <3>. QED  BY <1>2, <3>1
  <2>. QED  BY <1>3, <2>2, <2>3 DEF MapVPageToPPage, Pushed
<1>. HIDE DEF ents, d, page, new
<1>9. /\ DiskList!GoodList(diskfree')
      /\ DiskList!FreeSet(diskfree') = DiskList!FreeSet(diskfree)
  <2>1. d \in DiskList!Span(0, NDiskPages) /\ d \notin DiskList!FreeSet(s.diskfree)
    BY <1>4, <1>7, ListSpans
  <2>2. /\ DiskList!GoodList(diskfree')
        /\ DiskList!FreeSet(diskfree') = DiskList!FreeSet(s.diskfree) \cup {d}
    BY <1>2, <1>8, <2>1, ListRanges, DiskList!ReturnOne
  <2>. QED  BY <1>4, <2>2
<1>10. /\ entries' \in [Pids -> PageTable]
       /\ \A q \in Pids \ {p} : entries'[q] = entries[q]
       /\ DOMAIN entries'[p] = DOMAIN entries[p] \cup {p} /\ entries'[p][p] = new
       /\ \A w \in DOMAIN entries[p] : entries'[p][w] = entries[p][w]
       /\ p \notin DOMAIN entries[p]
  <2>. DEFINE table == [s.table EXCEPT ![p] = new]
  <2>1. /\ table \in PageTable /\ DOMAIN table = DOMAIN s.table /\ table[p] = new
        /\ \A w \in DOMAIN s.table : w # p => table[w] = s.table[w]
    BY <1>2, <1>3, <1>6 DEF PageTable
  <2>. HIDE DEF table
  <2>2. /\ entries' \in [Pids -> PageTable] /\ entries'[p] = table
        /\ \A q \in Pids \ {p} : entries'[q] = entries[q]
    BY <1>1, <1>2, <1>8, <2>1 DEF table
  <2>3. p \notin DOMAIN entries[p]
    BY <1>3
  <2>. QED  BY <1>4, <2>1, <2>2, <2>3
<1>11. page \in Pids \X VPages /\ page[1] = p /\ page[2] = p /\ page = <<p, PageForPid>>
  BY <1>1, <1>3, <1>5 DEF page
<1>12. page \notin AllPages
  BY <1>10, <1>11 DEF AllPages
<1>13. AllPages' = AllPages \cup {page}
  <2>1. ASSUME NEW r \in Pids \X VPages
        PROVE  r \in AllPages' <=> r \in AllPages \cup {page}
    <3>1. r[1] \in Pids /\ r = <<r[1], r[2]>>
      OBVIOUS
    <3>2. CASE r[1] = p
      <4>1. r = page <=> r[2] = p
        BY <3>1, <3>2 DEF page
      <4>. QED  BY <1>10, <3>1, <3>2, <4>1 DEF AllPages
    <3>3. CASE r[1] # p
      BY <1>10, <1>11, <3>1, <3>3 DEF AllPages
    <3>. QED  BY <3>2, <3>3
  <2>2. AllPages' \subseteq Pids \X VPages /\ AllPages \cup {page} \subseteq Pids \X VPages
    BY <1>11 DEF AllPages
  <2>. QED  BY <2>1, <2>2
<1>14. /\ EntryOf(page)' = new
       /\ \A r \in AllPages : r # page /\ EntryOf(r)' = EntryOf(r)
  <2>1. ASSUME NEW r \in AllPages
        PROVE  EntryOf(r)' = EntryOf(r)
    <3>1. r[1] \in Pids /\ r[2] \in DOMAIN entries[r[1]]
      BY <1>1, PageFacts
    <3>. QED  BY <1>10, <3>1 DEF EntryOf
  <2>. QED  BY <1>10, <1>11, <1>12, <2>1 DEF EntryOf
<1>15. Resident' = Resident \cup {page} /\ OnDisk' = OnDisk
  BY <1>6, <1>12, <1>13, <1>14 DEF Resident, OnDisk
<1>16. /\ \A r \in Resident : r # page /\ EntryOf(r)' = EntryOf(r)
       /\ p \notin misplaced => \A r \in Resident : EntryOf(r).ppage # p
       /\ \A r \in OnDisk : EntryOf(r)' = EntryOf(r)
       /\ EntryOf(page)'.ppage = p
  BY <1>6, <1>14, LiveFacts DEF Resident, OnDisk
<1>17. \A g \in Frames : used'[g] <=> used[g] \/ g = p
  BY <1>1, <1>8 DEF TypeOK
<1>18. AddLru(lru, p) \in Seq(Frames) /\ IsInjective(AddLru(lru, p))
       /\ Range(AddLru(lru, p)) = Range(lru) \cup {p}
  BY <1>1, AddLruFacts, LiveFacts DEF TypeOK
<1>19. TypeOK'
  <2>1. freelist' \in Seq(FrameList!FreeBlock) /\ diskfree' \in Seq(DiskList!FreeBlock)
    BY <1>9, FreeFrames, FreeDiskPages
  <2>2. used' \in [Frames -> BOOLEAN]
    BY <1>1, <1>8 DEF TypeOK
  <2>3. mapped' \in [Frames -> SUBSET ((Pids \X VPages) \cup {Freed})]
    BY <1>1, <1>8, <1>11 DEF TypeOK
  <2>. QED  BY <1>1, <1>8, <1>10, <1>18, <2>1, <2>2, <2>3 DEF TypeOK
<1>20. ListsSound' /\ TablesOfProcs'
  <2>1. \A q \in Pids \ procs : entries'[q] = entries[q]
    BY <1>1, <1>10
  <2>. QED  BY <1>8, <1>9, <2>1 DEF IInv, ListsSound, TablesOfProcs
<1>26. /\ misplaced \subseteq misplaced' /\ misplaced' \subseteq misplaced \cup {p}
       /\ p \in FrameList!FreeSet(freelist') => p \in misplaced'
       /\ misplaced' = {} => FrameList!FreeSet(freelist') = FrameList!FreeSet(freelist) \ {p}
  BY DEF RemovesExactly, Taken
<1>21. FramesKept'
  <2>1. \A r, t \in Resident' :
           EntryOf(r)'.ppage = EntryOf(t)'.ppage => r = t \/ EntryOf(r)'.ppage \in misplaced'
    BY <1>15, <1>16, <1>26, LiveFacts
  <2>2. ASSUME NEW g \in Frames \ misplaced'
        PROVE  used'[g] <=> \E r \in Resident' : EntryOf(r)'.ppage = g
    <3>1. used[g] <=> \E r \in Resident : EntryOf(r).ppage = g
      BY <1>26, LiveFacts
    <3>. QED  BY <1>15, <1>16, <1>17, <3>1
  <2>3. \A g \in FrameList!FreeSet(freelist') : used'[g] => g \in misplaced'
    <3>1. FrameList!FreeSet(freelist) \subseteq Frames
      BY FreeFrames DEF IInv, ListsSound
    <3>. QED  BY <1>17, <1>26, <3>1, LiveFacts
  <2>4. misplaced' = {} => FrameList!FreeSet(freelist') = {g \in Frames : ~used'[g]}
    BY <1>17, <1>26, LiveFacts
  <2>. QED  BY <2>1, <2>2, <2>3, <2>4 DEF FramesKept
<1>22. NumbersAccounted'
  <2>1. \A r, t \in OnDisk' : EntryOf(r)'.diskpage = EntryOf(t)'.diskpage => r = t
    BY <1>15, <1>16, LiveFacts
  <2>2. {EntryOf(r)'.diskpage : r \in OnDisk'} = {EntryOf(r).diskpage : r \in OnDisk}
    BY <1>15, <1>16
  <2>. QED  BY <1>8, <1>9, <2>1, <2>2, LiveFacts DEF NumbersAccounted
<1>23. MappedExact'
  <2>. SUFFICES ASSUME NEW g \in Frames
                PROVE  mapped'[g] \ {Freed} = {r \in Resident' : EntryOf(r)'.ppage = g}
    BY DEF MappedExact
  <2>1. mapped'[g] = IF g = p THEN mapped[g] \cup {page} ELSE mapped[g]
    BY <1>1, <1>8 DEF TypeOK
  <2>2. mapped[g] \ {Freed} = {r \in Resident : EntryOf(r).ppage = g}
    BY LiveFacts
  <2>3. page # Freed
    BY <1>11, PairNotFreed
  <2>. QED  BY <1>15, <1>16, <2>1, <2>2, <2>3
<1>24. LruComplete' /\ MisplacedListed'
  BY <1>8, <1>17, <1>18, <1>26, LiveFacts DEF LruComplete, MisplacedListed
<1>25. IInv'
  BY <1>19, <1>20, <1>21, <1>22, <1>23, <1>24 DEF IInv
<1>. QED  BY <1>3, <1>11, <1>12, <1>13, <1>14, <1>15, <1>16, <1>25

\* The loop of add_vpage before its first round.
LEMMA AddingFacts ==
    ASSUME IInv, NEW pid \in Pids
    PROVE  /\ GoodAdd(pid, Adding(pid)) /\ Adding(pid).status = "ok"
           /\ NewPages(pid, Adding(pid)) = {} /\ Adding(pid).table = entries[pid]
<1>. DEFINE base == Adding(pid)
<1>1. entries[pid] \in PageTable /\ DiskList!GoodList(diskfree)
  BY DEF IInv, TypeOK, ListsSound
<1>2. /\ base \in AddState /\ base.table = entries[pid] /\ base.diskfree = diskfree
      /\ base.status = "ok"
  BY <1>1, FreeDiskPages DEF Adding, AddState
<1>. HIDE DEF base
<1>3. NewPages(pid, base) = {}
  BY <1>2 DEF NewPages
<1>4. GoodAdd(pid, base)
  BY <1>1, <1>2, <1>3 DEF GoodAdd
<1>. QED  BY <1>2, <1>3, <1>4 DEF base

\* Whatever comes of map_ppage, the tables are sound, and so are the lists but for the frame
\* it may misplace.  It adds a page to the process whose id is the frame's number; the program
\* goes on only if that is the page it is looking for.
LEMMA MapPPageFacts ==
    ASSUME IInv, Alive, NEW pid \in Pids, NEW p \in Frames, MapPPage(pid, p),
           PageForPid \in VPages, 2 * NFrames <= WordMod
    PROVE  LET page == <<p, PageForPid>>
           IN  /\ IInv' /\ UNCHANGED <<procs, cur>> /\ p \in procs
               /\ page \in Pids \X VPages /\ page \notin AllPages
               /\ ~Alive' => UNCHANGED misplaced
               /\ \/ ~Alive' /\ UNCHANGED <<entries, tlb>>
                  \/ /\ AllPages' = AllPages \cup {page}
                     /\ \/ /\ ~Alive' /\ EntryOf(page)'.disk
                           /\ \E r \in Resident :
                                /\ Resident' = Resident \ {r}
                                /\ \A x \in AllPages \ {r} : EntryOf(x)' = EntryOf(x)
                        \/ /\ ~Alive'
                           /\ Resident' = Resident /\ UNCHANGED tlb
                           /\ \A x \in AllPages : EntryOf(x)' = EntryOf(x)
                        \/ /\ Alive' /\ p = PageForPid
                           /\ Resident' = Resident \cup {page}
                           /\ EntryOf(page)'.ppage = p
                           /\ \A x \in AllPages : EntryOf(x)' = EntryOf(x)
                           /\ tlb' = tlb /\ misplaced' \in {misplaced, misplaced \cup {p}}
                           /\ p \notin misplaced => \A x \in Resident : EntryOf(x).ppage # p
<1>. DEFINE s == AddPage(Adding(p), PageForPid)
            ents == [entries EXCEPT ![p] = s.table]
            page == <<p, PageForPid>>
<1>1. TypeOK
  BY DEF IInv
<1>2. /\ pid \in procs /\ p \notin DOMAIN entries[pid]
      /\ p \in procs /\ PageForPid \notin DOMAIN entries[p]
  BY DEF MapPPage, AddsForPid
<1>3. p \in Pids
  BY <1>1, <1>2 DEF TypeOK
<1>4. page \in Pids \X VPages /\ page[1] = p /\ page[2] = PageForPid /\ page \notin AllPages
  BY <1>2, <1>3 DEF AllPages
<1>5. GoodAdd(p, s)
  BY <1>2, <1>3, AddingFacts, AddPageFacts
<1>6. s.status # "ok" => s.table = entries[p] /\ s.status = "no_disk_page"
  <2>. DEFINE base == Adding(p)
  <2>1. base \in AddState /\ base.status = "ok" /\ base.table = entries[p]
    BY <1>3, AddingFacts DEF GoodAdd
  <2>. HIDE DEF base
  <2>2. s = AddPage(base, PageForPid)
    BY DEF base
  <2>. HIDE DEF s
  <2>. QED  BY <2>1, <2>2 DEF AddPage, AddState
<1>7. s.status = "ok" => NewPages(p, s) = {PageForPid}
  <2>. DEFINE base == Adding(p)
  <2>1. base.status = "ok" /\ base.table = entries[p]
    BY <1>3, AddingFacts
  <2>. HIDE DEF base
  <2>2. s = AddPage(base, PageForPid)
    BY DEF base
  <2>3. s.status = "ok" => DOMAIN s.table = DOMAIN entries[p] \cup {PageForPid}
    <3>1. CASE ~DiskList!CanFit(base.diskfree, 1)
      <4>1. s = [base EXCEPT !.status = "no_disk_page"] /\ base \in AddState
        BY <1>3, <2>1, <2>2, <3>1, AddingFacts DEF AddPage, GoodAdd, base
      <4>. HIDE DEF s
      <4>. QED  BY <4>1 DEF AddState
    <3>2. CASE DiskList!CanFit(base.diskfree, 1)
      BY <2>1, <2>2, <3>2 DEF AddPage
    <3>. QED  BY <3>1, <3>2
  <2>. HIDE DEF s
  <2>. QED  BY <1>2, <2>3 DEF NewPages
<1>8. \/ /\ s.status # "ok" /\ entries' = ents /\ diskfree' = s.diskfree /\ status' = s.status
         /\ UNCHANGED <<procs, cur, freepids, used, mapped, lru, tlb, misplaced, freelist>>
      \/ /\ s.status = "ok" /\ used[p] /\ EvictPPage(p, ents, s.diskfree) /\ UNCHANGED lru
      \/ s.status = "ok" /\ EvictMisplaced(p)
      \/ /\ s.status = "ok" /\ freelist' = freelist
         /\ entries' = ents /\ diskfree' = s.diskfree /\ status' = "free_list"
         /\ UNCHANGED <<procs, cur, freepids, used, mapped, lru, tlb, misplaced>>
      \/ /\ s.status = "ok" /\ ~used[p] /\ freelist' = Taken(p)
         /\ FrameList!RemoveBlock(freelist, p, 1).status = "ok"
         /\ p \in DOMAIN ents[pid] /\ MapVPageToPPage(pid, p, p, ents, s.diskfree)
         /\ misplaced' = IF RemovesExactly(p) THEN misplaced ELSE misplaced \cup {p}
      \/ /\ s.status = "ok" /\ freelist' = Taken(p)
         /\ FrameList!RemoveBlock(freelist, p, 1).status = "ok"
         /\ entries' = ents /\ diskfree' = s.diskfree /\ status' = "out_of_range"
         /\ UNCHANGED <<procs, cur, freepids, used, mapped, lru, tlb, misplaced>>
  BY DEF MapPPage
<1>. HIDE DEF s
<1>9. /\ ents \in [Pids -> PageTable] /\ ents[p] = s.table
      /\ \A q \in Pids \ {p} : ents[q] = entries[q]
      /\ \A q \in Pids : DOMAIN entries[q] \subseteq DOMAIN ents[q]
      /\ \A r \in AllPages : ents[r[1]][r[2]] = EntryOf(r)
      /\ DiskList!GoodList(s.diskfree)
  BY <1>1, <1>2, <1>5, GrownTables DEF GoodAdd
<1>10. s.status = "ok" =>
          /\ {r \in Pids \X VPages : r[2] \in DOMAIN ents[r[1]]} = AllPages \cup {page}
          /\ ents[p][PageForPid].disk
  <2>. SUFFICES ASSUME s.status = "ok"
                PROVE  /\ {r \in Pids \X VPages : r[2] \in DOMAIN ents[r[1]]} = AllPages \cup {page}
                       /\ ents[p][PageForPid].disk
    OBVIOUS
  <2>. DEFINE Fresh == {<<p, v>> : v \in NewPages(p, s)}
  <2>1. Fresh = {page} /\ PageForPid \in NewPages(p, s)
    BY <1>7
  <2>2. {r \in Pids \X VPages : r[2] \in DOMAIN ents[r[1]]} = AllPages \cup Fresh
    BY <1>1, <1>2, <1>5, GrownTables
  <2>3. s.table[PageForPid].disk
    BY <1>5, <2>1 DEF GoodAdd
  <2>. HIDE DEF ents
  <2>. QED  BY <1>9, <2>1, <2>2, <2>3
<1>11. \A q \in Pids \ procs : ents[q] = EmptyTable
  BY <1>2, <1>9 DEF IInv, TablesOfProcs
<1>. HIDE DEF ents
<1>12. ASSUME s.status # "ok", entries' = ents, diskfree' = s.diskfree, status' = s.status,
              UNCHANGED <<procs, cur, freepids, used, mapped, lru, tlb, misplaced, freelist>>
       PROVE  IInv' /\ UNCHANGED <<procs, cur, misplaced>> /\ ~Alive' /\ UNCHANGED <<entries, tlb>>
  <2>1. Added(p, s)
    BY <1>12 DEF Added, frames, ents
  <2>2. IInv'
    BY <1>2, <1>5, <2>1, AddedIInv
  <2>3. entries' = entries
    <3>1. entries[p] = s.table /\ entries \in [Pids -> PageTable]
      BY <1>1, <1>6, <1>12 DEF TypeOK
    <3>. QED  BY <1>9, <1>12, <3>1
  <2>4. ~Alive'
    BY <1>6, <1>12 DEF Alive
  <2>. QED  BY <1>12, <2>2, <2>3, <2>4
<1>13. ASSUME s.status = "ok", used[p], EvictPPage(p, ents, s.diskfree), UNCHANGED lru
       PROVE  /\ IInv' /\ UNCHANGED <<procs, cur, misplaced>> /\ ~Alive' /\ EntryOf(page)'.disk
              /\ AllPages' = AllPages \cup {page}
              /\ \E r \in Resident :
                    /\ Resident' = Resident \ {r}
                    /\ \A x \in AllPages \ {r} : EntryOf(x)' = EntryOf(x)
  <2>1. lru' \in Seq(Frames)
    BY <1>1, <1>13 DEF TypeOK
  <2>2. IInv' /\ ~Alive' /\ UNCHANGED <<procs, cur, misplaced>>
    <3>1. UNCHANGED misplaced
      BY <1>13 DEF EvictPPage
    <3>. QED  BY <1>9, <1>11, <1>13, <2>1, <3>1, EvictPPageFacts
  <2>3. PICK r \in Resident, new \in Entry :
           /\ EntryOf(r).ppage = p /\ new.disk /\ entries'[r[1]][r[2]] = new
           /\ \A q \in Pids : DOMAIN entries'[q] = DOMAIN ents[q]
           /\ \A q \in Pids : \A v \in DOMAIN ents[q] :
                 q # r[1] \/ v # r[2] => entries'[q][v] = ents[q][v]
    BY <1>9, <1>11, <1>13, <2>1, EvictPPageFacts
  <2>4. /\ r \in AllPages /\ r = <<r[1], r[2]>> /\ r[1] \in Pids /\ r[2] \in DOMAIN ents[r[1]]
    <3>1. r \in AllPages
      BY DEF Resident
    <3>. QED  BY <1>1, <1>9, <3>1, PageFacts
  <2>6. AllPages' = AllPages \cup {page}
    <3>1. AllPages' = {x \in Pids \X VPages : x[2] \in DOMAIN ents[x[1]]}
      BY <2>3 DEF AllPages
    <3>. QED  BY <1>10, <1>13, <3>1
  <2>7. EntryOf(r)' = new /\ \A x \in AllPages \ {r} : EntryOf(x)' = EntryOf(x)
    <3>1. ASSUME NEW x \in AllPages \ {r}
          PROVE  EntryOf(x)' = EntryOf(x)
      <4>1. x = <<x[1], x[2]>> /\ x[1] \in Pids /\ x[2] \in DOMAIN ents[x[1]]
        BY <1>1, <1>9, PageFacts
      <4>2. x[1] # r[1] \/ x[2] # r[2]
        BY <2>4, <4>1
      <4>3. entries'[x[1]][x[2]] = ents[x[1]][x[2]]
        BY <2>3, <4>1, <4>2
      <4>. QED  BY <1>9, <4>3 DEF EntryOf
    <3>. QED  BY <2>3, <3>1 DEF EntryOf
  <2>8. EntryOf(page)'.disk
    <3>1. page # r
      BY <1>4, <2>4
    <3>2. page[1] # r[1] \/ page[2] # r[2]
      BY <1>4, <2>4, <3>1
    <3>3. page[2] \in DOMAIN ents[page[1]]
      BY <1>4, <1>10, <1>13
    <3>4. entries'[page[1]][page[2]] = ents[page[1]][page[2]]
      BY <1>4, <2>3, <3>2, <3>3
    <3>. QED  BY <1>4, <1>10, <1>13, <3>4 DEF EntryOf
  <2>9. Resident' = Resident \ {r}
    <3>. HIDE DEF page
    <3>1. \A x \in AllPages' : x \in AllPages \/ x = page
      BY <2>6
    <3>. QED  BY <1>4, <2>3, <2>4, <2>6, <2>7, <2>8, <3>1 DEF Resident
  <2>. QED  BY <2>2, <2>6, <2>7, <2>8, <2>9
<1>14. ASSUME FrameList!RemoveBlock(freelist, p, 1).status = "ok"
       PROVE  /\ FrameList!GoodList(Taken(p))
              /\ p = PageForPid =>
                   FrameList!FreeSet(Taken(p)) \subseteq FrameList!FreeSet(freelist)
  <2>1. FrameList!GoodList(freelist) /\ 2 * (0 + NFrames) <= WordMod
    BY VMAssumption DEF IInv, ListsSound
  <2>2. p \in FrameList!Span(0, NFrames) /\ (p = PageForPid => p <= 0 + 1)
    BY ListSpans DEF PageForPid
  <2>. QED  BY <1>14, <2>1, <2>2, ListRanges, FrameList!RemoveFacts DEF Taken
<1>15. ASSUME s.status = "ok", ~used[p], freelist' = Taken(p), p \in DOMAIN ents[pid],
              FrameList!RemoveBlock(freelist, p, 1).status = "ok",
              MapVPageToPPage(pid, p, p, ents, s.diskfree),
              misplaced' = IF RemovesExactly(p) THEN misplaced ELSE misplaced \cup {p}
       PROVE  /\ misplaced' \in {misplaced, misplaced \cup {p}}
              /\ p \notin misplaced => \A x \in Resident : EntryOf(x).ppage # p
              /\ IInv' /\ UNCHANGED <<procs, cur, tlb>> /\ Alive' /\ p = PageForPid
              /\ AllPages' = AllPages \cup {page}
              /\ Resident' = Resident \cup {page}
              /\ EntryOf(page)'.ppage = p
              /\ \A x \in AllPages : EntryOf(x)' = EntryOf(x)
  <2>1. UNCHANGED <<procs, cur, tlb>> /\ Alive'
    BY <1>15 DEF MapVPageToPPage, Alive
  <2>2. /\ p \in DOMAIN [entries EXCEPT ![p] = s.table][pid]
        /\ MapVPageToPPage(pid, p, p, [entries EXCEPT ![p] = s.table], s.diskfree)
    BY <1>15 DEF ents
  <2>4. p = PageForPid
    <3>1. pid = p
      BY <1>2, <1>3, <1>9, <1>15 DEF TypeOK
    <3>2. p \in NewPages(p, s)
      BY <1>2, <1>9, <1>15, <3>1 DEF NewPages
    <3>. QED  BY <1>7, <1>15, <3>2
  <2>. HIDE DEF page
  <2>3. LET q == <<p, PageForPid>>
        IN  /\ IInv' /\ p = PageForPid
            /\ p \notin misplaced => \A x \in Resident : EntryOf(x).ppage # p
            /\ AllPages' = AllPages \cup {q} /\ q \notin AllPages
            /\ Resident' = Resident \cup {q}
            /\ EntryOf(q)'.ppage = p
            /\ \A r \in AllPages : EntryOf(r)' = EntryOf(r)
    BY <1>2, <1>5, <1>7, <1>14, <1>15, <2>2, <2>4, MappedIInv
  <2>. QED  BY <1>15, <2>1, <2>3 DEF page
<1>16. ASSUME s.status = "ok", freelist' \in {freelist, Taken(p)}, entries' = ents,
              freelist' = Taken(p) => FrameList!RemoveBlock(freelist, p, 1).status = "ok" \/ freelist' = freelist,
              diskfree' = s.diskfree, status' \in {"out_of_range", "free_list"},
              UNCHANGED <<procs, cur, freepids, used, mapped, lru, tlb, misplaced>>
       PROVE  /\ IInv' /\ UNCHANGED <<procs, cur, misplaced, tlb>> /\ ~Alive'
              /\ AllPages' = AllPages \cup {page}
              /\ Resident' = Resident
              /\ \A x \in AllPages : EntryOf(x)' = EntryOf(x)
  <2>1. ~Alive'
    BY <1>16 DEF Alive
  <2>9. FrameList!GoodList(freelist')
    BY <1>14, <1>16 DEF IInv, ListsSound
  <2>2. TypeOK'
    <3>1. freelist' \in Seq(FrameList!FreeBlock) /\ diskfree' \in Seq(DiskList!FreeBlock)
      BY <1>9, <1>16, <2>9, FreeFrames, FreeDiskPages
    <3>. QED  BY <1>1, <1>9, <1>16, <3>1 DEF TypeOK
  <2>3. ListsSound' /\ TablesOfProcs'
    BY <1>9, <1>11, <1>16, <2>9 DEF IInv, ListsSound, TablesOfProcs
  <2>4. IInv'
    BY <2>1, <2>2, <2>3, DeadIInv
  <2>5. AllPages' = AllPages \cup {page}
    BY <1>10, <1>16 DEF AllPages
  <2>6. \A x \in AllPages : EntryOf(x)' = EntryOf(x)
    <3>1. \A x : EntryOf(x)' = ents[x[1]][x[2]]
      BY <1>16 DEF EntryOf
    <3>. QED  BY <1>9, <3>1
  <2>7. EntryOf(page)'.disk
    BY <1>4, <1>10, <1>16 DEF EntryOf
  <2>8. Resident' = Resident
    <3>. HIDE DEF page
    <3>. QED  BY <2>5, <2>6, <2>7 DEF Resident
  <2>. QED  BY <1>16, <2>1, <2>4, <2>5, <2>6, <2>8
<1>17. ASSUME EvictMisplaced(p)
       PROVE  IInv' /\ UNCHANGED <<procs, cur, misplaced>> /\ ~Alive' /\ UNCHANGED <<entries, tlb>>
  BY <1>17, EvictMisplacedIInv DEF EvictMisplaced, tables, frames
<1>. HIDE DEF page
<1>. QED  BY <1>2, <1>4, <1>8, <1>12, <1>13, <1>15, <1>16, <1>17 DEF page

-----------------------------------------------------------------------------
(* Translation. *)

\* A translation the TLB has and the page table of its process does not give was like that
\* before, if no page that stays lost its frame.
LEMMA ForeignKept ==
    ASSUME UNCHANGED tlb, procs' \subseteq procs,
           \A r \in Resident : r[1] \in procs' => r \in Resident' /\ EntryOf(r)' = EntryOf(r)
    PROVE  Foreign' \subseteq Foreign
<1>. SUFFICES ASSUME NEW i \in DOMAIN tlb, Stale(tlb[i])'
              PROVE  Stale(tlb[i])
  BY DEF Foreign
<1>1. PICK t, r : t = tlb[i] /\ r = <<t.pid, t.vpage>>
  OBVIOUS
<1>2. /\ t.valid /\ t.pid \in procs' /\ r[1] = t.pid
      /\ r \in Resident' => EntryOf(r)'.ppage # t.ppage
  BY <1>1 DEF Stale, EntryOf
<1>3. r \in Resident => EntryOf(r).ppage # t.ppage
  BY <1>2
<1>. QED  BY <1>1, <1>2, <1>3 DEF Stale

LEMMA ForeignSame ==
    ASSUME UNCHANGED <<tlb, procs, entries>>
    PROVE  Foreign' = Foreign
BY DEF Foreign, Stale, Resident, AllPages, EntryOf

LEMMA SlotFacts ==
    ASSUME TypeOK, NEW v \in Nat
    PROVE  TlbSlot(v) \in DOMAIN tlb /\ tlb[TlbSlot(v)] \in TlbEntry
BY VMAssumption DEF TypeOK, TlbSlot

\* What the TLB holds is in the page table too, or is another's.
LEMMA HitFacts ==
    ASSUME IInv, Alive, NEW pid \in Pids, NEW v \in Nat, AccessHit(pid, v)
    PROVE  /\ IInv' /\ Alive' /\ UNCHANGED <<procs, cur, entries, misplaced>>
           /\ Foreign' \subseteq Foreign
           /\ FrameOf(pid, v) \in Frames
           /\ \/ <<pid, v>> \in Foreign
              \/ <<pid, v>> \in Resident /\ EntryOf(<<pid, v>>).ppage = FrameOf(pid, v)
<1>. DEFINE i == TlbSlot(v)
            t == tlb[i]
<1>1. /\ UNCHANGED <<procs, cur, entries, tlb, misplaced>> /\ status' = "ok" /\ pid \in procs
      /\ t.valid /\ t.pid = pid /\ t.vpage = v /\ FrameOf(pid, v) = t.ppage
  BY DEF AccessHit, TlbHit, tables, frames, FrameOf
<1>2. i \in DOMAIN tlb /\ t \in TlbEntry
  BY SlotFacts DEF IInv
<1>3. t.ppage \in Frames
  BY <1>2 DEF TlbEntry
<1>4. CASE Stale(t)
  <2>1. <<t.pid, t.vpage>> \in Foreign
    <3>. HIDE DEF i
    <3>. QED  BY <1>2, <1>4 DEF Foreign
  <2>. QED  BY <1>1, <1>3, <2>1, AccessHitIInv, ForeignSame DEF Alive
<1>5. CASE ~Stale(t)
  <2>1. <<t.pid, t.vpage>> \in Resident /\ EntryOf(<<t.pid, t.vpage>>).ppage = t.ppage
    BY <1>1, <1>5 DEF Stale
  <2>. QED  BY <1>1, <1>3, <2>1, AccessHitIInv, ForeignSame DEF Alive
<1>. QED  BY <1>4, <1>5

LEMMA ResidentFacts ==
    ASSUME IInv, Alive, NEW pid \in Pids, NEW v \in Nat, AccessResident(pid, v)
    PROVE  /\ IInv' /\ Alive' /\ UNCHANGED <<procs, cur, entries, misplaced>>
           /\ Foreign' \subseteq Foreign
           /\ <<pid, v>> \in Resident /\ FrameOf(pid, v) \in Frames
           /\ EntryOf(<<pid, v>>).ppage = FrameOf(pid, v)
<1>. DEFINE page == <<pid, v>>
            new == [valid |-> TRUE, pid |-> pid, vpage |-> v, ppage |-> entries[pid][v].ppage]
<1>1. /\ UNCHANGED <<procs, cur, entries, misplaced>> /\ status' = "ok" /\ pid \in procs
      /\ v \in DOMAIN entries[pid] /\ ~entries[pid][v].disk /\ ~TlbHit(pid, v)
      /\ tlb' = [tlb EXCEPT ![TlbSlot(v)] = new]
  BY DEF AccessResident, tables, frames
<1>2. TypeOK
  BY DEF IInv
<1>3. /\ page \in AllPages /\ EntryOf(page) = entries[pid][v] /\ EntryOf(page) \in Entry
      /\ v \in VPages
  <2>1. page \in AllPages /\ EntryOf(page) = entries[pid][v]
    BY <1>1, <1>2, PageFacts
  <2>2. page[2] \in VPages
    BY <1>2, <2>1, PageFacts
  <2>. QED  BY <1>2, <2>1, <2>2, PageFacts
<1>4. page \in Resident /\ EntryOf(page).ppage \in Frames
  BY <1>1, <1>3 DEF Resident, Entry
<1>5. /\ new.valid = TRUE /\ new.pid = pid /\ new.vpage = v
      /\ new.ppage = EntryOf(page).ppage
  BY <1>3
<1>6. FrameOf(pid, v) = EntryOf(page).ppage
  BY <1>1, <1>3 DEF FrameOf
<1>7. Resident' = Resident /\ \A r : EntryOf(r)' = EntryOf(r)
  BY <1>1 DEF Resident, AllPages, EntryOf
<1>. HIDE DEF new
<1>8. Foreign' \subseteq Foreign
  <2>. SUFFICES ASSUME NEW i \in DOMAIN tlb', Stale(tlb[i])'
                PROVE  <<tlb'[i].pid, tlb'[i].vpage>> \in Foreign
    BY DEF Foreign
  <2>1. i \in DOMAIN tlb /\ TlbSlot(v) \in DOMAIN tlb
    BY <1>1, <1>2, SlotFacts
  <2>2. /\ tlb'[i].valid /\ tlb'[i].pid \in procs
        /\ LET r == <<tlb'[i].pid, tlb'[i].vpage>>
           IN  r \in Resident => EntryOf(r).ppage # tlb'[i].ppage
    BY <1>1, <1>7 DEF Stale, EntryOf
  <2>3. i # TlbSlot(v)
    <3>. SUFFICES ASSUME i = TlbSlot(v)
                  PROVE  FALSE
      OBVIOUS
    <3>1. tlb'[i] = new
      BY <1>1, <2>1
    <3>. QED  BY <1>4, <1>5, <2>2, <3>1 DEF page
  <2>4. tlb'[i] = tlb[i]
    BY <1>1, <2>1, <2>3
  <2>. QED  BY <2>1, <2>2, <2>4 DEF Foreign, Stale
<1>9. IInv'
  BY <1>3, AccessResidentIInv
<1>. QED  BY <1>1, <1>4, <1>6, <1>8, <1>9 DEF page, Alive

\* Only frame numbers below the one taken are in use if the list is sorted.
LEMMA FaultFacts ==
    ASSUME IInv, Alive, NEW pid \in Pids, NEW v \in Nat, PageIn(pid, v)
    PROVE  LET page == <<pid, v>>
               f == FrameOf(pid, v)
           IN  /\ IInv' /\ Alive' /\ UNCHANGED <<procs, cur, misplaced>>
               /\ Foreign' \subseteq Foreign
               /\ AllPages' = AllPages
               /\ page \in AllPages /\ EntryOf(page).disk
               /\ Resident' = Resident \cup {page}
               /\ \A r \in AllPages \ {page} : EntryOf(r)' = EntryOf(r)
               /\ EntryOf(page)'.ppage = f /\ f \in Frames
               /\ f \notin misplaced => \A r \in Resident : EntryOf(r).ppage # f
               /\ misplaced = {} => \A g \in Frames : g < f => used[g]
<1>. DEFINE page == <<pid, v>>
            f == FrameList!TakenAddr(freelist, 1)
<1>1. /\ pid \in procs /\ ~TlbHit(pid, v) /\ v \in DOMAIN entries[pid] /\ entries[pid][v].disk
      /\ FrameList!CanFit(freelist, 1) /\ status' = "ok"
      /\ UNCHANGED <<procs, cur, tlb, misplaced>>
  BY DEF PageIn, Fault, MapVPageToPPage
<1>2. TypeOK /\ FrameList!GoodList(freelist)
  BY DEF IInv, ListsSound
<1>3. page \in AllPages /\ EntryOf(page).disk /\ v \in VPages
  <2>1. page \in AllPages /\ EntryOf(page).disk
    BY <1>1, <1>2, PageFacts
  <2>2. page[2] \in VPages
    BY <1>2, <2>1, PageFacts
  <2>. QED  BY <2>1, <2>2
<1>4. FrameOf(pid, v) = f
  BY <1>1 DEF FrameOf
<1>5. \A x \in FrameList!FreeSet(freelist) : f <= x
  BY <1>1, <1>2, ListRanges, FrameList!TakesLowest
<1>. HIDE DEF f
<1>6. /\ IInv' /\ f \in Frames /\ f \in FrameList!FreeSet(freelist) /\ AllPages' = AllPages
      /\ \A p \in Pids : DOMAIN entries'[p] = DOMAIN entries[p]
      /\ Resident' = Resident \cup {page} /\ EntryOf(page)'.ppage = f
      /\ \A r \in Resident : r # page /\ EntryOf(r)' = EntryOf(r)
      /\ \A r \in AllPages \ {page} : EntryOf(r)' = EntryOf(r)
  BY <1>3, PageInIInv DEF f
<1>7. /\ f \notin misplaced => \A r \in Resident : EntryOf(r).ppage # f
      /\ misplaced = {} => \A g \in Frames : g < f => used[g]
  <2>1. f \notin misplaced => \A r \in Resident : EntryOf(r).ppage # f
    BY <1>6, FreeFacts
  <2>2. ASSUME misplaced = {}, NEW g \in Frames, g < f
        PROVE  used[g]
    <3>1. g \in Int /\ f \in Int
      BY <1>6 DEF Frames
    <3>2. g \notin FrameList!FreeSet(freelist)
      BY <1>5, <2>2, <3>1
    <3>. QED  BY <2>2, <3>2, LiveFacts
  <2>. QED  BY <2>1, <2>2
<1>8. Foreign' \subseteq Foreign
  BY <1>1, <1>6, ForeignKept
<1>. QED  BY <1>1, <1>3, <1>4, <1>6, <1>7, <1>8 DEF page, Alive

\* A fault without a free frame ends the program.
LEMMA EvictEnds ==
    ASSUME IInv, Alive, NEW pid \in Pids, NEW v, Evict(pid, v) \/ EvictThrows(pid, v)
    PROVE  IInv' /\ ~Alive' /\ UNCHANGED <<procs, cur, misplaced>>
<1>1. CASE Evict(pid, v)
  <2>1. v \in DOMAIN entries[pid] /\ entries[pid] \in PageTable
    BY <1>1 DEF Evict, Fault, IInv, TypeOK
  <2>2. v \in VPages
    BY <2>1, TableFacts
  <2>3. UNCHANGED <<procs, cur, misplaced>> /\ status' \in {"out_of_range", "no_disk_page"}
    <3>1. EvictPPage(Head(lru), entries, diskfree)
      BY <1>1 DEF Evict
    <3>2. UNCHANGED <<procs, cur, misplaced>>
      BY <3>1 DEF EvictPPage
    <3>3. \E room : status' = IF room THEN "out_of_range" ELSE "no_disk_page"
      BY <3>1, Zenon DEF EvictPPage
    <3>. QED  BY <3>2, <3>3
  <2>. QED  BY <1>1, <2>2, <2>3, EvictIInv DEF Alive
<1>2. CASE EvictThrows(pid, v)
  <2>1. EvictMisplaced(Head(lru))
    BY <1>2 DEF EvictThrows
  <2>. QED  BY <2>1, EvictMisplacedIInv DEF EvictMisplaced, tables, frames
<1>. QED  BY <1>1, <1>2

-----------------------------------------------------------------------------
(* Bytes and pages. *)

Page == [0 .. PageBytes - 1 -> Byte]

LEMMA BusNumbers ==
    /\ PageBytes \in Nat \ {0} /\ RamPages \in Nat \ {0} /\ RomPages \in Nat \ {0}
    /\ MemoryPages \in Nat /\ MemoryPages >= 2 /\ MemoryPages = RamPages + RomPages
    /\ Backed = 0 .. MemoryPages - 1
    /\ Zeros \in Page /\ 0 \in Byte /\ Data \subseteq Byte
    /\ VPages \subseteq Frames /\ PageForPid \in VPages /\ 2 * NFrames <= WordMod
    /\ NFrames \in Nat
BY BusAssumption, VMAssumption DEF MemoryPages, Backed, Zeros, Page

LEMMA PlaceFacts ==
    ASSUME NEW a \in Nat
    PROVE  /\ PageOf(a) \in Nat /\ a % PageBytes \in 0 .. PageBytes - 1
           /\ a = PageOf(a) * PageBytes + (a % PageBytes)
BY BusNumbers, DivMod DEF PageOf

\* Offset o of page q is one address.
LEMMA AddressOf ==
    ASSUME NEW q \in Nat, NEW o \in 0 .. PageBytes - 1
    PROVE  /\ q * PageBytes + o \in Nat
           /\ PageOf(q * PageBytes + o) = q /\ (q * PageBytes + o) % PageBytes = o
<1>1. q * PageBytes \in Nat /\ o \in Nat /\ PageBytes \in Nat \ {0}
  BY BusNumbers
<1>. DEFINE a == q * PageBytes + o
<1>2. a \in Nat
  BY <1>1
<1>3. /\ PageOf(a) \in Nat /\ a % PageBytes \in 0 .. PageBytes - 1
      /\ q * PageBytes + o = PageOf(a) * PageBytes + (a % PageBytes)
  BY <1>2, PlaceFacts
<1>. HIDE DEF a
<1>4. PageOf(a) = q /\ a % PageBytes = o
  BY <1>1, <1>3, DivUnique
<1>. QED  BY <1>2, <1>4 DEF a

LEMMA SamePlace ==
    ASSUME NEW a \in Nat, NEW b \in Nat, PageOf(a) = PageOf(b), a % PageBytes = b % PageBytes
    PROVE  a = b
BY PlaceFacts

\* What is in a frame after part of page q was written to it.
LEMMA PutFacts ==
    ASSUME NEW mem \in [Backed -> Page], NEW f \in Backed, NEW data,
           DOMAIN data \subseteq Nat, \A a \in DOMAIN data : data[a] \in Byte,
           NEW q \in Nat, \A a \in DOMAIN data : PageOf(a) = q
    PROVE  /\ Put(mem, f, data) \in [Backed -> Page]
           /\ \A g \in Backed \ {f} : Put(mem, f, data)[g] = mem[g]
           /\ \A o \in 0 .. PageBytes - 1 :
                 Put(mem, f, data)[f][o] = IF q * PageBytes + o \in DOMAIN data
                                           THEN data[q * PageBytes + o] ELSE mem[f][o]
<1>. DEFINE at(o) == {a \in DOMAIN data : a % PageBytes = o}
            page == [o \in DOMAIN mem[f] |->
                        IF at(o) = {} THEN mem[f][o] ELSE data[CHOOSE a \in at(o) : TRUE]]
<1>1. Put(mem, f, data) = [mem EXCEPT ![f] = page]
  BY Zenon DEF Put
<1>2. DOMAIN mem[f] = 0 .. PageBytes - 1 /\ \A o \in 0 .. PageBytes - 1 : mem[f][o] \in Byte
  BY DEF Page
<1>3. ASSUME NEW o \in 0 .. PageBytes - 1
      PROVE  page[o] = IF q * PageBytes + o \in DOMAIN data
                       THEN data[q * PageBytes + o] ELSE mem[f][o]
  <2>. DEFINE x == q * PageBytes + o
  <2>1. x \in Nat /\ PageOf(x) = q /\ x % PageBytes = o
    BY AddressOf
  <2>. HIDE DEF x
  <2>2. at(o) = {x} \cap DOMAIN data
    BY <2>1, SamePlace
  <2>3. page[o] = IF at(o) = {} THEN mem[f][o] ELSE data[CHOOSE a \in at(o) : TRUE]
    BY <1>2
  <2>. HIDE DEF at, page
  <2>4. page[o] = IF x \in DOMAIN data THEN data[x] ELSE mem[f][o]
    <3>1. CASE x \in DOMAIN data
      <4>1. at(o) = {x}
        BY <2>2, <3>1
      <4>2. (CHOOSE a \in at(o) : TRUE) = x
        BY <4>1
      <4>. QED  BY <2>3, <3>1, <4>1, <4>2
    <3>2. CASE x \notin DOMAIN data
      BY <2>2, <2>3, <3>2
    <3>. QED  BY <3>1, <3>2
  <2>. QED  BY <2>4 DEF x
<1>4. page \in Page
  <2>1. \A o \in 0 .. PageBytes - 1 : page[o] \in Byte
    <3>. HIDE DEF page
    <3>. QED  BY <1>2, <1>3
  <2>2. page = [o \in 0 .. PageBytes - 1 |-> page[o]]
    BY <1>2
  <2>. HIDE DEF page
  <2>. QED  BY <2>1, <2>2 DEF Page
<1>. HIDE DEF page
<1>. QED  BY <1>1, <1>3, <1>4

LEMMA PutRawFacts ==
    ASSUME NEW mem \in [Backed -> Page], NEW data,
           DOMAIN data \subseteq Nat, \A a \in DOMAIN data : data[a] \in Byte
    PROVE  /\ PutRaw(mem, data) \in [Backed -> Page]
           /\ \A f \in Backed : \A o \in 0 .. PageBytes - 1 :
                 PutRaw(mem, data)[f][o] = IF f * PageBytes + o \in DOMAIN data
                                           THEN data[f * PageBytes + o] ELSE mem[f][o]
<1>. DEFINE mine(f) == {a \in DOMAIN data : PageOf(a) = f}
            part(f) == [a \in mine(f) |-> data[a]]
            new(f) == IF mine(f) = {} THEN mem[f] ELSE Put(mem, f, part(f))[f]
<1>1. PutRaw(mem, data) = [f \in Backed |-> new(f)]
  BY DEF PutRaw
<1>2. ASSUME NEW f \in Backed
      PROVE  /\ new(f) \in Page
             /\ \A o \in 0 .. PageBytes - 1 :
                   new(f)[o] = IF f * PageBytes + o \in DOMAIN data
                               THEN data[f * PageBytes + o] ELSE mem[f][o]
  <2>1. f \in Nat
    BY BusNumbers
  <2>2. ASSUME NEW o \in 0 .. PageBytes - 1
        PROVE  f * PageBytes + o \in mine(f) <=> f * PageBytes + o \in DOMAIN data
    BY <2>1, AddressOf
  <2>3. CASE mine(f) = {}
    <3>1. \A o \in 0 .. PageBytes - 1 : f * PageBytes + o \notin DOMAIN data
      BY <2>2, <2>3
    <3>. QED  BY <2>3, <3>1
  <2>4. CASE mine(f) # {}
    <3>. DEFINE d == part(f)
    <3>1. /\ DOMAIN d = mine(f) /\ \A a \in mine(f) : d[a] = data[a]
          /\ mine(f) \subseteq Nat /\ \A a \in mine(f) : PageOf(a) = f /\ data[a] \in Byte
      OBVIOUS
    <3>. HIDE DEF mine
    <3>2. new(f) = Put(mem, f, d)[f]
      BY <2>4
    <3>. HIDE DEF d, new
    <3>3. /\ Put(mem, f, d) \in [Backed -> Page]
          /\ \A o \in 0 .. PageBytes - 1 :
                Put(mem, f, d)[f][o] = IF f * PageBytes + o \in DOMAIN d
                                       THEN d[f * PageBytes + o] ELSE mem[f][o]
      BY <2>1, <3>1, PutFacts
    <3>4. \A o \in 0 .. PageBytes - 1 :
             new(f)[o] = IF f * PageBytes + o \in DOMAIN data
                         THEN data[f * PageBytes + o] ELSE mem[f][o]
      BY <2>2, <3>1, <3>2, <3>3
    <3>. QED  BY <3>2, <3>3, <3>4
  <2>. QED  BY <2>3, <2>4
<1>. HIDE DEF new
<1>. QED  BY <1>1, <1>2

-----------------------------------------------------------------------------
(* An access under way. *)

LEMMA HereFacts ==
    ASSUME Underway(pending)
    PROVE  /\ Here = pending.todo[1] /\ Here # {} /\ IsFiniteSet(Here) /\ Here \subseteq Nat
           /\ HerePage \in Nat /\ \A a \in Here : PageOf(a) = HerePage
           /\ pending # Idle
           /\ pending.kind \in {"read", "write"}
           /\ pending.kind = "write" => Here \subseteq DOMAIN pending.data
           /\ pending.kind = "read" => Here \cap DOMAIN pending.data = {}
<1>1. pending.todo \in Seq(SUBSET Nat) /\ pending.todo # <<>> /\ 1 \in 1 .. Len(pending.todo)
  BY EmptySeq DEF Underway
<1>2. Here = pending.todo[1]
  BY <1>1 DEF Here
<1>3. /\ Here # {} /\ IsFiniteSet(Here) /\ Here \subseteq Nat
      /\ \A a, b \in Here : PageOf(a) = PageOf(b)
      /\ pending.kind = "write" => Here \subseteq DOMAIN pending.data
      /\ pending.kind = "read" => Here \cap DOMAIN pending.data = {}
  BY <1>1, <1>2, ElementOfSeq DEF Underway
<1>4. HerePage \in Nat /\ \A a \in Here : PageOf(a) = HerePage
  <2>. DEFINE x == CHOOSE a \in Here : TRUE
  <2>1. x \in Here
    BY <1>3
  <2>. HIDE DEF x
  <2>2. HerePage = PageOf(x)
    BY DEF HerePage, x
  <2>. QED  BY <1>3, <2>1, <2>2, PlaceFacts
<1>5. pending # Idle /\ pending.kind \in {"read", "write"}
  BY DEF Underway, Idle
<1>. QED  BY <1>2, <1>3, <1>4, <1>5

\* The access goes on with its next part, or is over.
LEMMA ContinueFacts ==
    ASSUME Underway(pending), reply.status \in {"ok", "throw", "exit"},
           NEW data, DOMAIN data \subseteq Nat,
           \A a \in DOMAIN data : data[a] \in Byte,
           pending.kind = "write" => data = pending.data,
           pending.kind = "read" => DOMAIN data = Here \cup DOMAIN pending.data,
           Continue(data)
    PROVE  /\ pending' = Idle \/ Underway(pending')
           /\ reply'.status \in {"ok", "throw", "exit"}
<1>. DEFINE rest == [pending EXCEPT !.todo = Tail(@), !.data = data]
<1>1. /\ pending \in [kind : {"read", "write"}, todo : Seq(SUBSET Nat), data : {pending.data}]
      /\ pending.todo \in Seq(SUBSET Nat) /\ pending.todo # <<>>
      /\ Len(pending.todo) \in Nat
  BY LenProperties DEF Underway
<1>2. \/ rest.todo # <<>> /\ pending' = rest /\ UNCHANGED reply
      \/ pending' = Idle /\ reply'.status = "ok"
  <2>1. \/ rest.todo # <<>> /\ pending' = rest /\ UNCHANGED reply
        \/ /\ pending' = Idle
           /\ reply' = Answer("ok", IF rest.kind = "read" THEN data ELSE <<>>)
    BY Zenon DEF Continue
  <2>. HIDE DEF rest
  <2>. QED  BY <2>1 DEF Answer
<1>3. CASE pending' = Idle /\ reply'.status = "ok"
  BY <1>3
<1>4. CASE rest.todo # <<>> /\ pending' = rest /\ UNCHANGED reply
  <2>1. /\ Tail(pending.todo) \in Seq(SUBSET Nat)
        /\ Len(Tail(pending.todo)) = Len(pending.todo) - 1
        /\ \A i \in 1 .. Len(Tail(pending.todo)) : Tail(pending.todo)[i] = pending.todo[i + 1]
    BY <1>1, HeadTailProperties
  <2>3. /\ rest.todo = Tail(pending.todo) /\ rest.kind = pending.kind /\ rest.data = data
        /\ rest \in [kind : {"read", "write"}, todo : Seq(SUBSET Nat), data : {rest.data}]
    BY <1>1, <2>1
  <2>2. /\ rest.todo \in Seq(SUBSET Nat) /\ Len(rest.todo) = Len(pending.todo) - 1
        /\ \A i \in 1 .. Len(rest.todo) : rest.todo[i] = pending.todo[i + 1]
    <3>. HIDE DEF rest
    <3>. QED  BY <2>1, <2>3
  <2>. HIDE DEF rest
  <2>4. Here = pending.todo[1]
    BY HereFacts
  <2>5. ASSUME NEW i \in 1 .. Len(rest.todo)
        PROVE  /\ i + 1 \in 1 .. Len(pending.todo) /\ 1 \in 1 .. Len(pending.todo)
               /\ i + 1 # 1
    BY <1>1, <2>2
  <2>6. ASSUME NEW i \in 1 .. Len(rest.todo)
        PROVE  /\ rest.todo[i] # {} /\ IsFiniteSet(rest.todo[i])
               /\ \A a, b \in rest.todo[i] : PageOf(a) = PageOf(b)
               /\ pending.kind = "write" => rest.todo[i] \subseteq DOMAIN pending.data
               /\ pending.kind = "read" => rest.todo[i] \cap DOMAIN pending.data = {}
               /\ rest.todo[i] \cap Here = {}
    <3>. DEFINE k == i + 1
    <3>1. k \in 1 .. Len(pending.todo) /\ 1 \in 1 .. Len(pending.todo) /\ k # 1
      BY <2>5
    <3>2. rest.todo[i] = pending.todo[k]
      BY <2>2
    <3>. HIDE DEF k
    <3>3. pending.todo[k] \cap pending.todo[1] = {}
      BY <3>1 DEF Underway
    <3>4. /\ pending.todo[k] # {} /\ IsFiniteSet(pending.todo[k])
          /\ \A a, b \in pending.todo[k] : PageOf(a) = PageOf(b)
          /\ pending.kind = "write" => pending.todo[k] \subseteq DOMAIN pending.data
          /\ pending.kind = "read" => pending.todo[k] \cap DOMAIN pending.data = {}
      BY <3>1 DEF Underway
    <3>. QED  BY <2>4, <3>2, <3>3, <3>4
  <2>7. ASSUME NEW i \in 1 .. Len(rest.todo), NEW j \in 1 .. Len(rest.todo), i # j
        PROVE  rest.todo[i] \cap rest.todo[j] = {}
    <3>. DEFINE k == i + 1
                l == j + 1
    <3>1. k \in 1 .. Len(pending.todo) /\ l \in 1 .. Len(pending.todo) /\ k # l
      BY <2>5, <2>7
    <3>2. rest.todo[i] = pending.todo[k] /\ rest.todo[j] = pending.todo[l]
      BY <2>2
    <3>. HIDE DEF k, l
    <3>3. pending.todo[k] \cap pending.todo[l] = {}
      BY <3>1 DEF Underway
    <3>. QED  BY <3>2, <3>3
  <2>8. Underway(rest)
    BY <1>4, <2>2, <2>3, <2>6, <2>7 DEF Underway
  <2>. QED  BY <1>4, <2>8
<1>. QED  BY <1>2, <1>3, <1>4

LEMMA SpanFacts ==
    ASSUME NEW a \in Nat, NEW n \in 1 .. PageBytes
    PROVE  /\ n \in Nat /\ n >= 1 /\ a \in a .. a + n - 1 /\ a + n - 1 \in Nat
           /\ a .. a + n - 1 \subseteq Nat /\ IsFiniteSet(a .. a + n - 1)
           /\ Cardinality(a .. a + n - 1) = n
           /\ \A b \in a .. a + n - 1 : PageOf(a) <= PageOf(b) /\ PageOf(b) <= PageOf(a + n - 1)
<1>1. n \in Nat /\ n >= 1 /\ a + n - 1 \in Nat /\ a <= a + n - 1
  BY BusNumbers
<1>2. IsFiniteSet(a .. a + n - 1) /\ Cardinality(a .. a + n - 1) = n
  BY <1>1, FS_Interval
<1>3. \A b \in a .. a + n - 1 : b \in Nat /\ a <= b /\ b <= a + n - 1
  BY <1>1
<1>4. \A b \in a .. a + n - 1 : PageOf(a) <= PageOf(b) /\ PageOf(b) <= PageOf(a + n - 1)
  BY <1>1, <1>3, BusNumbers, DivMonotone DEF PageOf
<1>. QED  BY <1>1, <1>2, <1>3, <1>4

LEMMA PartsFacts ==
    ASSUME NEW kind \in {"read", "write"}, NEW a \in Nat, NEW n \in 1 .. PageBytes,
           NEW data, DOMAIN data = IF kind = "write" THEN a .. a + n - 1 ELSE {},
           \A b \in DOMAIN data : data[b] \in Byte
    PROVE  Underway([kind |-> kind, todo |-> Parts(kind, a, n), data |-> data])
<1>. DEFINE todo == Parts(kind, a, n)
            span == a .. a + n - 1
            p == [kind |-> kind, todo |-> todo, data |-> data]
<1>1. /\ span \subseteq Nat /\ a \in span /\ n \in Nat /\ n >= 1 /\ IsFiniteSet(span)
      /\ \A b \in span : PageOf(a) <= PageOf(b) /\ PageOf(b) <= PageOf(a + n - 1)
  BY SpanFacts
<1>2. /\ todo \in Seq(SUBSET Nat) /\ todo # <<>>
      /\ \A i \in 1 .. Len(todo) :
           /\ todo[i] # {} /\ IsFiniteSet(todo[i]) /\ todo[i] \subseteq span
           /\ \A b, c \in todo[i] : PageOf(b) = PageOf(c)
           /\ \A j \in 1 .. Len(todo) : i # j => todo[i] \cap todo[j] = {}
  <2>1. CASE PageOf(a) = PageOf(a + n - 1)
    <3>1. todo = <<span>>
      BY <2>1 DEF Parts
    <3>2. \A b, c \in span : PageOf(b) = PageOf(c)
      <4>1. \A b \in span : PageOf(b) \in Nat
        BY <1>1, PlaceFacts
      <4>2. PageOf(a) \in Nat
        BY PlaceFacts
      <4>3. \A b \in span : PageOf(b) = PageOf(a)
        BY <1>1, <2>1, <4>1, <4>2
      <4>. QED  BY <4>3
    <3>. HIDE DEF span, todo
    <3>. QED  BY <1>1, <3>1, <3>2
  <2>2. CASE PageOf(a) # PageOf(a + n - 1)
    <3>. DEFINE byte(k) == IF kind = "write" THEN a + k - 1 ELSE a + n - k
    <3>1. todo = [k \in 1 .. n |-> {byte(k)}]
      BY <2>2 DEF Parts
    <3>2. \A k \in 1 .. n : byte(k) \in span
      BY <1>1
    <3>3. \A k, l \in 1 .. n : byte(k) = byte(l) => k = l
      BY <1>1
    <3>. HIDE DEF byte, span, todo
    <3>4. todo \in [1 .. n -> SUBSET Nat]
      BY <1>1, <3>1, <3>2
    <3>5. todo \in Seq(SUBSET Nat) /\ Len(todo) = n
      BY <1>1, <3>4, SeqDef, LenProperties
    <3>6. todo # <<>>
      BY <1>1, <3>5
    <3>7. \A i \in 1 .. n : todo[i] = {byte(i)} /\ IsFiniteSet(todo[i])
      BY <3>1, FS_Singleton
    <3>8. ASSUME NEW i \in 1 .. n
          PROVE  /\ todo[i] # {} /\ IsFiniteSet(todo[i]) /\ todo[i] \subseteq span
                 /\ \A b, c \in todo[i] : PageOf(b) = PageOf(c)
      BY <3>2, <3>7
    <3>9. \A i, j \in 1 .. n : i # j => todo[i] \cap todo[j] = {}
      BY <3>3, <3>7
    <3>. QED  BY <3>5, <3>6, <3>8, <3>9
  <2>. QED  BY <2>1, <2>2
<1>. HIDE DEF todo, span
<1>3. /\ p.kind = kind /\ p.todo = todo /\ p.data = data
      /\ p \in [kind : {"read", "write"}, todo : Seq(SUBSET Nat), data : {p.data}]
  BY <1>2
<1>. HIDE DEF p
<1>4. DOMAIN data \subseteq span /\ (kind = "write" => DOMAIN data = span)
      /\ (kind = "read" => DOMAIN data = {})
  BY DEF span
<1>5. Underway(p)
  BY <1>1, <1>2, <1>3, <1>4 DEF Underway
<1>. QED  BY <1>5 DEF p, todo

-----------------------------------------------------------------------------
(* The invariant is kept. *)

Replies == {"ok", "throw", "exit"}

LEMMA AnsweredFacts ==
    ASSUME NEW how \in Replies, Answered(how)
    PROVE  pending' = Idle /\ reply'.status \in Replies
BY DEF Answered, Answer

LEMMA UnroutableFacts == \A f : Unroutable(f) \in Replies /\ Unroutable(f) \in {"exit", "throw"}
BY DEF Unroutable, Replies

LEMMA OverFacts ==
    ASSUME NEW new, NEW old
    PROVE  /\ DOMAIN Over(new, old) = DOMAIN new \cup DOMAIN old
           /\ \A a \in DOMAIN new : Over(new, old)[a] = new[a]
           /\ \A a \in DOMAIN old \ DOMAIN new : Over(new, old)[a] = old[a]
BY DEF Over

LEMMA ReachFacts ==
    ASSUME Underway(pending), reply.status \in Replies, memory \in [Backed -> Page],
           NEW f, NEW mem \in [Backed -> Page], Reach(f, mem)
    PROVE  /\ memory' \in [Backed -> Page]
           /\ pending' = Idle \/ Underway(pending')
           /\ reply'.status \in Replies
<1>1. /\ Here \subseteq Nat /\ HerePage \in Nat /\ \A a \in Here : PageOf(a) = HerePage
      /\ pending.kind \in {"read", "write"}
      /\ pending.kind = "write" => Here \subseteq DOMAIN pending.data
      /\ DOMAIN pending.data \subseteq Nat
      /\ \A a \in DOMAIN pending.data : pending.data[a] \in Byte
  BY HereFacts DEF Underway
<1>2. CASE f \notin Backed
  <2>1. Answered(Unroutable(f)) /\ UNCHANGED memory
    BY <1>2 DEF Reach
  <2>. QED  BY <2>1, AnsweredFacts, UnroutableFacts
<1>3. CASE f \in Backed /\ pending.kind = "write"
  <2>. DEFINE d == [a \in Here |-> pending.data[a]]
  <2>1. memory' = Put(mem, f, d) /\ Continue(pending.data)
    BY <1>3 DEF Reach
  <2>2. DOMAIN d = Here /\ \A a \in Here : d[a] \in Byte
    BY <1>1, <1>3
  <2>. HIDE DEF d
  <2>3. memory' \in [Backed -> Page]
    BY <1>1, <1>3, <2>1, <2>2, PutFacts
  <2>. QED  BY <1>1, <1>3, <2>1, <2>3, ContinueFacts DEF Replies
<1>4. CASE f \in Backed /\ pending.kind = "read"
  <2>. DEFINE seen == [a \in Here |-> mem[f][a % PageBytes]]
              d == Over(seen, pending.data)
  <2>1. memory' = mem /\ Continue(d)
    BY <1>4 DEF Reach
  <2>2. \A a \in Here : seen[a] \in Byte
    BY <1>1, <1>4, PlaceFacts DEF Page
  <2>3. DOMAIN seen = Here
    OBVIOUS
  <2>. HIDE DEF seen
  <2>4. /\ DOMAIN d = Here \cup DOMAIN pending.data /\ DOMAIN d \subseteq Nat
        /\ \A a \in DOMAIN d : d[a] \in Byte
    <3>1. /\ DOMAIN d = DOMAIN seen \cup DOMAIN pending.data
            /\ \A a \in DOMAIN seen : d[a] = seen[a]
          /\ \A a \in DOMAIN pending.data \ DOMAIN seen : d[a] = pending.data[a]
      BY OverFacts
    <3>. HIDE DEF d
    <3>. QED  BY <1>1, <2>2, <2>3, <3>1
  <2>. HIDE DEF d
  <2>. QED  BY <1>4, <2>1, <2>4, ContinueFacts DEF Replies
<1>. QED  BY <1>1, <1>2, <1>3, <1>4

LEMMA FetchedFacts ==
    ASSUME memory \in [Backed -> Page], NEW f \in Backed
    PROVE  /\ Fetched(f) \in [Backed -> Page] /\ Fetched(f)[f] = Zeros
           /\ \A g \in Backed \ {f} : Fetched(f)[g] = memory[g]
BY BusNumbers DEF Fetched

\* What is known of an access under way.
LEMMA UnderwayFacts ==
    ASSUME BusInv, Alive, pending # Idle
    PROVE  /\ IInv /\ TypeOK /\ misplaced \subseteq Backed /\ memory \in [Backed -> Page]
           /\ Underway(pending) /\ HerePage \in Nat /\ reply.status \in Replies
           /\ cur # NoProcess => cur \in procs /\ cur \in Pids
<1>1. IInv /\ misplaced \subseteq Backed /\ memory \in [Backed -> Page] /\ Underway(pending)
      /\ reply.status \in Replies
  BY DEF BusInv, Page, Replies
<1>2. TypeOK
  BY <1>1 DEF IInv
<1>. QED  BY <1>1, <1>2, HereFacts DEF TypeOK

LEMMA TranslatedInv ==
    ASSUME BusInv, Alive, pending # Idle, StepTranslated
    PROVE  BusInv'
<1>. DEFINE v == HerePage
            f == FrameOf(cur, v)
<1>1. /\ IInv /\ TypeOK /\ misplaced \subseteq Backed /\ memory \in [Backed -> Page]
      /\ Underway(pending) /\ v \in Nat /\ reply.status \in Replies
  BY UnderwayFacts
<1>2. cur \in procs /\ cur \in Pids
  BY UnderwayFacts DEF StepTranslated
<1>3. \/ (AccessHit(cur, v) \/ AccessResident(cur, v)) /\ Reach(f, memory)
      \/ PageIn(cur, v) /\ Reach(f, IF f \in Backed THEN Fetched(f) ELSE memory)
      \/ AccessUnmapped(cur, v) /\ Answered("throw") /\ UNCHANGED memory
      \/ (Evict(cur, v) \/ EvictThrows(cur, v)) /\ Answered("exit") /\ UNCHANGED memory
  BY DEF StepTranslated
<1>. HIDE DEF v, f
<1>4. CASE (AccessHit(cur, v) \/ AccessResident(cur, v)) /\ Reach(f, memory)
  <2>1. IInv' /\ UNCHANGED misplaced
    BY <1>1, <1>2, <1>4, HitFacts, ResidentFacts
  <2>. QED  BY <1>1, <1>4, <2>1, ReachFacts DEF BusInv, Page, Replies
<1>5. CASE PageIn(cur, v) /\ Reach(f, IF f \in Backed THEN Fetched(f) ELSE memory)
  <2>1. IInv' /\ UNCHANGED misplaced
    BY <1>1, <1>2, <1>5, FaultFacts
  <2>2. (IF f \in Backed THEN Fetched(f) ELSE memory) \in [Backed -> Page]
    BY <1>1, FetchedFacts
  <2>. QED  BY <1>1, <1>5, <2>1, <2>2, ReachFacts DEF BusInv, Page, Replies
<1>6. CASE AccessUnmapped(cur, v) /\ Answered("throw") /\ UNCHANGED memory
  <2>1. Throw
    BY <1>6 DEF AccessUnmapped
  <2>2. IInv'
    BY <1>1, <2>1, ThrowIInv
  <2>3. UNCHANGED misplaced
    BY <2>1 DEF Throw, frames
  <2>4. pending' = Idle /\ reply'.status \in Replies
    BY <1>6, AnsweredFacts DEF Replies
  <2>. QED  BY <1>1, <1>6, <2>2, <2>3, <2>4 DEF BusInv, Page, Replies
<1>7. CASE (Evict(cur, v) \/ EvictThrows(cur, v)) /\ Answered("exit") /\ UNCHANGED memory
  <2>1. IInv' /\ UNCHANGED misplaced
    BY <1>1, <1>2, <1>7, EvictEnds
  <2>2. pending' = Idle /\ reply'.status \in Replies
    BY <1>7, AnsweredFacts DEF Replies
  <2>. QED  BY <1>1, <1>7, <2>1, <2>2 DEF BusInv, Page, Replies
<1>. QED  BY <1>3, <1>4, <1>5, <1>6, <1>7

LEMMA StutterVM ==
    ASSUME BusInv, UNCHANGED vars
    PROVE  IInv' /\ misplaced' \subseteq Backed /\ Alive' = Alive
BY StutterIInv DEF BusInv, vars, Alive

LEMMA RawInv ==
    ASSUME BusInv, Alive, pending # Idle, StepRaw
    PROVE  BusInv'
<1>1. /\ memory \in [Backed -> Page] /\ Underway(pending) /\ reply.status \in Replies
      /\ Reach(HerePage, memory) /\ UNCHANGED vars
  BY UnderwayFacts DEF StepRaw
<1>. QED  BY <1>1, StutterVM, ReachFacts DEF BusInv, Page, Replies

LEMMA AddressFacts ==
    ASSUME NEW a \in Addresses
    PROVE  a \in Nat /\ PageOf(a) \in Frames
<1>1. NFrames \in Nat /\ NFrames >= 1 /\ PageBytes \in Nat \ {0}
  BY BusNumbers, VMAssumption
<1>. DEFINE q == NFrames - 1
            top == q * PageBytes
<1>2. q \in Nat /\ 0 \in 0 .. PageBytes - 1
  BY <1>1
<1>3. a \in 0 .. top
  BY BusAssumption
<1>. HIDE DEF q
<1>4. top + 0 \in Nat /\ PageOf(top + 0) = q
  BY <1>2, AddressOf
<1>5. top \in Int /\ top = top + 0
  BY <1>1, <1>2
<1>. HIDE DEF top
<1>6. a \in Nat /\ top \in Nat /\ a <= top /\ PageOf(top) = q
  BY <1>3, <1>4, <1>5
<1>7. PageOf(a) <= PageOf(top) /\ PageOf(a) \in Nat
  BY <1>1, <1>6, DivMonotone, PlaceFacts DEF PageOf
<1>. QED  BY <1>1, <1>6, <1>7 DEF Frames, q

LEMMA SizeFacts == \A n \in Sizes : n \in 1 .. PageBytes
BY BusAssumption

\* What the calls that manage processes have in common.
LEMMA ManagedInv ==
    ASSUME BusInv, IInv', UNCHANGED <<memory, misplaced>>,
           NEW how \in {"ok", "throw", "exit"}, Answered(how)
    PROVE  BusInv'
BY AnsweredFacts DEF BusInv, Replies

\* Only a process that begins gives a translation that is left in the TLB a meaning.
LEMMA ManageVM ==
    ASSUME BusInv, Alive,
           \/ BeginProcess
           \/ BeginThrows
           \/ \E pid \in procs : \/ SetProcess(pid) \/ EndProcess(pid) \/ EndThrows(pid)
                                 \/ \E vs \in Ranges : AddVPages(pid, vs)
    PROVE  IInv' /\ UNCHANGED misplaced /\ (BeginProcess \/ Foreign' \subseteq Foreign)
<1>1. IInv /\ TypeOK
  BY DEF BusInv, IInv
<1>2. CASE BeginProcess
  BY <1>1, <1>2, BeginProcessIInv DEF BeginProcess, frames
<1>3. CASE BeginThrows
  <2>1. Throw
    BY <1>3 DEF BeginThrows
  <2>. QED  BY <1>1, <2>1, ThrowIInv, ForeignSame DEF Throw, tables, frames
<1>4. ASSUME NEW pid \in procs, SetProcess(pid)
      PROVE  IInv' /\ UNCHANGED misplaced /\ Foreign' \subseteq Foreign
  <2>1. pid \in Pids /\ UNCHANGED <<tlb, procs, entries, misplaced>>
    BY <1>1, <1>4 DEF TypeOK, SetProcess, frames
  <2>. QED  BY <1>1, <1>4, <2>1, SetProcessIInv, ForeignSame
<1>7. ASSUME NEW pid \in procs, EndThrows(pid)
      PROVE  IInv' /\ UNCHANGED misplaced /\ Foreign' \subseteq Foreign
  <2>1. pid \in Pids /\ UNCHANGED <<tlb, procs, entries, misplaced>>
    BY <1>1, <1>7 DEF TypeOK, EndThrows, tables, frames
  <2>. QED  BY <1>1, <1>7, <2>1, EndThrowsIInv, ForeignSame
<1>5. ASSUME NEW pid \in procs, EndProcess(pid)
      PROVE  IInv' /\ UNCHANGED misplaced /\ Foreign' \subseteq Foreign
  <2>1. pid \in Pids
    BY <1>1 DEF TypeOK
  <2>2. /\ UNCHANGED <<tlb, misplaced>> /\ procs' = procs \ {pid}
        /\ entries' = [entries EXCEPT ![pid] = EmptyTable]
    BY <1>5 DEF EndProcess
  <2>3. ASSUME NEW r \in Resident, r[1] \in procs'
        PROVE  r \in Resident' /\ EntryOf(r)' = EntryOf(r)
    <3>1. r \in AllPages /\ ~EntryOf(r).disk
      BY DEF Resident
    <3>2. r \in Pids \X VPages /\ r[1] \in Pids /\ r[2] \in DOMAIN entries[r[1]]
      BY <1>1, <3>1, PageFacts
    <3>3. entries'[r[1]] = entries[r[1]]
      BY <1>1, <2>2, <2>3, <3>2 DEF TypeOK
    <3>4. EntryOf(r)' = EntryOf(r) /\ r \in AllPages'
      BY <3>2, <3>3 DEF EntryOf, AllPages
    <3>. QED  BY <3>1, <3>4 DEF Resident
  <2>4. Foreign' \subseteq Foreign
    BY <2>2, <2>3, ForeignKept
  <2>. QED  BY <1>1, <1>5, <2>1, <2>2, <2>4, EndProcessIInv
<1>6. ASSUME NEW pid \in procs, NEW vs \in Ranges, AddVPages(pid, vs)
      PROVE  IInv' /\ UNCHANGED misplaced /\ Foreign' \subseteq Foreign
  <2>1. /\ IInv' /\ Resident' = Resident
        /\ \A r \in AllPages : EntryOf(r)' = EntryOf(r)
    <3>1. pid \in Pids
      BY <1>1 DEF TypeOK
    <3>2. PICK s : GoodAdd(pid, s) /\ Added(pid, s)
      BY <1>1, <1>6, <3>1, AddPagesFacts
    <3>. QED  BY <1>1, <3>2, AddedIInv
  <2>2. UNCHANGED <<tlb, procs, misplaced>>
    BY <1>6 DEF AddVPages, Added, frames
  <2>3. \A r \in Resident : EntryOf(r)' = EntryOf(r)
    BY <2>1 DEF Resident
  <2>. QED  BY <2>1, <2>2, <2>3, ForeignKept
<1>. QED  BY <1>2, <1>3, <1>4, <1>5, <1>6, <1>7

LEMMA ManageInv ==
    ASSUME BusInv, Alive, Manage
    PROVE  BusInv'
<1>1. IInv' /\ UNCHANGED <<memory, misplaced>> /\ Answered(IF Alive' THEN status' ELSE "exit")
  BY ManageVM DEF Manage
<1>2. (IF Alive' THEN status' ELSE "exit") \in {"ok", "throw", "exit"}
  BY DEF Alive
<1>. QED  BY <1>1, <1>2, ManagedInv

LEMMA EnsureMappedFacts ==
    ASSUME IInv, Alive, NEW pid, NEW p, EnsureMapped(pid, p)
    PROVE  IInv' /\ Alive' /\ UNCHANGED <<procs, cur, entries, tlb, misplaced>>
<1>1. /\ UNCHANGED <<procs, cur, entries, freepids, diskfree, freelist, used, mapped, lru, tlb,
                     misplaced>>
      /\ status' = "ok"
  BY DEF EnsureMapped, tables, frames
<1>2. TypeOK'
  BY <1>1 DEF IInv, TypeOK
<1>. QED  BY <1>1, <1>2, UnmovedIInv DEF Alive

\* Nothing is written when data is empty.
LEMMA ReachRawFacts ==
    ASSUME memory \in [Backed -> Page], NEW mem \in [Backed -> Page],
           NEW a, NEW n, NEW data,
           DOMAIN data \subseteq Nat, \A b \in DOMAIN data : data[b] \in Byte,
           ReachRaw(a, n, data, mem)
    PROVE  memory' \in [Backed -> Page] /\ pending' = Idle /\ reply'.status \in Replies
<1>1. CASE PageOf(a) \notin Backed
  <2>1. Answered(Unroutable(PageOf(a))) /\ UNCHANGED memory
    BY <1>1 DEF ReachRaw
  <2>. QED  BY <2>1, AnsweredFacts, UnroutableFacts
<1>2. CASE PageOf(a) \in Backed
  <2>1. memory' = PutRaw(mem, data) /\ pending' = Idle /\ reply'.status = "ok"
    BY <1>2 DEF ReachRaw, Answer
  <2>. QED  BY <2>1, PutRawFacts DEF Replies
<1>. QED  BY <1>1, <1>2

LEMMA BytesFacts ==
    ASSUME NEW a \in Nat, NEW n \in 1 .. PageBytes,
           NEW data \in [a .. a + n - 1 -> Data] \cup {<<>>}
    PROVE  /\ DOMAIN data \subseteq a .. a + n - 1 /\ DOMAIN data \subseteq Nat
           /\ \A b \in DOMAIN data : data[b] \in Byte
           /\ data = <<>> \/ (data # <<>> /\ DOMAIN data = a .. a + n - 1)
           /\ data = <<>> => DOMAIN data = {}
<1>1. a .. a + n - 1 \subseteq Nat /\ a \in a .. a + n - 1
  BY SpanFacts
<1>2. DOMAIN <<>> = {}
  OBVIOUS
<1>3. CASE data = <<>>
  BY <1>2, <1>3
<1>4. CASE data \in [a .. a + n - 1 -> Data]
  <2>1. DOMAIN data = a .. a + n - 1
    BY <1>4
  <2>2. data # <<>>
    BY <1>1, <1>2, <2>1
  <2>. QED  BY <1>1, <1>4, <2>1, <2>2, BusNumbers
<1>. QED  BY <1>3, <1>4

LEMMA UnmappedInv ==
    ASSUME BusInv, Alive, NEW a \in Addresses, NEW n \in Sizes,
           NEW data \in [a .. a + n - 1 -> Data] \cup {<<>>}, Unmapped(a, n, data)
    PROVE  BusInv'
<1>. DEFINE p == PageOf(a)
<1>1. /\ IInv /\ TypeOK /\ misplaced \subseteq Backed /\ memory \in [Backed -> Page]
  BY DEF BusInv, IInv, Page
<1>2. a \in Nat /\ p \in Frames /\ n \in 1 .. PageBytes
  BY AddressFacts, SizeFacts
<1>3. DOMAIN data \subseteq Nat /\ \A b \in DOMAIN data : data[b] \in Byte
  BY <1>2, BytesFacts
<1>4. \/ EnsureMapped(cur, p) /\ ReachRaw(a, n, data, memory)
      \/ EnsureRefused(cur, p) /\ Answered("throw") /\ UNCHANGED memory
      \/ /\ MapPPage(cur, p)
         /\ \/ ~Alive' /\ Answered("exit") /\ UNCHANGED memory
            \/ Alive' /\ ReachRaw(a, n, data, IF p \in Backed THEN Fetched(p) ELSE memory)
  BY DEF Unmapped
<1>. HIDE DEF p
<1>6. CASE EnsureMapped(cur, p) /\ ReachRaw(a, n, data, memory)
  <2>1. IInv' /\ UNCHANGED misplaced
    BY <1>1, <1>6, EnsureMappedFacts
  <2>2. memory' \in [Backed -> Page] /\ pending' = Idle /\ reply'.status \in Replies
    BY <1>1, <1>3, <1>6, ReachRawFacts
  <2>. QED  BY <1>1, <2>1, <2>2 DEF BusInv, Page, Replies
<1>7. CASE EnsureRefused(cur, p) /\ Answered("throw") /\ UNCHANGED memory
  <2>1. Throw
    BY <1>7 DEF EnsureRefused
  <2>2. IInv' /\ UNCHANGED misplaced
    BY <1>1, <2>1, ThrowIInv DEF Throw, frames
  <2>. QED  BY <1>7, <2>2, ManagedInv
<1>8. ASSUME MapPPage(cur, p)
      PROVE  IInv' /\ misplaced' \subseteq Backed
  <2>1. cur \in Pids
    BY <1>1, <1>8 DEF MapPPage, TypeOK
  <2>2. PageForPid \in VPages /\ 2 * NFrames <= WordMod
    BY BusNumbers
  <2>3. IInv' /\ (~Alive' => UNCHANGED misplaced)
    BY <1>1, <1>2, <1>8, <2>1, <2>2, MapPPageFacts
  <2>4. Alive' => p = PageForPid /\ misplaced' \in {misplaced, misplaced \cup {p}}
    BY <1>1, <1>2, <1>8, <2>1, <2>2, MapPPageFacts
  <2>5. PageForPid \in Backed
    BY BusNumbers DEF PageForPid
  <2>. QED  BY <1>1, <2>3, <2>4, <2>5
<1>9. CASE MapPPage(cur, p) /\ ~Alive' /\ Answered("exit") /\ UNCHANGED memory
  BY <1>1, <1>8, <1>9, AnsweredFacts DEF BusInv, Page, Replies
<1>10. CASE MapPPage(cur, p) /\ Alive'
            /\ ReachRaw(a, n, data, IF p \in Backed THEN Fetched(p) ELSE memory)
  <2>1. (IF p \in Backed THEN Fetched(p) ELSE memory) \in [Backed -> Page]
    BY <1>1, FetchedFacts
  <2>2. memory' \in [Backed -> Page] /\ pending' = Idle /\ reply'.status \in Replies
    BY <1>1, <1>3, <1>10, <2>1, ReachRawFacts
  <2>. QED  BY <1>8, <1>10, <2>2 DEF BusInv, Page, Replies
<1>. QED  BY <1>4, <1>6, <1>7, <1>9, <1>10

LEMMA StartInv ==
    ASSUME BusInv, Alive, NEW a \in Addresses, NEW n \in Sizes,
           StartRead(a, n) \/ \E data \in [a .. a + n - 1 -> Data] : StartWrite(a, data)
    PROVE  BusInv'
<1>1. a \in Nat /\ n \in 1 .. PageBytes
  BY AddressFacts, SizeFacts
<1>2. CASE StartRead(a, n)
  <2>1. Underway([kind |-> "read", todo |-> Parts("read", a, n), data |-> <<>>])
    BY <1>1, PartsFacts
  <2>2. Underway(pending') /\ reply'.status = "ok" /\ UNCHANGED vars /\ UNCHANGED memory
    BY <1>2, <2>1 DEF StartRead, Answer
  <2>. QED  BY <2>2, StutterVM DEF BusInv
<1>3. ASSUME NEW data \in [a .. a + n - 1 -> Data], StartWrite(a, data)
      PROVE  BusInv'
  <2>1. /\ DOMAIN data = a .. a + n - 1 /\ Cardinality(DOMAIN data) = n
        /\ \A b \in DOMAIN data : data[b] \in Byte
    BY <1>1, SpanFacts, BusNumbers
  <2>2. Underway([kind |-> "write", todo |-> Parts("write", a, n), data |-> data])
    BY <1>1, <2>1, PartsFacts
  <2>3. Underway(pending') /\ reply'.status = "ok" /\ UNCHANGED vars /\ UNCHANGED memory
    BY <1>3, <2>1, <2>2 DEF StartWrite, Answer
  <2>. QED  BY <2>3, StutterVM DEF BusInv
<1>. QED  BY <1>2, <1>3

LEMMA ResetInv == BusInv /\ Reset => BusInv'
<1>. SUFFICES ASSUME BusInv, Reset
              PROVE  BusInv'
  OBVIOUS
<1>1. UNCHANGED vars /\ UNCHANGED pending /\ reply'.status = "ok"
  BY DEF Reset, Answer
<1>2. memory' \in [Backed -> Page]
  BY BusNumbers DEF Reset, BusInv, Page
<1>. QED  BY <1>1, <1>2, StutterVM DEF BusInv, Page

LEMMA InitBusInv == BusInit => BusInv
<1>. SUFFICES ASSUME BusInit
              PROVE  BusInv
  OBVIOUS
<1>1. IInv
  BY InitIInv DEF BusInit
<1>2. misplaced \subseteq Backed
  BY DEF BusInit, Init
<1>3. memory \in [Backed -> Page] /\ pending = Idle /\ reply.status = "ok"
  BY BusNumbers DEF BusInit, Answer
<1>. QED  BY <1>1, <1>2, <1>3 DEF BusInv, Page

LEMMA NextBusInv == BusInv /\ [BusNext]_<<vars, busVars>> => BusInv'
<1>. SUFFICES ASSUME BusInv, [BusNext]_<<vars, busVars>>
              PROVE  BusInv'
  OBVIOUS
<1>1. CASE UNCHANGED <<vars, busVars>>
  BY <1>1, StutterVM DEF BusInv, busVars
<1>2. CASE BusNext
  <2>1. Alive
    BY <1>2 DEF BusNext
  <2>2. CASE StepPending
    BY <2>1, <2>2, TranslatedInv, RawInv DEF StepPending
  <2>3. CASE Manage
    BY <2>1, <2>3, ManageInv
  <2>4. CASE Reset
    BY <2>4, ResetInv
  <2>5. ASSUME NEW a \in Addresses, NEW n \in Sizes,
               StartRead(a, n) \/ \E data \in [a .. a + n - 1 -> Data] : StartWrite(a, data)
        PROVE  BusInv'
    BY <2>1, <2>5, StartInv
  <2>6. ASSUME NEW a \in Addresses, NEW n \in Sizes,
               NEW data \in [a .. a + n - 1 -> Data] \cup {<<>>}, Unmapped(a, n, data)
        PROVE  BusInv'
    BY <2>1, <2>6, UnmappedInv
  <2>. QED  BY <1>2, <2>2, <2>3, <2>4, <2>5, <2>6 DEF BusNext
<1>. QED  BY <1>1, <1>2

THEOREM BusInvariance == BusSpec => []BusInv
<1>. QED  BY InitBusInv, NextBusInv, PTL DEF BusSpec

\* Memory keeps its shape, and the parts of an access still to be made stay within pages
\* and apart from each other, whatever faults and ends of processes come in between.
THEOREM BusTypeCorrect == BusSpec => []BusTypeOK
<1>1. BusInv => BusTypeOK
  <2>. SUFFICES ASSUME BusInv
                PROVE  BusTypeOK
    OBVIOUS
  <2>1. TypeOK /\ memory \in [Backed -> [0 .. PageBytes - 1 -> Byte]]
        /\ reply.status \in {"ok", "throw", "exit"}
    BY DEF BusInv, IInv
  <2>2. ASSUME pending # Idle
        PROVE  /\ pending.kind \in {"read", "write"} /\ pending.todo # <<>>
               /\ \A part \in ToSet(pending.todo) :
                    /\ part # {} /\ \A a, b \in part : PageOf(a) = PageOf(b)
                    /\ IF pending.kind = "write" THEN part \subseteq DOMAIN pending.data
                       ELSE part \cap DOMAIN pending.data = {}
    <3>1. Underway(pending)
      BY <2>2 DEF BusInv
    <3>2. ToSet(pending.todo) = {pending.todo[i] : i \in 1 .. Len(pending.todo)}
      BY <3>1, LenProperties DEF ToSet, Underway
    <3>. QED  BY <3>1, <3>2 DEF Underway
  <2>. QED  BY <2>1, <2>2 DEF BusTypeOK
<1>. QED  BY <1>1, BusInvariance, PTL

\* Whatever frame a physical access maps by force, at most that one frame goes astray, and the
\* others stay apart.
THEOREM BusFrames == BusSpec => []FramesKept
<1>1. BusInv => FramesKept
  BY DEF BusInv, IInv
<1>. QED  BY <1>1, BusInvariance, PTL

-----------------------------------------------------------------------------
(* The frames of the disk. *)

\* A call that takes no frame into use leaves the disk's frames unused.
LEMMA UntouchedKept ==
    ASSUME DiskUntouched, Alive, reply.status # "exit",
           \A f \in DiskFrames \cap Frames : used'[f] => used[f]
    PROVE  DiskUntouched'
BY DEF DiskUntouched

\* One that takes a frame of the disk ends the program.
LEMMA UntouchedTaken ==
    ASSUME DiskUntouched, Alive, reply.status # "exit", TypeOK, NEW f \in Frames,
           used' = [used EXCEPT ![f] = TRUE], f \in DiskFrames => reply'.status = "exit"
    PROVE  DiskUntouched'
BY DEF DiskUntouched, TypeOK

LEMMA DiskFrameEnds ==
    ASSUME NEW f \in DiskFrames
    PROVE  f \notin Backed /\ Unroutable(f) = "exit"
BY BusNumbers, VMAssumption DEF DiskFrames, Unroutable

LEMMA TranslatedUntouched ==
    ASSUME BusInv, DiskUntouched, Alive, reply.status # "exit", pending # Idle, StepTranslated
    PROVE  DiskUntouched'
<1>. DEFINE v == HerePage
            f == FrameOf(cur, v)
<1>1. IInv /\ TypeOK /\ cur \in procs /\ cur \in Pids /\ v \in Nat
  BY UnderwayFacts DEF StepTranslated
<1>2. \/ AccessHit(cur, v) \/ AccessResident(cur, v) \/ AccessUnmapped(cur, v)
      \/ Evict(cur, v) \/ EvictThrows(cur, v)
      \/ PageIn(cur, v) /\ Reach(f, IF f \in Backed THEN Fetched(f) ELSE memory)
  BY DEF StepTranslated
<1>. HIDE DEF v, f
<1>3. CASE AccessHit(cur, v) \/ AccessResident(cur, v) \/ AccessUnmapped(cur, v)
  <2>1. UNCHANGED used
    BY <1>3 DEF AccessHit, AccessResident, AccessUnmapped, Throw, frames
  <2>. QED  BY <2>1, UntouchedKept
<1>4. CASE PageIn(cur, v) /\ Reach(f, IF f \in Backed THEN Fetched(f) ELSE memory)
  <2>1. f \in Frames
    BY <1>1, <1>4, FaultFacts DEF f
  <2>2. f = FrameList!TakenAddr(freelist, 1)
    BY <1>4 DEF PageIn, Fault, FrameOf, f
  <2>3. used' = [used EXCEPT ![f] = TRUE]
    BY <1>4, <2>2 DEF PageIn, MapVPageToPPage
  <2>4. ASSUME f \in DiskFrames
        PROVE  reply'.status = "exit"
    BY <1>4, <2>4, DiskFrameEnds DEF Reach, Answered, Answer
  <2>. QED  BY <1>1, <2>1, <2>3, <2>4, UntouchedTaken
<1>5. CASE Evict(cur, v) \/ EvictThrows(cur, v)
  BY <1>1, <1>5, EvictEnds DEF DiskUntouched
<1>. QED  BY <1>2, <1>3, <1>4, <1>5

LEMMA ManageUntouched ==
    ASSUME BusInv, DiskUntouched, Alive, reply.status # "exit", Manage
    PROVE  DiskUntouched'
<1>1. ASSUME NEW pid \in procs, EndProcess(pid)
      PROVE  \A f \in Frames : used'[f] => used[f]
  BY <1>1 DEF EndProcess
<1>2. \/ UNCHANGED used
      \/ \E pid \in procs : EndProcess(pid)
  BY DEF Manage, BeginProcess, BeginThrows, EndThrows, SetProcess, AddVPages, Added, Throw, frames
<1>. QED  BY <1>1, <1>2, UntouchedKept

LEMMA UnmappedUntouched ==
    ASSUME BusInv, DiskUntouched, Alive, reply.status # "exit",
           NEW a \in Addresses, NEW n \in Sizes, NEW data, Unmapped(a, n, data)
    PROVE  DiskUntouched'
<1>. DEFINE p == PageOf(a)
<1>1. TypeOK
  BY DEF BusInv, IInv
<1>2. p \in Frames
  BY SizeFacts, AddressFacts
<1>3. \/ EnsureMapped(cur, p) \/ EnsureRefused(cur, p)
      \/ MapPPage(cur, p) /\ ~Alive'
      \/ MapPPage(cur, p) /\ ReachRaw(a, n, data, IF p \in Backed THEN Fetched(p) ELSE memory)
  BY DEF Unmapped
<1>4. ASSUME NEW mem, ReachRaw(a, n, data, mem), p \in DiskFrames
      PROVE  reply'.status = "exit"
  BY <1>4, DiskFrameEnds DEF ReachRaw, Answered, Answer
<1>. HIDE DEF p
<1>5. CASE EnsureMapped(cur, p) \/ EnsureRefused(cur, p)
  <2>1. UNCHANGED used
    BY <1>5 DEF EnsureMapped, EnsureRefused, Throw, frames
  <2>. QED  BY <2>1, UntouchedKept
<1>6. ASSUME MapPPage(cur, p),
             ReachRaw(a, n, data, IF p \in Backed THEN Fetched(p) ELSE memory)
      PROVE  DiskUntouched'
  <2>1. \/ UNCHANGED used
        \/ used' = [used EXCEPT ![p] = FALSE]
        \/ used' = [used EXCEPT ![p] = TRUE]
    <3>1. \/ UNCHANGED used
          \/ \E e, d : EvictPPage(p, e, d)
          \/ EvictMisplaced(p)
          \/ \E e, d : MapVPageToPPage(cur, p, p, e, d)
      BY <1>6 DEF MapPPage
    <3>2. ASSUME NEW e, NEW d, EvictPPage(p, e, d)
          PROVE  used' = [used EXCEPT ![p] = FALSE]
      BY <3>2 DEF EvictPPage
    <3>3. ASSUME NEW e, NEW d, MapVPageToPPage(cur, p, p, e, d)
          PROVE  used' = [used EXCEPT ![p] = TRUE]
      BY <3>3 DEF MapVPageToPPage
    <3>4. EvictMisplaced(p) => UNCHANGED used
      BY DEF EvictMisplaced, frames
    <3>. QED  BY <3>1, <3>2, <3>3, <3>4
  <2>2. CASE UNCHANGED used \/ used' = [used EXCEPT ![p] = FALSE]
    BY <1>1, <1>2, <2>2, UntouchedKept DEF TypeOK
  <2>3. CASE used' = [used EXCEPT ![p] = TRUE]
    BY <1>1, <1>2, <1>4, <1>6, <2>3, UntouchedTaken
  <2>. QED  BY <2>1, <2>2, <2>3
<1>7. CASE ~Alive'
  BY <1>7 DEF DiskUntouched
<1>. QED  BY <1>3, <1>5, <1>6, <1>7

LEMMA NextUntouched ==
    BusInv /\ DiskUntouched /\ [BusNext]_<<vars, busVars>> => DiskUntouched'
<1>. SUFFICES ASSUME BusInv, DiskUntouched, [BusNext]_<<vars, busVars>>
              PROVE  DiskUntouched'
  OBVIOUS
<1>1. CASE UNCHANGED <<vars, busVars>>
  BY <1>1 DEF DiskUntouched, Alive, vars, busVars
<1>2. CASE BusNext
  <2>1. Alive /\ reply.status # "exit"
    BY <1>2 DEF BusNext
  <2>2. ASSUME UNCHANGED vars
        PROVE  DiskUntouched'
    BY <2>1, <2>2, UntouchedKept DEF vars
  <2>3. CASE StepPending
    BY <2>1, <2>2, <2>3, TranslatedUntouched DEF StepPending, StepRaw
  <2>4. CASE Manage
    BY <2>1, <2>4, ManageUntouched
  <2>5. CASE Reset
    BY <2>2, <2>5 DEF Reset
  <2>6. ASSUME NEW a \in Addresses, NEW n \in Sizes,
               StartRead(a, n) \/ \E data \in [a .. a + n - 1 -> Data] : StartWrite(a, data)
        PROVE  DiskUntouched'
    BY <2>2, <2>6 DEF StartRead, StartWrite
  <2>7. ASSUME NEW a \in Addresses, NEW n \in Sizes, NEW data, Unmapped(a, n, data)
        PROVE  DiskUntouched'
    BY <2>1, <2>7, UnmappedUntouched
  <2>. QED  BY <1>2, <2>3, <2>4, <2>5, <2>6, <2>7 DEF BusNext
<1>. QED  BY <1>1, <1>2

\* No page is in a frame of the disk while the program runs.
THEOREM FramesBeforeDisk == BusSpec => []DiskUntouched
<1>1. BusInit => DiskUntouched
  BY DEF BusInit, Init, DiskUntouched
<1>2. BusInv /\ DiskUntouched /\ [BusNext]_<<vars, busVars>> => DiskUntouched'
  BY NextUntouched
<1>. QED  BY <1>1, <1>2, BusInvariance, PTL DEF BusSpec

LEMMA Served ==
    ASSUME BusInv, DiskUntouched, Alive, reply.status # "exit", misplaced = {}
    PROVE  FrameList!CanFit(freelist, 1)
<1>1. MemoryPages \in DiskFrames \cap Frames
  BY BusAssumption, BusNumbers, VMAssumption DEF DiskFrames, Frames
<1>2. MemoryPages \in FrameList!FreeSet(freelist)
  BY <1>1 DEF BusInv, IInv, FramesKept, DiskUntouched
<1>3. FrameList!GoodList(freelist)
  BY DEF BusInv, IInv, ListsSound
<1>. QED  BY <1>2, <1>3, ListRanges, FrameList!SingleFits

\* So a page fault finds a free frame, and evict_ppage, which never returns, is not called,
\* unless remove_block has lost frames.
THEOREM FaultsAreServed ==
    BusSpec => [](Alive /\ reply.status # "exit" /\ misplaced = {} => FrameList!CanFit(freelist, 1))
<1>1. BusInv /\ DiskUntouched =>
         (Alive /\ reply.status # "exit" /\ misplaced = {} => FrameList!CanFit(freelist, 1))
  BY Served
<1>. QED  BY <1>1, BusInvariance, FramesBeforeDisk, PTL

-----------------------------------------------------------------------------
(* What the processes see. *)

\* The frames with one page at most.
Own == Backed \ misplaced

\* What a page with entry e holds if mem is in RAM and ROM and own is Own.
View(e, mem, own) == IF e.disk \/ e.ppage \notin own THEN Zeros ELSE mem[e.ppage]
Views == UNION {[D -> Page] : D \in SUBSET VPages}
Row(table, mem, own) == [v \in DOMAIN table |-> View(table[v], mem, own)]

LEMMA SameViews ==
    ASSUME NEW ps, NEW f \in [ps -> Views], NEW g \in [ps -> Views],
           \A q \in ps : DOMAIN f[q] = DOMAIN g[q] /\ \A v \in DOMAIN f[q] : f[q][v] = g[q][v]
    PROVE  f = g
<1>1. ASSUME NEW q \in ps
      PROVE  f[q] = g[q]
  <2>1. PICK D \in SUBSET VPages : f[q] \in [D -> Page]
    BY DEF Views
  <2>2. PICK E \in SUBSET VPages : g[q] \in [E -> Page]
    BY DEF Views
  <2>. QED  BY <2>1, <2>2
<1>. QED  BY <1>1

LEMMA RowFacts ==
    ASSUME NEW table \in PageTable, NEW mem \in [Backed -> Page], NEW own \in SUBSET Backed
    PROVE  /\ Row(table, mem, own) \in Views /\ DOMAIN Row(table, mem, own) = DOMAIN table
           /\ DOMAIN table \subseteq VPages
           /\ \A v \in DOMAIN table : Row(table, mem, own)[v] = View(table[v], mem, own)
<1>. DEFINE row == Row(table, mem, own)
<1>1. DOMAIN row = DOMAIN table /\ \A v \in DOMAIN table : row[v] = View(table[v], mem, own)
  BY DEF Row
<1>2. \A v \in DOMAIN table : View(table[v], mem, own) \in Page
  BY BusNumbers DEF View
<1>3. row \in [DOMAIN table -> Page] /\ DOMAIN table \in SUBSET VPages
  BY <1>2, TableFacts DEF Row
<1>. HIDE DEF row
<1>4. row \in Views
  BY <1>3 DEF Views
<1>. QED  BY <1>1, <1>3, <1>4 DEF row

\* The processes of the machine, and their pages.
LEMMA SeenFacts ==
    ASSUME BusInv
    PROVE  /\ PagesSeen \in [procs -> Views] /\ DOMAIN PagesSeen = procs /\ procs \subseteq Pids
           /\ \A q \in procs : \A v \in VPages :
                 v \in DOMAIN PagesSeen[q] <=> <<q, v>> \in AllPages
           /\ \A q \in procs : DOMAIN PagesSeen[q] \subseteq VPages
           /\ \A r \in AllPages :
                 /\ r = <<r[1], r[2]>> /\ r[1] \in procs /\ r[2] \in DOMAIN PagesSeen[r[1]]
                 /\ r[2] \in VPages
                 /\ PagesSeen[r[1]][r[2]] = View(EntryOf(r), memory, Own)
<1>. DEFINE row(q) == Row(entries[q], memory, Own)
<1>1. /\ procs \subseteq Pids /\ entries \in [Pids -> PageTable]
      /\ \A q \in Pids \ procs : DOMAIN entries[q] = {}
      /\ memory \in [Backed -> Page]
  BY DEF BusInv, IInv, TypeOK, TablesOfProcs, Page, EmptyTable
<1>1a. Own \in SUBSET Backed
  BY DEF Own
<1>2. PagesSeen = [q \in procs |-> row(q)]
  BY DEF PagesSeen, Row, Seen, View, EntryOf, Own
<1>3. \A q \in procs : /\ row(q) \in Views /\ DOMAIN row(q) = DOMAIN entries[q]
                         /\ DOMAIN row(q) \subseteq VPages
                         /\ \A v \in DOMAIN row(q) : row(q)[v] = View(entries[q][v], memory, Own)
  BY <1>1, <1>1a, RowFacts
<1>. HIDE DEF row
<1>4. /\ PagesSeen \in [procs -> Views] /\ DOMAIN PagesSeen = procs
      /\ \A q \in procs : PagesSeen[q] = row(q)
  BY <1>2, <1>3
<1>5. \A q \in procs : \A v \in VPages :
         v \in DOMAIN PagesSeen[q] <=> <<q, v>> \in AllPages
  BY <1>1, <1>3, <1>4 DEF AllPages
<1>6. \A q \in procs : DOMAIN PagesSeen[q] \subseteq VPages
  BY <1>3, <1>4
<1>7. ASSUME NEW r \in AllPages
      PROVE  /\ r = <<r[1], r[2]>> /\ r[1] \in procs /\ r[2] \in DOMAIN PagesSeen[r[1]]
             /\ r[2] \in VPages
             /\ PagesSeen[r[1]][r[2]] = View(EntryOf(r), memory, Own)
  <2>1. r = <<r[1], r[2]>> /\ r[1] \in Pids /\ r[2] \in VPages /\ r[2] \in DOMAIN entries[r[1]]
    BY DEF AllPages
  <2>2. r[1] \in procs
    BY <1>1, <2>1
  <2>3. PagesSeen[r[1]][r[2]] = View(entries[r[1]][r[2]], memory, Own)
    BY <1>3, <1>4, <2>1, <2>2
  <2>4. EntryOf(r) = entries[r[1]][r[2]]
    BY DEF EntryOf
  <2>. QED  BY <1>3, <1>4, <2>1, <2>2, <2>3, <2>4
<1>. QED  BY <1>1, <1>4, <1>5, <1>6, <1>7

\* The same after a step.
LEMMA SeenAfter ==
    ASSUME BusInv'
    PROVE  /\ PagesSeen' \in [procs' -> Views] /\ DOMAIN PagesSeen' = procs' /\ procs' \subseteq Pids
           /\ \A q \in procs' : \A v \in VPages :
                 v \in DOMAIN PagesSeen'[q] <=> <<q, v>> \in AllPages'
           /\ \A q \in procs' : DOMAIN PagesSeen'[q] \subseteq VPages
           /\ \A r \in AllPages' :
                 /\ r = <<r[1], r[2]>> /\ r[1] \in procs' /\ r[2] \in DOMAIN PagesSeen'[r[1]]
                 /\ r[2] \in VPages
                 /\ PagesSeen'[r[1]][r[2]] = View(EntryOf(r)', memory', Own')
<1>. DEFINE row(q) == Row(entries'[q], memory', Own')
<1>1. /\ procs' \subseteq Pids /\ entries' \in [Pids -> PageTable]
      /\ \A q \in Pids \ procs' : DOMAIN entries'[q] = {}
      /\ memory' \in [Backed -> Page]
  BY DEF BusInv, IInv, TypeOK, TablesOfProcs, Page, EmptyTable
<1>1a. Own' \in SUBSET Backed
  BY DEF Own
<1>2. PagesSeen' = [q \in procs' |-> row(q)]
  BY DEF PagesSeen, Row, Seen, View, EntryOf, Own
<1>3. \A q \in procs' : /\ row(q) \in Views /\ DOMAIN row(q) = DOMAIN entries'[q]
                         /\ DOMAIN row(q) \subseteq VPages
                         /\ \A v \in DOMAIN row(q) : row(q)[v] = View(entries'[q][v], memory', Own')
  BY <1>1, <1>1a, RowFacts
<1>. HIDE DEF row
<1>4. /\ PagesSeen' \in [procs' -> Views] /\ DOMAIN PagesSeen' = procs'
      /\ \A q \in procs' : PagesSeen'[q] = row(q)
  BY <1>2, <1>3
<1>5. \A q \in procs' : \A v \in VPages :
         v \in DOMAIN PagesSeen'[q] <=> <<q, v>> \in AllPages'
  BY <1>1, <1>3, <1>4 DEF AllPages
<1>6. \A q \in procs' : DOMAIN PagesSeen'[q] \subseteq VPages
  BY <1>3, <1>4
<1>7. ASSUME NEW r \in AllPages'
      PROVE  /\ r = <<r[1], r[2]>> /\ r[1] \in procs' /\ r[2] \in DOMAIN PagesSeen'[r[1]]
             /\ r[2] \in VPages
             /\ PagesSeen'[r[1]][r[2]] = View(EntryOf(r)', memory', Own')
  <2>1. r = <<r[1], r[2]>> /\ r[1] \in Pids /\ r[2] \in VPages /\ r[2] \in DOMAIN entries'[r[1]]
    BY DEF AllPages
  <2>2. r[1] \in procs'
    BY <1>1, <2>1
  <2>3. PagesSeen'[r[1]][r[2]] = View(entries'[r[1]][r[2]], memory', Own')
    BY <1>3, <1>4, <2>1, <2>2
  <2>4. EntryOf(r)' = entries'[r[1]][r[2]]
    BY DEF EntryOf
  <2>. QED  BY <1>3, <1>4, <2>1, <2>2, <2>3, <2>4
<1>. QED  BY <1>1, <1>4, <1>5, <1>6, <1>7

\* Pages are seen to be the same if none came or went and each holds the same.
LEMMA Unseen ==
    ASSUME BusInv, BusInv', UNCHANGED procs, AllPages' = AllPages,
           \A r \in AllPages : View(EntryOf(r)', memory', Own') = View(EntryOf(r), memory, Own)
    PROVE  PagesSeen' = PagesSeen
<1>1. PagesSeen \in [procs -> Views] /\ PagesSeen' \in [procs -> Views]
  BY SeenFacts, SeenAfter
<1>2. ASSUME NEW q \in procs
      PROVE  /\ DOMAIN PagesSeen'[q] = DOMAIN PagesSeen[q]
             /\ \A v \in DOMAIN PagesSeen[q] : PagesSeen'[q][v] = PagesSeen[q][v]
  <2>1. DOMAIN PagesSeen[q] \subseteq VPages /\ DOMAIN PagesSeen'[q] \subseteq VPages
    BY <1>1 DEF Views
  <2>2. DOMAIN PagesSeen'[q] = DOMAIN PagesSeen[q]
    BY <2>1, SeenFacts, SeenAfter
  <2>3. ASSUME NEW v \in DOMAIN PagesSeen[q]
        PROVE  PagesSeen'[q][v] = PagesSeen[q][v]
    <3>. DEFINE r == <<q, v>>
    <3>1. r \in AllPages /\ r[1] = q /\ r[2] = v
      BY <2>1, SeenFacts
    <3>. QED  BY <3>1, SeenFacts, SeenAfter
  <2>. QED  BY <2>2, <2>3
<1>. QED  BY <1>1, <1>2, SameViews

\* The same word for the same thing in ProcessMemory and here.
LEMMA AbstractNames ==
    /\ Abstract!Idle = Idle /\ Abstract!Blank = Zeros
    /\ Abstract!Here = Here /\ Abstract!HerePage = HerePage
    /\ \A how, data : Abstract!Answer(how, data) = Answer(how, data)
    /\ \A data : Abstract!Continue(data) <=> Continue(data)
    /\ \A new, old : Abstract!Over(new, old) = Over(new, old)
<1>1. Abstract!Idle = Idle /\ Abstract!Blank = Zeros
  BY DEF Abstract!Idle, Idle, Abstract!Blank, Zeros
<1>2. Abstract!Here = Here /\ Abstract!HerePage = HerePage
  BY DEF Abstract!Here, Here, Abstract!HerePage, HerePage, Abstract!PageAt, PageOf
<1>3. \A how, data : Abstract!Answer(how, data) = Answer(how, data)
  BY DEF Abstract!Answer, Answer
<1>4. \A data : Abstract!Continue(data) <=> Continue(data)
  BY DEF Abstract!Continue, Continue, Abstract!Answer, Answer, Abstract!Idle, Idle
<1>5. \A new, old : Abstract!Over(new, old) = Over(new, old)
  BY DEF Abstract!Over, Over
<1>. QED  BY <1>1, <1>2, <1>3, <1>4, <1>5

LEMMA AbstractParts ==
    ASSUME NEW kind \in {"read", "write"}, NEW a \in Nat, NEW n \in 1 .. PageBytes
    PROVE  Abstract!Parts(kind, a, n) = Parts(kind, a, n)
<1>. DEFINE each == [k \in 1 .. n |-> {a + k - 1}]
            span == a .. a + n - 1
<1>1. CASE PageOf(a) = PageOf(a + n - 1)
  BY <1>1 DEF Abstract!Parts, Parts, Abstract!PageAt, PageOf
<1>2. CASE PageOf(a) # PageOf(a + n - 1)
  <2>1. n \in Nat
    BY BusNumbers
  <2>2. each \in Seq(SUBSET Int) /\ Len(each) = n
    BY <2>1, SeqDef, LenProperties
  <2>3. Abstract!Reverse(each) = [k \in 1 .. n |-> {a + n - k}]
    BY <2>1, <2>2 DEF Abstract!Reverse
  <2>4. Abstract!Parts(kind, a, n) = IF kind = "write" THEN each ELSE Abstract!Reverse(each)
    BY <1>2 DEF Abstract!Parts, Abstract!PageAt, PageOf
  <2>5. Parts(kind, a, n) = IF kind = "write" THEN each ELSE [k \in 1 .. n |-> {a + n - k}]
    BY <1>2 DEF Parts
  <2>. QED  BY <2>3, <2>4, <2>5
<1>. QED  BY <1>1, <1>2

LEMMA AbstractCardinality == \A S : Abstract!Cardinality(S) = Cardinality(S)
BY DEF Abstract!Cardinality, Cardinality

-----------------------------------------------------------------------------
(* An access to a page of one's own. *)

LEMMA SameSeen ==
    ASSUME UNCHANGED <<procs, entries, memory, misplaced>>
    PROVE  PagesSeen' = PagesSeen /\ Lost' = Lost /\ Shared' = Shared
BY DEF PagesSeen, Seen, EntryOf, Lost, Shared, Resident, AllPages

\* A misplaced frame is one of RAM and ROM.
LEMMA OwnFacts ==
    ASSUME BusInv
    PROVE  misplaced \subseteq Backed /\ \A f \in Backed : f \in misplaced \/ f \in Own
BY DEF BusInv, Own

LEMMA SameGiven ==
    ASSUME Lost' = Lost, Shared' = Shared, UNCHANGED misplaced
    PROVE  UNCHANGED Abstract!given
BY DEF Abstract!given

LEMMA RefusedFacts ==
    ASSUME NEW how \in {"throw", "exit"}, Answered(how)
    PROVE  pending' = Abstract!Idle /\ reply' \in Abstract!Refusals
BY AbstractNames DEF Answered, Abstract!Refusals

LEMMA StartRefines ==
    ASSUME BusInv, pending = Idle, NEW a \in Addresses, NEW n \in Sizes,
           StartRead(a, n) \/ \E data \in [a .. a + n - 1 -> Data] : StartWrite(a, data)
    PROVE  Abstract!Start
<1>1. a \in Nat /\ n \in 1 .. PageBytes
  BY AddressFacts, SizeFacts
<1>2. CASE StartRead(a, n)
  <2>1. UNCHANGED vars /\ UNCHANGED memory /\ reply' = Answer("ok", <<>>)
        /\ pending' = [kind |-> "read", todo |-> Parts("read", a, n), data |-> <<>>]
    BY <1>2 DEF StartRead
  <2>2. UNCHANGED <<cur, PagesSeen, Lost>>
    BY <2>1, SameSeen DEF vars
  <2>2a. UNCHANGED Abstract!given /\ Abstract!Forgets
    BY <2>1, SameSeen, SameGiven, ForeignSame DEF vars, Abstract!Forgets
  <2>3. pending' = [kind |-> "read", todo |-> Abstract!Parts("read", a, n), data |-> <<>>]
    BY <1>1, <2>1, AbstractParts
  <2>. QED  BY <2>1, <2>2, <2>2a, <2>3, AbstractNames DEF Abstract!Start
<1>3. ASSUME NEW data \in [a .. a + n - 1 -> Data], StartWrite(a, data)
      PROVE  Abstract!Start
  <2>1. Cardinality(DOMAIN data) = n /\ data \in [a .. a + n - 1 -> Byte]
    BY <1>1, SpanFacts, BusNumbers
  <2>2. UNCHANGED vars /\ UNCHANGED memory /\ reply' = Answer("ok", <<>>)
        /\ pending' = [kind |-> "write", todo |-> Parts("write", a, n), data |-> data]
    BY <1>3, <2>1 DEF StartWrite
  <2>3. UNCHANGED <<cur, PagesSeen, Lost>>
    BY <2>2, SameSeen DEF vars
  <2>3a. UNCHANGED Abstract!given /\ Abstract!Forgets
    BY <2>2, SameSeen, SameGiven, ForeignSame DEF vars, Abstract!Forgets
  <2>4. pending' = [kind |-> "write", todo |-> Abstract!Parts("write", a, n), data |-> data]
    BY <1>1, <2>2, AbstractParts
  <2>. QED  BY <2>1, <2>2, <2>3, <2>3a, <2>4, AbstractNames DEF Abstract!Start
<1>. QED  BY <1>2, <1>3

\* A page of the process is reached in the frame it has, and holds what it was seen to.
LEMMA ReachOwn ==
    ASSUME BusInv, BusInv', Alive, pending # Idle, cur # NoProcess, UNCHANGED <<procs, cur, misplaced>>,
           NEW page \in AllPages, page = <<cur, HerePage>>, AllPages' = AllPages,
           NEW f \in Own, EntryOf(page)'.ppage = f, ~EntryOf(page)'.disk,
           NEW mem \in [Backed -> Page], Reach(f, mem),
           \A r \in AllPages : View(EntryOf(r)', mem, Own') = View(EntryOf(r), memory, Own),
           \A r \in AllPages \ {page} : EntryOf(r)'.disk \/ EntryOf(r)'.ppage # f,
           Lost' = Lost, page \notin Lost, Shared' = Shared, page \notin Shared
    PROVE  Abstract!StepOwn
<1>0. f \in Backed /\ Own' = Own /\ UNCHANGED Abstract!given
  BY SameGiven DEF Own
<1>. DEFINE old == PagesSeen[cur][HerePage]
<1>1. /\ Underway(pending) /\ HerePage \in Nat /\ cur \in procs /\ cur \in Pids
      /\ Here \subseteq Nat /\ Here # {} /\ \A a \in Here : PageOf(a) = HerePage
      /\ pending.kind \in {"read", "write"}
      /\ pending.kind = "write" => Here \subseteq DOMAIN pending.data
      /\ DOMAIN pending.data \subseteq Nat
      /\ \A a \in DOMAIN pending.data : pending.data[a] \in Byte
  BY UnderwayFacts, HereFacts DEF Underway
<1>2. page[1] = cur /\ page[2] = HerePage
  OBVIOUS
<1>3. /\ HerePage \in DOMAIN PagesSeen[cur] /\ HerePage \in VPages
      /\ DOMAIN PagesSeen = procs /\ old = View(EntryOf(page), memory, Own)
  BY <1>2, SeenFacts
<1>4. Abstract!OwnPage
  BY <1>1, <1>3, AbstractNames DEF Abstract!OwnPage
<1>5. mem[f] = old /\ mem[f] \in Page
  <2>1. View(EntryOf(page)', mem, Own') = mem[f]
    BY <1>0 DEF View
  <2>. HIDE DEF old
  <2>. QED  BY <1>0, <1>2, <1>3, <2>1
<1>6. CASE pending.kind = "read"
  <2>. DEFINE seen == [a \in Here |-> mem[f][a % PageBytes]]
  <2>1. memory' = mem /\ Continue(Over(seen, pending.data))
    BY <1>0, <1>6 DEF Reach
  <2>2. PagesSeen' = PagesSeen
    BY <2>1, Unseen
  <2>3. Abstract!Seen = seen
    BY <1>5, AbstractNames DEF Abstract!Seen
  <2>. HIDE DEF seen
  <2>4. Abstract!Continue(Abstract!Over(Abstract!Seen, pending.data))
    BY <2>1, <2>3, AbstractNames
  <2>. QED  BY <1>0, <1>4, <1>6, <2>2, <2>4, AbstractNames DEF Abstract!StepOwn, Abstract!Row
<1>7. CASE pending.kind = "write"
  <2>. DEFINE d == [a \in Here |-> pending.data[a]]
              written == Abstract!Written(old)
              row == [PagesSeen[cur] EXCEPT ![HerePage] = written]
              new == [PagesSeen EXCEPT ![cur] = row]
  <2>1. memory' = Put(mem, f, d) /\ Continue(pending.data)
    BY <1>0, <1>7 DEF Reach
  <2>2. /\ DOMAIN d = Here /\ DOMAIN d \subseteq Nat /\ \A a \in DOMAIN d : d[a] \in Byte
        /\ \A a \in Here : d[a] = pending.data[a]
    BY <1>1, <1>7
  <2>. HIDE DEF d, written, row, new
  <2>3. /\ \A g \in Backed \ {f} : memory'[g] = mem[g]
        /\ memory'[f] \in Page
        /\ \A o \in 0 .. PageBytes - 1 :
              memory'[f][o] = IF HerePage * PageBytes + o \in Here
                              THEN pending.data[HerePage * PageBytes + o] ELSE mem[f][o]
    <3>1. /\ Put(mem, f, d) \in [Backed -> Page]
          /\ \A g \in Backed \ {f} : Put(mem, f, d)[g] = mem[g]
          /\ \A o \in 0 .. PageBytes - 1 :
                Put(mem, f, d)[f][o] = IF HerePage * PageBytes + o \in DOMAIN d
                                       THEN d[HerePage * PageBytes + o] ELSE mem[f][o]
      <4>1. \A a \in DOMAIN d : PageOf(a) = HerePage
        BY <1>1, <2>2
      <4>. DEFINE q == HerePage
      <4>2. q \in Nat /\ \A a \in DOMAIN d : PageOf(a) = q
        BY <1>1, <4>1
      <4>. HIDE DEF q
      <4>3. /\ Put(mem, f, d) \in [Backed -> Page]
            /\ \A g \in Backed \ {f} : Put(mem, f, d)[g] = mem[g]
        BY <1>0, <2>2, <4>2, PutFacts
      <4>4. \A o \in 0 .. PageBytes - 1 :
                Put(mem, f, d)[f][o] = IF q * PageBytes + o \in DOMAIN d
                                       THEN d[q * PageBytes + o] ELSE mem[f][o]
        BY <1>0, <2>2, <4>2, PutFacts
      <4>. QED  BY <4>3, <4>4 DEF q
    <3>. QED  BY <1>0, <2>1, <2>2, <3>1
  <2>4. written = memory'[f]
    <3>1. /\ DOMAIN old = 0 .. PageBytes - 1 /\ DOMAIN memory'[f] = 0 .. PageBytes - 1
          /\ memory'[f] = [o \in 0 .. PageBytes - 1 |-> memory'[f][o]]
      BY <1>5, <2>3 DEF Page
    <3>2. written = [o \in 0 .. PageBytes - 1 |->
                       IF HerePage * PageBytes + o \in Here
                       THEN pending.data[HerePage * PageBytes + o] ELSE old[o]]
      BY <3>1, AbstractNames DEF Abstract!Written, written
    <3>. HIDE DEF old
    <3>. QED  BY <1>5, <2>3, <3>1, <3>2
  <2>5. PagesSeen \in [procs -> Views] /\ PagesSeen' \in [procs -> Views]
    BY SeenFacts, SeenAfter
  <2>6. /\ row \in Views /\ DOMAIN row = DOMAIN PagesSeen[cur] /\ row[HerePage] = written
        /\ \A v \in DOMAIN row : v # HerePage => row[v] = PagesSeen[cur][v]
    <3>1. PICK D \in SUBSET VPages : PagesSeen[cur] \in [D -> Page]
      BY <1>1, <2>5 DEF Views
    <3>. USE DEF row
    <3>2. row \in [D -> Page]
      BY <2>3, <2>4, <3>1
    <3>3. row \in Views
      BY <3>2 DEF Views
    <3>. QED  BY <1>3, <3>1, <3>3
  <2>7. new \in [procs -> Views] /\ new[cur] = row /\ \A q \in procs \ {cur} : new[q] = PagesSeen[q]
    BY <1>1, <2>5, <2>6 DEF new
  <2>8. ASSUME NEW q \in procs
        PROVE  /\ DOMAIN PagesSeen'[q] = DOMAIN new[q]
               /\ \A v \in DOMAIN PagesSeen'[q] : PagesSeen'[q][v] = new[q][v]
    <3>1. DOMAIN new[q] = DOMAIN PagesSeen[q]
      BY <2>6, <2>7
    <3>2. DOMAIN PagesSeen[q] \subseteq VPages /\ DOMAIN PagesSeen'[q] \subseteq VPages
      BY SeenFacts, SeenAfter
    <3>3. DOMAIN PagesSeen'[q] = DOMAIN PagesSeen[q]
      BY <3>2, SeenFacts, SeenAfter
    <3>4. ASSUME NEW v \in DOMAIN PagesSeen'[q]
          PROVE  PagesSeen'[q][v] = new[q][v]
      <4>. DEFINE r == <<q, v>>
      <4>1. r \in AllPages /\ r[1] = q /\ r[2] = v
        BY <3>2, SeenAfter
      <4>2. /\ PagesSeen'[q][v] = View(EntryOf(r)', memory', Own')
            /\ PagesSeen[q][v] = View(EntryOf(r), memory, Own)
        BY <4>1, SeenFacts, SeenAfter
      <4>3. CASE r = page
        <5>1. q = cur /\ v = HerePage
          BY <4>3
        <5>2. View(EntryOf(r)', memory', Own') = memory'[f]
          BY <1>0, <4>3 DEF View
        <5>. QED  BY <2>4, <2>6, <2>7, <4>2, <5>1, <5>2
      <4>4. CASE r # page
        <5>1. EntryOf(r)'.disk \/ EntryOf(r)'.ppage # f
          BY <4>1, <4>4
        <5>2. View(EntryOf(r)', memory', Own') = View(EntryOf(r)', mem, Own')
          BY <1>0, <2>3, <5>1 DEF View, Own
        <5>3. PagesSeen'[q][v] = PagesSeen[q][v]
          BY <4>1, <4>2, <5>2
        <5>4. new[q][v] = PagesSeen[q][v]
          BY <2>6, <2>7, <3>1, <3>3, <4>4
        <5>. QED  BY <5>3, <5>4
      <4>. QED  BY <4>3, <4>4
    <3>. QED  BY <3>1, <3>3, <3>4
  <2>9. PagesSeen' = new
    BY <2>5, <2>7, <2>8, SameViews
  <2>10. PagesSeen' = [PagesSeen EXCEPT ![cur][HerePage] = Abstract!Written(@)]
    BY <2>9 DEF new, row, written
  <2>. QED  BY <1>0, <1>4, <1>7, <2>1, <2>10, AbstractNames DEF Abstract!StepOwn, Abstract!Row
<1>. QED  BY <1>1, <1>6, <1>7

LEMMA RowsFacts ==
    ASSUME BusInv
    PROVE  Abstract!Rows(PagesSeen) = AllPages /\ IsFiniteSet(AllPages)
<1>1. \A r \in Pids \X VPages :
         r \in AllPages <=> r[1] \in DOMAIN PagesSeen /\ r[2] \in DOMAIN PagesSeen[r[1]]
  <2>. SUFFICES ASSUME NEW r \in Pids \X VPages
                PROVE  r \in AllPages <=> r[1] \in DOMAIN PagesSeen /\ r[2] \in DOMAIN PagesSeen[r[1]]
    OBVIOUS
  <2>1. r = <<r[1], r[2]>> /\ r[1] \in Pids /\ r[2] \in VPages
    OBVIOUS
  <2>. QED  BY <2>1, SeenFacts
<1>2. Abstract!Rows(PagesSeen) = AllPages
  BY <1>1 DEF Abstract!Rows, AllPages
<1>3. IsFiniteSet(VPages)
  <2>1. NFrames - 1 \in Int /\ 0 \in Int
    BY BusNumbers
  <2>2. IsFiniteSet(Frames)
    BY <2>1, FS_Interval DEF Frames
  <2>. QED  BY <2>2, BusNumbers, FS_Subset
<1>4. IsFiniteSet(Pids)
  <2>1. MaxProcesses - 1 \in Int /\ 0 \in Int
    BY VMAssumption
  <2>. QED  BY <2>1, FS_Interval DEF Pids
<1>5. IsFiniteSet(Pids \X VPages)
  BY <1>3, <1>4, FS_Product
<1>. QED  BY <1>2, <1>5, FS_Subset DEF AllPages

\* A page gets no memory only when RAM and ROM are full of other pages, if none of them
\* was misplaced.
LEMMA Crowded ==
    ASSUME BusInv, Alive, misplaced = {}, NEW page \in AllPages, page \notin Resident,
           NEW f \in Frames, f \notin Backed, \A g \in Frames : g < f => used[g]
    PROVE  Cardinality(AllPages) > MemoryPages
<1>. DEFINE each == 0 .. MemoryPages
            match == {m \in each \X AllPages :
                        IF m[1] = MemoryPages THEN m[2] = page
                        ELSE m[2] \in Resident /\ EntryOf(m[2]).ppage = m[1]}
<1>1. MemoryPages \in Nat /\ IsFiniteSet(each) /\ Cardinality(each) = MemoryPages + 1
  BY BusNumbers, FS_Interval
<1>2. ASSUME NEW g \in each
      PROVE  \E r \in AllPages : <<g, r>> \in match
  <2>1. CASE g = MemoryPages
    BY <2>1
  <2>2. CASE g # MemoryPages
    <3>1. g \in Frames /\ g < f
      BY <1>1, <2>2, BusNumbers DEF Frames
    <3>2. used[g]
      BY <3>1
    <3>3. \E r \in Resident : EntryOf(r).ppage = g
      BY <3>1, <3>2, LiveFacts DEF BusInv
    <3>. QED  BY <2>2, <3>3 DEF Resident
  <2>. QED  BY <2>1, <2>2
<1>3. ASSUME NEW g \in each, NEW h \in each, NEW r \in AllPages, <<g, r>> \in match, <<h, r>> \in match
      PROVE  g = h
  BY <1>3
<1>4. IsFiniteSet(AllPages)
  BY RowsFacts
<1>. HIDE DEF match, each
<1>5. Cardinality(each) <= Cardinality(AllPages)
  BY <1>2, <1>3, <1>4, MatchBound
<1>6. Cardinality(AllPages) \in Nat
  BY <1>4, FS_CardinalityType
<1>. QED  BY <1>1, <1>5, <1>6

LEMMA FailRefines ==
    ASSUME NEW f, f \notin Backed, NEW mem, Reach(f, mem)
    PROVE  memory' = memory /\ pending' = Abstract!Idle /\ reply' \in Abstract!Refusals
<1>1. Answered(Unroutable(f)) /\ memory' = memory
  BY DEF Reach
<1>. QED  BY <1>1, UnroutableFacts, RefusedFacts

-----------------------------------------------------------------------------
(* Physical accesses, and those of a page that others have too. *)

\* Memory that differs from mem in the bytes of data only is seen in so many bytes: no two
\* pages have the same frame, but for misplaced ones, in which nothing is seen.  The addresses
\* in data that reach frame f are those of page from[f].
PokedFrom(before, mem, data, from) ==
    /\ from \in [Backed -> Nat] /\ \A f, g \in Backed : from[f] = from[g] => f = g
    /\ before \in [procs' -> Views]
    /\ \A q \in procs' : DOMAIN before[q] = DOMAIN PagesSeen'[q]
    /\ \A r \in AllPages' : before[r[1]][r[2]] = View(EntryOf(r)', mem, Own')
    /\ DOMAIN data \subseteq Nat /\ IsFiniteSet(DOMAIN data)
    /\ \A f \in Backed : \A o \in 0 .. PageBytes - 1 :
         memory'[f][o] = IF from[f] * PageBytes + o \in DOMAIN data
                         THEN data[from[f] * PageBytes + o] ELSE mem[f][o]

LEMMA PokedFacts ==
    ASSUME BusInv', Alive', NEW mem \in [Backed -> Page], NEW before, NEW data, NEW from,
           PokedFrom(before, mem, data, from)
    PROVE  Abstract!Poked(before, data)
<1>. USE DEF PokedFrom
<1>. DEFINE places == Abstract!Rows(before) \X (0 .. PageBytes - 1)
            changed == {c \in places : PagesSeen'[c[1][1]][c[1][2]][c[2]] # before[c[1][1]][c[1][2]][c[2]]}
            at(c) == from[EntryOf(c[1])'.ppage] * PageBytes + c[2]
            match == {m \in changed \X DOMAIN data : m[2] = at(m[1])}
<1>1. /\ PagesSeen' \in [procs' -> Views] /\ DOMAIN PagesSeen' = procs' /\ DOMAIN before = procs'
      /\ memory' \in [Backed -> Page]
  BY SeenAfter DEF BusInv, Page
<1>2. Abstract!Rows(before) \subseteq AllPages'
  <2>1. ASSUME NEW r \in Abstract!Rows(before)
        PROVE  r \in AllPages'
    <3>1. r \in Pids \X VPages /\ r[1] \in procs' /\ r[2] \in DOMAIN PagesSeen'[r[1]]
      BY <1>1 DEF Abstract!Rows
    <3>2. r = <<r[1], r[2]>> /\ r[2] \in VPages
      BY <3>1
    <3>. QED  BY <3>1, <3>2, SeenAfter
  <2>. QED  BY <2>1
<1>3. ASSUME NEW c \in changed
      PROVE  /\ c[1] \in Resident' /\ EntryOf(c[1])'.ppage \in Own' /\ EntryOf(c[1])'.ppage \in Backed
             /\ c[2] \in 0 .. PageBytes - 1 /\ c = <<c[1], c[2]>>
             /\ at(c) \in DOMAIN data /\ PagesSeen'[c[1][1]][c[1][2]][c[2]] = data[at(c)]
             /\ at(c) \in Nat /\ PageOf(at(c)) = from[EntryOf(c[1])'.ppage] /\ at(c) % PageBytes = c[2]
  <2>1. PICK r, o : r = c[1] /\ o = c[2]
    OBVIOUS
  <2>2. r \in AllPages' /\ o \in 0 .. PageBytes - 1 /\ c = <<r, o>>
    BY <1>2, <2>1
  <2>3. PagesSeen'[r[1]][r[2]][o] # before[r[1]][r[2]][o]
    BY <2>1
  <2>4. /\ PagesSeen'[r[1]][r[2]] = View(EntryOf(r)', memory', Own')
        /\ before[r[1]][r[2]] = View(EntryOf(r)', mem, Own')
    BY <2>2, SeenAfter
  <2>5. ~EntryOf(r)'.disk /\ EntryOf(r)'.ppage \in Own'
    BY <2>3, <2>4 DEF View
  <2>6. PICK f \in Backed : f = EntryOf(r)'.ppage
    BY <2>5 DEF Own
  <2>7. memory'[f][o] # mem[f][o] /\ PagesSeen'[r[1]][r[2]][o] = memory'[f][o]
    BY <2>3, <2>4, <2>5, <2>6 DEF View
  <2>8. from[f] \in Nat
    OBVIOUS
  <2>. DEFINE a == from[f] * PageBytes + o
  <2>9. a \in Nat /\ PageOf(a) = from[f] /\ a % PageBytes = o
    BY <2>2, <2>8, AddressOf
  <2>10. memory'[f][o] = IF a \in DOMAIN data THEN data[a] ELSE mem[f][o]
    BY <2>2
  <2>11. at(c) = a
    BY <2>1, <2>6
  <2>. HIDE DEF a, at, changed
  <2>12. a \in DOMAIN data /\ memory'[f][o] = data[a]
    BY <2>7, <2>10
  <2>13. r \in Resident'
    BY <2>2, <2>5 DEF Resident
  <2>. QED  BY <2>1, <2>2, <2>5, <2>6, <2>7, <2>8, <2>9, <2>11, <2>12, <2>13
<1>. HIDE DEF at, changed
<1>4. ASSUME NEW c \in changed
      PROVE  \E a \in DOMAIN data : <<c, a>> \in match
  BY <1>3
<1>5. ASSUME NEW c \in changed, NEW d \in changed, NEW a \in DOMAIN data,
             <<c, a>> \in match, <<d, a>> \in match
      PROVE  c = d
  <2>1. at(c) = at(d)
    BY <1>5
  <2>2. EntryOf(c[1])'.ppage = EntryOf(d[1])'.ppage /\ c[2] = d[2]
    BY <1>3, <2>1
  <2>3. \A x, y \in Resident' :
           EntryOf(x)'.ppage = EntryOf(y)'.ppage => x = y \/ EntryOf(x)'.ppage \in misplaced'
    BY DEF BusInv, IInv, FramesKept
  <2>4. EntryOf(c[1])'.ppage \notin misplaced'
    BY <1>3 DEF Own
  <2>. QED  BY <1>3, <2>2, <2>3, <2>4
<1>. HIDE DEF match
<1>6. Cardinality(changed) <= Cardinality(DOMAIN data)
  BY <1>4, <1>5, MatchBound
<1>7. \A c \in changed : \E a \in DOMAIN data :
         a % PageBytes = c[2] /\ PagesSeen'[c[1][1]][c[1][2]][c[2]] = data[a]
  BY <1>3
<1>8. /\ DOMAIN PagesSeen' = DOMAIN before
      /\ \A pid \in DOMAIN before : DOMAIN PagesSeen'[pid] = DOMAIN before[pid]
      /\ Abstract!Cardinality(changed) <= Abstract!Cardinality(DOMAIN data)
  BY <1>1, <1>6, AbstractCardinality
<1>. QED  BY <1>7, <1>8 DEF Abstract!Poked, changed

\* Nothing was written: that is a change of any bytes.
LEMMA PokedNone ==
    ASSUME NEW before, PagesSeen' = before, NEW data, IsFiniteSet(DOMAIN data)
    PROVE  Abstract!Poked(before, data)
<1>. DEFINE places == Abstract!Rows(before) \X (0 .. PageBytes - 1)
            changed == {c \in places : PagesSeen'[c[1][1]][c[1][2]][c[2]] # before[c[1][1]][c[1][2]][c[2]]}
<1>1. changed = {}
  OBVIOUS
<1>2. Cardinality(changed) = 0 /\ Cardinality(DOMAIN data) \in Nat
  BY <1>1, FS_EmptySet, FS_CardinalityType
<1>3. Abstract!Cardinality(changed) <= Abstract!Cardinality(DOMAIN data)
  BY <1>2, AbstractCardinality
<1>. QED  BY <1>1, <1>3 DEF Abstract!Poked

\* What an access does to the frame it reaches, and to no other.
LEMMA ReachedBytes ==
    ASSUME BusInv, Alive, pending # Idle, NEW f \in Backed, NEW mem \in [Backed -> Page], Reach(f, mem)
    PROVE  /\ \E seen \in [Abstract!Here -> Byte] :
                 Abstract!Continue(IF pending.kind = "write" THEN pending.data
                                   ELSE Abstract!Over(seen, pending.data))
           /\ \A g \in Backed \ {f} : memory'[g] = mem[g]
           /\ pending.kind \in {"read", "write"}
           /\ pending.kind = "read" => memory' = mem
           /\ pending.kind = "write" =>
                \A o \in 0 .. PageBytes - 1 :
                   memory'[f][o] = IF HerePage * PageBytes + o \in Here
                                   THEN pending.data[HerePage * PageBytes + o] ELSE mem[f][o]
<1>1. /\ HerePage \in Nat
      /\ Here \subseteq Nat /\ \A a \in Here : PageOf(a) = HerePage
      /\ pending.kind \in {"read", "write"}
      /\ pending.kind = "write" => Here \subseteq DOMAIN pending.data
      /\ \A a \in DOMAIN pending.data : pending.data[a] \in Byte
  BY UnderwayFacts, HereFacts DEF Underway
<1>2. CASE pending.kind = "read"
  <2>. DEFINE seen == [a \in Here |-> mem[f][a % PageBytes]]
  <2>1. memory' = mem /\ Continue(Over(seen, pending.data))
    BY <1>2 DEF Reach
  <2>2. seen \in [Here -> Byte]
    BY <1>1, PlaceFacts DEF Page
  <2>. HIDE DEF seen
  <2>3. \E s \in [Abstract!Here -> Byte] : Abstract!Continue(Abstract!Over(s, pending.data))
    BY <2>1, <2>2, AbstractNames
  <2>. QED  BY <1>2, <2>1, <2>3
<1>3. CASE pending.kind = "write"
  <2>. DEFINE d == [a \in Here |-> pending.data[a]]
  <2>1. memory' = Put(mem, f, d) /\ Continue(pending.data)
    BY <1>3 DEF Reach
  <2>2. /\ DOMAIN d = Here /\ \A a \in Here : d[a] = pending.data[a]
        /\ DOMAIN d \subseteq Nat /\ \A a \in DOMAIN d : d[a] \in Byte
    BY <1>1, <1>3
  <2>. HIDE DEF d
  <2>3. PICK q \in Nat : q = HerePage
    BY <1>1
  <2>4. \A a \in DOMAIN d : PageOf(a) = q
    BY <1>1, <2>2, <2>3
  <2>5. \A g \in Backed \ {f} : Put(mem, f, d)[g] = mem[g]
    BY <2>2, <2>4, PutFacts
  <2>6. \A o \in 0 .. PageBytes - 1 :
            Put(mem, f, d)[f][o] = IF q * PageBytes + o \in DOMAIN d
                                   THEN d[q * PageBytes + o] ELSE mem[f][o]
    BY <2>2, <2>4, PutFacts
  <2>7. [a \in Abstract!Here |-> 0] \in [Abstract!Here -> Byte]
    BY BusNumbers
  <2>8. Abstract!Continue(pending.data)
    BY <2>1, AbstractNames
  <2>9. \E s \in [Abstract!Here -> Byte] :
           Abstract!Continue(IF pending.kind = "write" THEN pending.data
                             ELSE Abstract!Over(s, pending.data))
    BY <1>3, <2>7, <2>8
  <2>. QED  BY <1>3, <2>1, <2>2, <2>3, <2>5, <2>6, <2>9
<1>. QED  BY <1>1, <1>2, <1>3

\* A physical address, or one an old translation gives, reaches a frame whoever has it.
LEMMA RawReached ==
    ASSUME BusInv, BusInv', Alive, Alive', pending # Idle,
           UNCHANGED <<procs, entries, cur, misplaced>>,
           NEW f \in Backed, Reach(f, memory), cur = NoProcess \/ Abstract!Row \in Foreign
    PROVE  Abstract!StepRaw
<1>1. memory \in [Backed -> Page] /\ Underway(pending)
  BY UnderwayFacts
<1>2. UNCHANGED Abstract!given
  BY SameGiven DEF Lost, Shared, Resident, AllPages, EntryOf
<1>3. /\ HerePage \in Nat
      /\ Here \subseteq Nat /\ IsFiniteSet(Here) /\ \A a \in Here : PageOf(a) = HerePage
  BY <1>1, HereFacts
<1>4. /\ \E seen \in [Abstract!Here -> Byte] :
            Abstract!Continue(IF pending.kind = "write" THEN pending.data
                              ELSE Abstract!Over(seen, pending.data))
      /\ \A g \in Backed \ {f} : memory'[g] = memory[g]
      /\ pending.kind \in {"read", "write"}
      /\ pending.kind = "read" => memory' = memory
      /\ pending.kind = "write" =>
           \A o \in 0 .. PageBytes - 1 :
              memory'[f][o] = IF HerePage * PageBytes + o \in Here
                              THEN pending.data[HerePage * PageBytes + o] ELSE memory[f][o]
  BY <1>1, ReachedBytes
<1>5. CASE pending.kind = "read"
  <2>1. UNCHANGED PagesSeen
    BY <1>4, <1>5, SameSeen
  <2>. QED  BY <1>2, <1>4, <1>5, <2>1 DEF Abstract!StepRaw
<1>6. CASE pending.kind = "write"
  <2>. DEFINE d == [a \in Here |-> pending.data[a]]
              from == [g \in Backed |-> IF g = f THEN HerePage ELSE IF g = HerePage THEN f ELSE g]
  <2>1. DOMAIN d = Here /\ \A a \in Here : d[a] = pending.data[a]
    OBVIOUS
  <2>2. Abstract!Here = Here /\ d = [a \in Abstract!Here |-> pending.data[a]]
    BY AbstractNames
  <2>. HIDE DEF d
  <2>3. /\ from \in [Backed -> Nat] /\ from[f] = HerePage
        /\ \A g \in Backed \ {f} : from[g] # HerePage
        /\ \A g, h \in Backed : from[g] = from[h] => g = h
    <3>1. Backed \subseteq Nat
      BY BusNumbers
    <3>. QED  BY <1>3, <3>1
  <2>. HIDE DEF from
  <2>4. ASSUME NEW g \in Backed, NEW o \in 0 .. PageBytes - 1
        PROVE  memory'[g][o] = IF from[g] * PageBytes + o \in DOMAIN d
                               THEN d[from[g] * PageBytes + o] ELSE memory[g][o]
    <3>1. CASE g = f
      <4>1. memory'[f][o] = IF HerePage * PageBytes + o \in Here
                            THEN pending.data[HerePage * PageBytes + o] ELSE memory[f][o]
        BY <1>4, <1>6
      <4>. QED  BY <2>1, <2>3, <3>1, <4>1
    <3>2. CASE g # f
      <4>1. memory'[g] = memory[g]
        BY <1>4, <3>2
      <4>2. PageOf(from[g] * PageBytes + o) = from[g] /\ from[g] # HerePage
        BY <2>3, <3>2, AddressOf
      <4>3. from[g] * PageBytes + o \notin DOMAIN d
        BY <1>3, <2>1, <4>2
      <4>. QED  BY <4>1, <4>3
    <3>. QED  BY <3>1, <3>2
  <2>5. \A q \in procs' : DOMAIN PagesSeen[q] = DOMAIN PagesSeen'[q]
    BY DEF PagesSeen
  <2>6. \A r \in AllPages' : PagesSeen[r[1]][r[2]] = View(EntryOf(r)', memory, Own')
    <3>1. AllPages' = AllPages /\ Own' = Own /\ \A r : EntryOf(r)' = EntryOf(r)
      BY DEF AllPages, EntryOf, Own
    <3>. QED  BY <3>1, SeenFacts
  <2>7. PagesSeen \in [procs' -> Views]
    BY SeenFacts
  <2>8. DOMAIN d \subseteq Nat /\ IsFiniteSet(DOMAIN d)
    BY <1>3, <2>1
  <2>9. PokedFrom(PagesSeen, memory, d, from)
    BY <2>3, <2>4, <2>5, <2>6, <2>7, <2>8 DEF PokedFrom
  <2>10. Abstract!Poked(PagesSeen, d)
    BY <1>1, <2>9, PokedFacts
  <2>. QED  BY <1>2, <1>4, <1>6, <2>2, <2>10 DEF Abstract!StepRaw
<1>. QED  BY <1>4, <1>5, <1>6

\* A page in a misplaced frame is reached: nothing of it is seen.
LEMMA SharedRefines ==
    ASSUME BusInv, BusInv', Alive, pending # Idle, cur # NoProcess, UNCHANGED <<procs, cur, misplaced>>,
           NEW page \in AllPages, page = <<cur, HerePage>>, AllPages' = AllPages,
           NEW f \in misplaced, EntryOf(page)'.ppage = f, ~EntryOf(page)'.disk,
           NEW mem \in [Backed -> Page], Reach(f, mem),
           \A r \in AllPages : View(EntryOf(r)', mem, Own') = View(EntryOf(r), memory, Own),
           Lost' = Lost, Shared' \in {Shared, Shared \cup {page}}
    PROVE  Abstract!StepShared
<1>1. f \in Backed /\ Own' = Own /\ f \notin Own /\ misplaced # {}
  BY OwnFacts DEF Own
<1>2. Abstract!OwnPage /\ Abstract!Row = page
  <2>1. page[1] = cur /\ page[2] = HerePage
    OBVIOUS
  <2>. QED  BY <2>1, SeenFacts, AbstractNames DEF Abstract!OwnPage, Abstract!Row
<1>3. page \in Shared'
  BY DEF Shared, Resident
<1>4. /\ \E seen \in [Abstract!Here -> Byte] :
            Abstract!Continue(IF pending.kind = "write" THEN pending.data
                              ELSE Abstract!Over(seen, pending.data))
      /\ \A g \in Backed \ {f} : memory'[g] = mem[g]
  BY <1>1, ReachedBytes
<1>5. ASSUME NEW r \in AllPages
      PROVE  View(EntryOf(r)', memory', Own') = View(EntryOf(r), memory, Own)
  <2>1. View(EntryOf(r)', memory', Own') = View(EntryOf(r)', mem, Own')
    BY <1>1, <1>4 DEF View, Own
  <2>. QED  BY <2>1
<1>6. PagesSeen' = PagesSeen
  BY <1>5, Unseen
<1>. QED  BY <1>1, <1>2, <1>3, <1>4, <1>6 DEF Abstract!StepShared

LEMMA RawRefines ==
    ASSUME BusInv, BusInv', Alive, pending # Idle, StepRaw
    PROVE  Abstract!Step
<1>1. /\ UNCHANGED vars /\ cur = NoProcess /\ Reach(HerePage, memory) /\ pending # Abstract!Idle
  BY AbstractNames DEF StepRaw
<1>2. UNCHANGED <<procs, cur, entries, misplaced>> /\ Alive' /\ Abstract!Forgets
  BY <1>1, ForeignSame DEF vars, Alive, Abstract!Forgets
<1>3. CASE HerePage \notin Backed
  <2>1. memory' = memory /\ pending' = Abstract!Idle /\ reply' \in Abstract!Refusals
    BY <1>1, <1>3, FailRefines
  <2>2. PagesSeen' = PagesSeen /\ UNCHANGED Abstract!given
    BY <1>2, <2>1, SameSeen, SameGiven
  <2>3. ~Abstract!OwnPage
    BY <1>1 DEF Abstract!OwnPage
  <2>4. Abstract!Fail
    BY <1>2, <2>1, <2>2, <2>3 DEF Abstract!Fail, Abstract!given
  <2>. QED  BY <1>1, <1>2, <2>4 DEF Abstract!Step
<1>4. CASE HerePage \in Backed
  <2>1. PICK f \in Backed : f = HerePage
    BY <1>4
  <2>2. Abstract!StepRaw
    BY <1>1, <1>2, <2>1, RawReached
  <2>. QED  BY <1>1, <1>2, <2>2 DEF Abstract!Step
<1>. QED  BY <1>3, <1>4

-----------------------------------------------------------------------------
(* An access of a process. *)

LEMMA TranslatedRefines ==
    ASSUME BusInv, BusInv', DiskUntouched, Alive, reply.status # "exit", pending # Idle, StepTranslated
    PROVE  Abstract!Step \/ Abstract!Collapse
<1>. DEFINE v == HerePage
            f == FrameOf(cur, v)
<1>1. /\ IInv /\ TypeOK /\ memory \in [Backed -> Page] /\ v \in Nat
      /\ cur # NoProcess /\ cur \in procs /\ cur \in Pids /\ misplaced \subseteq Backed
      /\ pending # Abstract!Idle
  BY UnderwayFacts, AbstractNames DEF StepTranslated, BusInv
<1>2. \/ (AccessHit(cur, v) \/ AccessResident(cur, v)) /\ Reach(f, memory)
      \/ PageIn(cur, v) /\ Reach(f, IF f \in Backed THEN Fetched(f) ELSE memory)
      \/ AccessUnmapped(cur, v) /\ Answered("throw") /\ UNCHANGED memory
      \/ (Evict(cur, v) \/ EvictThrows(cur, v)) /\ Answered("exit")
  BY DEF StepTranslated
<1>. HIDE DEF f
<1>2a. PICK p \in Pids, w \in Nat : p = cur /\ w = HerePage
  BY <1>1
<1>2b. PICK g, r : g = f /\ r = <<p, w>>
  OBVIOUS
<1>3. p = cur /\ w = HerePage /\ g = f /\ r = <<p, w>>
  BY <1>2a, <1>2b
<1>. HIDE DEF v
<1>4. r = <<cur, HerePage>> /\ v = w
  BY <1>3 DEF v
<1>5. Abstract!Row = r
  BY <1>4, AbstractNames DEF Abstract!Row
<1>6. ASSUME r \in AllPages
      PROVE  Abstract!OwnPage
  BY <1>1, <1>3, <1>4, <1>6, SeenFacts, AbstractNames DEF Abstract!OwnPage
<1>7. CASE (AccessHit(cur, v) \/ AccessResident(cur, v)) /\ Reach(f, memory)
  <2>1. /\ UNCHANGED <<procs, cur, entries, misplaced>> /\ Alive' /\ Abstract!Forgets
        /\ g \in Frames /\ (r \in Foreign \/ (r \in Resident /\ EntryOf(r).ppage = g))
    BY <1>1, <1>3, <1>4, <1>7, HitFacts, ResidentFacts DEF f, Abstract!Forgets
  <2>2. /\ AllPages' = AllPages /\ Resident' = Resident /\ \A x : EntryOf(x)' = EntryOf(x)
        /\ Lost' = Lost /\ Shared' = Shared /\ Own' = Own
    BY <2>1 DEF AllPages, Resident, EntryOf, Lost, Shared, Own
  <2>3. Reach(g, memory)
    BY <1>3, <1>7
  <2>4. CASE g \notin Backed
    <3>1. memory' = memory /\ pending' = Abstract!Idle /\ reply' \in Abstract!Refusals
      BY <2>3, <2>4, FailRefines
    <3>2. PagesSeen' = PagesSeen /\ UNCHANGED Abstract!given
      BY <2>1, <2>2, <3>1, SameSeen, SameGiven
    <3>3. r \in Foreign \/ (Abstract!OwnPage /\ r \in Lost)
      BY <1>6, <2>1, <2>4 DEF Lost, Resident
    <3>4. Abstract!Fail
      BY <1>5, <2>1, <3>1, <3>2, <3>3 DEF Abstract!Fail, Abstract!given
    <3>. QED  BY <1>1, <2>1, <3>4 DEF Abstract!Step
  <2>5. CASE g \in Backed /\ r \in Foreign
    <3>1. Abstract!StepRaw
      BY <1>5, <2>1, <2>3, <2>5, RawReached
    <3>. QED  BY <1>1, <2>1, <3>1 DEF Abstract!Step
  <2>6. CASE g \in Backed /\ r \in Resident /\ EntryOf(r).ppage = g
    <3>1. /\ EntryOf(r)'.ppage = g /\ ~EntryOf(r)'.disk /\ r \notin Lost /\ r \in AllPages
      BY <2>2, <2>6 DEF Lost, Resident
    <3>2. \A x \in AllPages : View(EntryOf(x)', memory, Own') = View(EntryOf(x), memory, Own)
      BY <2>2
    <3>3. CASE g \in misplaced
      <4>1. Abstract!StepShared
        BY <1>1, <1>4, <2>1, <2>2, <2>3, <3>1, <3>2, <3>3, SharedRefines
      <4>. QED  BY <1>1, <2>1, <4>1 DEF Abstract!Step
    <3>4. CASE g \notin misplaced
      <4>1. \A x \in AllPages \ {r} : EntryOf(x)'.disk \/ EntryOf(x)'.ppage # g
        BY <1>1, <2>2, <2>6, <3>4, LiveFacts DEF Resident
      <4>2. g \in Own /\ r \notin Shared
        BY <2>6, <3>4 DEF Own, Shared
      <4>3. Abstract!StepOwn
        BY <1>1, <1>4, <2>1, <2>2, <2>3, <3>1, <3>2, <4>1, <4>2, ReachOwn
      <4>. QED  BY <1>1, <2>1, <4>3 DEF Abstract!Step
    <3>. QED  BY <3>3, <3>4
  <2>. QED  BY <2>1, <2>4, <2>5, <2>6
<1>8. CASE PageIn(cur, v) /\ Reach(f, IF f \in Backed THEN Fetched(f) ELSE memory)
  <2>1. /\ UNCHANGED <<procs, cur, misplaced>> /\ AllPages' = AllPages /\ Abstract!Forgets
        /\ r \in AllPages /\ EntryOf(r).disk
        /\ Resident' = Resident \cup {r}
        /\ \A x \in AllPages \ {r} : EntryOf(x)' = EntryOf(x)
        /\ EntryOf(r)'.ppage = g /\ g \in Frames
        /\ g \notin misplaced => \A x \in Resident : EntryOf(x).ppage # g
        /\ misplaced = {} => \A h \in Frames : h < g => used[h]
    <3>1. PageIn(p, w) /\ FrameOf(p, w) = g
      BY <1>3, <1>4, <1>8 DEF f
    <3>. QED  BY <1>1, <1>3, <3>1, FaultFacts DEF Abstract!Forgets
  <2>2. r \notin Resident /\ r \notin Lost /\ r \notin Shared /\ ~EntryOf(r)'.disk /\ Own' = Own
    BY <2>1 DEF Resident, Lost, Shared, Own
  <2>2a. \A x \in Resident : EntryOf(x)' = EntryOf(x)
    BY <2>1, <2>2 DEF Resident
  <2>3. CASE g \notin Backed
    <3>1. memory' = memory /\ pending' = Abstract!Idle /\ reply' \in Abstract!Refusals
      BY <1>3, <1>8, <2>3, FailRefines
    <3>2. PagesSeen' = PagesSeen
      <4>1. View(EntryOf(r)', memory', Own') = View(EntryOf(r), memory, Own)
        BY <2>1, <2>2, <2>3 DEF View, Own
      <4>2. \A x \in AllPages : View(EntryOf(x)', memory', Own') = View(EntryOf(x), memory, Own)
        BY <2>1, <2>2, <3>1, <4>1
      <4>. QED  BY <2>1, <4>2, Unseen
    <3>3. Lost' = Lost \cup {r}
      BY <2>1, <2>2, <2>2a, <2>3 DEF Lost
    <3>3a. Shared' = Shared
      BY <1>1, <2>1, <2>2, <2>2a, <2>3 DEF Shared
    <3>4. misplaced = {} => Abstract!Cardinality(Abstract!Rows(PagesSeen)) > MemoryPages
      <4>. SUFFICES ASSUME misplaced = {}
                    PROVE  Abstract!Cardinality(Abstract!Rows(PagesSeen)) > MemoryPages
        OBVIOUS
      <4>1. Cardinality(AllPages) > MemoryPages
        BY <2>1, <2>2, <2>3, Crowded
      <4>. QED  BY <4>1, RowsFacts, AbstractCardinality
    <3>5. Abstract!Fail
      BY <1>5, <1>6, <2>1, <3>1, <3>2, <3>3, <3>3a, <3>4 DEF Abstract!Fail
    <3>. QED  BY <1>1, <2>1, <3>5 DEF Abstract!Step
  <2>4. CASE g \in Backed
    <3>1. Reach(g, Fetched(g))
      BY <1>3, <1>8, <2>4
    <3>2. /\ Fetched(g) \in [Backed -> Page] /\ Fetched(g)[g] = Zeros
          /\ \A h \in Backed \ {g} : Fetched(g)[h] = memory[h]
      BY <1>1, <2>4, FetchedFacts
    <3>3. Lost' = Lost
      BY <2>1, <2>2, <2>2a, <2>4 DEF Lost
    <3>4. View(EntryOf(r)', Fetched(g), Own') = View(EntryOf(r), memory, Own)
      BY <2>1, <2>2, <2>4, <3>2 DEF View
    <3>5. ASSUME NEW x \in AllPages, x # r
          PROVE  /\ EntryOf(x)' = EntryOf(x)
                 /\ EntryOf(x).disk \/ EntryOf(x).ppage # g \/ g \in misplaced
                 /\ View(EntryOf(x), Fetched(g), Own) = View(EntryOf(x), memory, Own)
      <4>1. EntryOf(x)' = EntryOf(x)
        BY <2>1, <3>5
      <4>2. EntryOf(x).disk \/ EntryOf(x).ppage # g \/ g \in misplaced
        BY <2>1 DEF Resident
      <4>3. g \in misplaced => g \notin Own
        BY DEF Own
      <4>4. Own \subseteq Backed
        BY DEF Own
      <4>. QED  BY <3>2, <4>1, <4>2, <4>3, <4>4 DEF View
    <3>6. \A x \in AllPages : View(EntryOf(x)', Fetched(g), Own') = View(EntryOf(x), memory, Own)
      BY <2>2, <3>4, <3>5
    <3>7. CASE g \in misplaced
      <4>1. Shared' = Shared \cup {r}
        BY <2>1, <2>2, <2>2a, <3>7 DEF Shared
      <4>2. Abstract!StepShared
        BY <1>1, <1>4, <2>1, <2>2, <3>1, <3>2, <3>3, <3>6, <3>7, <4>1, SharedRefines
      <4>. QED  BY <1>1, <2>1, <4>2 DEF Abstract!Step
    <3>8. CASE g \notin misplaced
      <4>1. \A x \in AllPages \ {r} : EntryOf(x)'.disk \/ EntryOf(x)'.ppage # g
        BY <3>5, <3>8
      <4>2. Shared' = Shared /\ g \in Own
        BY <2>1, <2>2, <2>2a, <2>4, <3>8 DEF Shared, Own
      <4>3. Abstract!StepOwn
        BY <1>1, <1>4, <2>1, <2>2, <3>1, <3>2, <3>3, <3>6, <4>1, <4>2, ReachOwn
      <4>. QED  BY <1>1, <2>1, <4>3 DEF Abstract!Step
    <3>. QED  BY <3>7, <3>8
  <2>. QED  BY <2>3, <2>4
<1>9. CASE AccessUnmapped(cur, v) /\ Answered("throw") /\ UNCHANGED memory
  <2>1. /\ UNCHANGED <<procs, cur, entries, misplaced, tlb>> /\ v \notin DOMAIN entries[cur]
    BY <1>9 DEF AccessUnmapped, Throw, tables, frames
  <2>2. PagesSeen' = PagesSeen /\ UNCHANGED Abstract!given /\ Abstract!Forgets
    BY <1>9, <2>1, SameSeen, SameGiven, ForeignSame DEF Abstract!Forgets
  <2>3. <<cur, HerePage>> \notin AllPages
    BY <1>4, <1>3, <2>1 DEF AllPages
  <2>4. ~Abstract!OwnPage
    <3>1. DOMAIN PagesSeen[cur] \subseteq VPages
      BY <1>1, SeenFacts
    <3>2. HerePage \notin DOMAIN PagesSeen[cur]
      BY <1>1, <2>3, <3>1, SeenFacts
    <3>. QED  BY <3>2, AbstractNames DEF Abstract!OwnPage
  <2>5. Abstract!Fail
    BY <1>9, <2>1, <2>2, <2>4, RefusedFacts DEF Abstract!Fail, Abstract!given
  <2>. QED  BY <1>1, <2>2, <2>5 DEF Abstract!Step
<1>10. CASE (Evict(cur, v) \/ EvictThrows(cur, v)) /\ Answered("exit")
  <2>1. ~FrameList!CanFit(freelist, 1)
    BY <1>10 DEF Evict, EvictThrows
  <2>2. misplaced # {}
    BY <2>1, Served
  <2>. QED  BY <1>10, <2>2, AbstractNames DEF Abstract!Collapse, Answered
<1>. QED  BY <1>2, <1>7, <1>8, <1>9, <1>10

-----------------------------------------------------------------------------
(* Processes and pages come and go. *)

\* The pages there were, and blank ones.
LEMMA WithFacts ==
    ASSUME BusInv, NEW pid \in procs, NEW added \in SUBSET VPages,
           \A v \in added : <<pid, v>> \notin AllPages
    PROVE  LET before == Abstract!With(pid, added)
           IN  /\ before \in [procs -> Views]
               /\ added \in SUBSET (VPages \ DOMAIN PagesSeen[pid])
               /\ \A q \in procs : DOMAIN before[q] \subseteq VPages
               /\ \A q \in procs : \A v \in VPages :
                     v \in DOMAIN before[q] <=> <<q, v>> \in AllPages \/ (q = pid /\ v \in added)
               /\ \A r \in AllPages : before[r[1]][r[2]] = View(EntryOf(r), memory, Own)
               /\ \A v \in added : before[pid][v] = Zeros
<1>. DEFINE blank == [v \in added |-> Abstract!Blank]
            row == Abstract!Over(blank, PagesSeen[pid])
            before == [PagesSeen EXCEPT ![pid] = row]
<1>1. Abstract!With(pid, added) = before
  BY DEF Abstract!With
<1>2. /\ PagesSeen \in [procs -> Views] /\ DOMAIN PagesSeen[pid] \subseteq VPages
      /\ \A v \in added : v \notin DOMAIN PagesSeen[pid]
  BY SeenFacts
<1>3. DOMAIN blank = added /\ \A v \in added : blank[v] = Zeros
  BY AbstractNames
<1>. HIDE DEF blank
<1>4. /\ DOMAIN row = added \cup DOMAIN PagesSeen[pid]
      /\ \A v \in added : row[v] = Zeros
      /\ \A v \in DOMAIN PagesSeen[pid] : row[v] = PagesSeen[pid][v]
  BY <1>2, <1>3 DEF Abstract!Over
<1>5. row = [v \in DOMAIN row |-> row[v]]
  BY DEF Abstract!Over
<1>. HIDE DEF row
<1>6. row \in Views
  <2>1. PICK D \in SUBSET VPages : PagesSeen[pid] \in [D -> Page]
    BY <1>2 DEF Views
  <2>2. \A v \in DOMAIN row : row[v] \in Page
    BY <1>4, <2>1, BusNumbers
  <2>3. DOMAIN row \in SUBSET VPages
    BY <1>2, <1>4
  <2>4. row \in [DOMAIN row -> Page]
    BY <1>5, <2>2
  <2>. QED  BY <2>3, <2>4 DEF Views
<1>7. /\ before \in [procs -> Views] /\ before[pid] = row
      /\ \A q \in procs \ {pid} : before[q] = PagesSeen[q]
  BY <1>2, <1>6
<1>. HIDE DEF before
<1>8. ASSUME NEW q \in procs
      PROVE  /\ DOMAIN before[q] \subseteq VPages
             /\ \A v \in VPages :
                   v \in DOMAIN before[q] <=> <<q, v>> \in AllPages \/ (q = pid /\ v \in added)
  <2>1. CASE q = pid
    BY <1>2, <1>4, <1>7, <2>1, SeenFacts
  <2>2. CASE q # pid
    BY <1>7, <2>2, SeenFacts
  <2>. QED  BY <2>1, <2>2
<1>9. ASSUME NEW r \in AllPages
      PROVE  before[r[1]][r[2]] = View(EntryOf(r), memory, Own)
  <2>1. /\ r = <<r[1], r[2]>> /\ r[1] \in procs /\ r[2] \in DOMAIN PagesSeen[r[1]]
        /\ PagesSeen[r[1]][r[2]] = View(EntryOf(r), memory, Own)
    BY SeenFacts
  <2>2. CASE r[1] = pid
    BY <1>4, <1>7, <2>1, <2>2
  <2>3. CASE r[1] # pid
    BY <1>7, <2>1, <2>3
  <2>. QED  BY <2>2, <2>3
<1>. QED  BY <1>1, <1>2, <1>4, <1>7, <1>8, <1>9

\* Pages that came are seen to be blank.
LEMMA Grown ==
    ASSUME BusInv, BusInv', UNCHANGED procs, NEW pid \in procs, NEW added \in SUBSET VPages,
           \A v \in added : <<pid, v>> \notin AllPages,
           AllPages' = AllPages \cup {<<pid, v>> : v \in added},
           \A r \in AllPages : View(EntryOf(r)', memory', Own') = View(EntryOf(r), memory, Own),
           \A v \in added : View(EntryOf(<<pid, v>>)', memory', Own') = Zeros
    PROVE  PagesSeen' = Abstract!With(pid, added)
<1>. DEFINE before == Abstract!With(pid, added)
<1>1. /\ before \in [procs -> Views]
      /\ \A q \in procs : DOMAIN before[q] \subseteq VPages
      /\ \A q \in procs : \A v \in VPages :
            v \in DOMAIN before[q] <=> <<q, v>> \in AllPages \/ (q = pid /\ v \in added)
      /\ \A r \in AllPages : before[r[1]][r[2]] = View(EntryOf(r), memory, Own)
      /\ \A v \in added : before[pid][v] = Zeros
  BY WithFacts
<1>. HIDE DEF before
<1>2. PagesSeen' \in [procs -> Views]
  BY SeenAfter
<1>3. ASSUME NEW q \in procs
      PROVE  /\ DOMAIN PagesSeen'[q] = DOMAIN before[q]
             /\ \A v \in DOMAIN PagesSeen'[q] : PagesSeen'[q][v] = before[q][v]
  <2>1. DOMAIN PagesSeen'[q] \subseteq VPages
    BY SeenAfter
  <2>2. ASSUME NEW v \in VPages
        PROVE  v \in DOMAIN PagesSeen'[q] <=> v \in DOMAIN before[q]
    <3>1. <<q, v>> \in {<<pid, w>> : w \in added} <=> q = pid /\ v \in added
      OBVIOUS
    <3>. QED  BY <1>1, <3>1, SeenAfter
  <2>3. DOMAIN PagesSeen'[q] = DOMAIN before[q]
    BY <1>1, <2>1, <2>2
  <2>4. ASSUME NEW v \in DOMAIN PagesSeen'[q]
        PROVE  PagesSeen'[q][v] = before[q][v]
    <3>. DEFINE r == <<q, v>>
    <3>1. r \in AllPages' /\ r[1] = q /\ r[2] = v
      BY <2>1, SeenAfter
    <3>2. PagesSeen'[q][v] = View(EntryOf(r)', memory', Own')
      BY <3>1, SeenAfter
    <3>3. CASE r \in AllPages
      <4>1. before[r[1]][r[2]] = View(EntryOf(r), memory, Own)
        BY <1>1, <3>3
      <4>. QED  BY <3>1, <3>2, <3>3, <4>1
    <3>4. CASE r \notin AllPages
      <4>1. q = pid /\ v \in added
        BY <3>1, <3>4
      <4>. QED  BY <1>1, <3>2, <4>1
    <3>. QED  BY <3>3, <3>4
  <2>. QED  BY <2>3, <2>4
<1>4. PagesSeen' = before
  BY <1>1, <1>2, <1>3, SameViews
<1>. QED  BY <1>4 DEF before

LEMMA AddRefines ==
    ASSUME BusInv, BusInv', Alive, NEW pid \in procs, NEW vs \in Ranges, AddVPages(pid, vs),
           UNCHANGED misplaced, Foreign' \subseteq Foreign, memory' = memory, Answered(IF Alive' THEN status' ELSE "exit")
    PROVE  Abstract!Add
<1>1. IInv /\ TypeOK /\ pid \in Pids
  BY DEF BusInv, IInv, TypeOK
<1>2. PICK s : GoodAdd(pid, s) /\ Added(pid, s)
  BY <1>1, AddPagesFacts
<1>. DEFINE added == NewPages(pid, s)
<1>3. /\ AllPages' = AllPages \cup {<<pid, v>> : v \in added}
      /\ Resident' = Resident /\ \A r \in AllPages : EntryOf(r)' = EntryOf(r)
  BY <1>1, <1>2, AddedIInv
<1>4. UNCHANGED <<procs, cur>> /\ entries' = [entries EXCEPT ![pid] = s.table]
  BY <1>2 DEF Added
<1>5. /\ added \in SUBSET VPages /\ \A v \in added : s.table[v].disk
      /\ \A v \in added : <<pid, v>> \notin AllPages
  <2>1. s.table \in PageTable
    BY <1>2 DEF GoodAdd, AddState
  <2>2. DOMAIN s.table \subseteq VPages
    BY <2>1, TableFacts
  <2>. QED  BY <1>2, <2>2 DEF NewPages, GoodAdd, AllPages
<1>6. entries'[pid] = s.table
  BY <1>1, <1>4 DEF TypeOK
<1>. HIDE DEF added
<1>7. \A v \in added : View(EntryOf(<<pid, v>>)', memory', Own') = Zeros
  BY <1>5, <1>6 DEF View, EntryOf
<1>7a. \A r \in AllPages : View(EntryOf(r)', memory', Own') = View(EntryOf(r), memory, Own)
  BY <1>3 DEF Own
<1>8. PagesSeen' = Abstract!With(pid, added)
  BY <1>3, <1>4, <1>5, <1>7, <1>7a, Grown
<1>9. UNCHANGED Abstract!given
  <2>1. Lost' = Lost /\ Shared' = Shared
    BY <1>3 DEF Lost, Shared, Resident
  <2>. QED  BY <2>1, SameGiven
<1>10. DOMAIN PagesSeen = procs /\ added \in SUBSET (VPages \ DOMAIN PagesSeen[pid])
  BY <1>5, SeenFacts, WithFacts
<1>11. reply' = Answer("ok", <<>>) \/ reply' \in Abstract!Refusals
  <2>1. (IF Alive' THEN status' ELSE "exit") \in {"ok", "throw", "exit"}
    BY DEF Alive
  <2>. QED  BY <2>1, AbstractNames DEF Answered, Abstract!Refusals
<1>. QED  BY <1>4, <1>8, <1>9, <1>10, <1>11, AbstractNames DEF Abstract!Add, Abstract!Returned, Abstract!Forgets

LEMMA BeginRefines ==
    ASSUME BusInv, Alive, BeginProcess, memory' = memory,
           Answered(IF Alive' THEN status' ELSE "exit")
    PROVE  Abstract!Begin
<1>1. PICK pid \in Pids \ procs : procs' = procs \cup {pid} /\ cur' = pid /\ entries' = entries
  BY BeginProcessIInv DEF BusInv
<1>2. /\ PagesSeen = [q \in procs |-> [v \in DOMAIN entries[q] |-> Seen(<<q, v>>)]]
      /\ PagesSeen' = [q \in procs' |-> [v \in DOMAIN entries'[q] |-> Seen(<<q, v>>)']]
  BY DEF PagesSeen
<1>1a. UNCHANGED <<misplaced, tlb>>
  BY DEF BeginProcess, frames
<1>3. \A r : Seen(r)' = Seen(r)
  BY <1>1, <1>1a DEF Seen, EntryOf
<1>4. DOMAIN entries[pid] = {}
  BY DEF BusInv, IInv, TablesOfProcs, EmptyTable
<1>5. \A q \in procs : PagesSeen'[q] = PagesSeen[q]
  BY <1>1, <1>2, <1>3
<1>6. PagesSeen'[pid] = [p \in {} |-> Abstract!Blank]
  BY <1>1, <1>2, <1>4
<1>7. DOMAIN PagesSeen = procs /\ DOMAIN PagesSeen' = procs \cup {pid}
      /\ PagesSeen' = [q \in procs \cup {pid} |-> PagesSeen'[q]]
  BY <1>1, <1>2
<1>8. PagesSeen' = [q \in procs \cup {pid} |-> IF q = pid THEN [p \in {} |-> Abstract!Blank]
                                               ELSE PagesSeen[q]]
  BY <1>5, <1>6, <1>7
<1>9. UNCHANGED Abstract!given
  <2>1. Lost' = Lost /\ Shared' = Shared
    BY <1>1, <1>1a DEF Lost, Shared, Resident, AllPages, EntryOf
  <2>. QED  BY <1>1a, <2>1, SameGiven
<1>10. reply' = Answer("ok", <<>>)
  BY DEF Answered, BeginProcess, Alive
<1>11. \A r \in Foreign' \ Foreign : r[1] = pid
  <2>. SUFFICES ASSUME NEW i \in DOMAIN tlb, Stale(tlb[i])', tlb[i].pid # pid
                PROVE  Stale(tlb[i])
    BY <1>1a DEF Foreign
  <2>1. Resident' = Resident /\ \A r : EntryOf(r)' = EntryOf(r)
    BY <1>1 DEF Resident, AllPages, EntryOf
  <2>. QED  BY <1>1, <1>1a, <2>1 DEF Stale, EntryOf
<1>. QED  BY <1>1, <1>7, <1>8, <1>9, <1>10, <1>11, AbstractNames DEF Abstract!Begin

LEMMA EndRefines ==
    ASSUME BusInv, Alive, NEW pid \in procs, EndProcess(pid), Foreign' \subseteq Foreign, memory' = memory,
           Answered(IF Alive' THEN status' ELSE "exit")
    PROVE  Abstract!End
<1>1. /\ procs' = procs \ {pid} /\ entries' = [entries EXCEPT ![pid] = EmptyTable]
      /\ cur' = (IF cur = pid THEN NoProcess ELSE cur) /\ status' = "ok" /\ UNCHANGED misplaced
  BY DEF EndProcess
<1>2. pid \in Pids /\ procs \subseteq Pids /\ entries \in [Pids -> PageTable] /\ TypeOK
  BY DEF BusInv, IInv, TypeOK
<1>3. /\ entries'[pid] = EmptyTable /\ \A q \in Pids \ {pid} : entries'[q] = entries[q]
      /\ DOMAIN EmptyTable = {}
  BY <1>1, <1>2 DEF EmptyTable
<1>4. /\ PagesSeen = [q \in procs |-> [v \in DOMAIN entries[q] |-> Seen(<<q, v>>)]]
      /\ PagesSeen' = [q \in procs' |-> [v \in DOMAIN entries'[q] |-> Seen(<<q, v>>)']]
  BY DEF PagesSeen
<1>5. ASSUME NEW q \in procs \ {pid}
      PROVE  PagesSeen'[q] = PagesSeen[q]
  <2>1. entries'[q] = entries[q]
    BY <1>2, <1>3
  <2>2. \A v : Seen(<<q, v>>)' = Seen(<<q, v>>)
    BY <1>1, <2>1 DEF Seen, EntryOf
  <2>. QED  BY <1>1, <1>4, <2>1, <2>2
<1>6. DOMAIN PagesSeen = procs /\ PagesSeen' = [q \in procs \ {pid} |-> PagesSeen'[q]]
  BY <1>1, <1>4
<1>7. PagesSeen' = [q \in procs \ {pid} |-> PagesSeen[q]]
  BY <1>5, <1>6
<1>8. Lost' = {r \in Lost : r[1] # pid} /\ Shared' = {r \in Shared : r[1] # pid}
  <2>1. ASSUME NEW r \in Pids \X VPages, r[1] # pid
        PROVE  EntryOf(r)' = EntryOf(r) /\ (r \in AllPages' <=> r \in AllPages)
    <3>1. entries'[r[1]] = entries[r[1]]
      BY <1>3, <2>1
    <3>. QED  BY <3>1 DEF EntryOf, AllPages
  <2>2. ASSUME NEW r \in AllPages'
        PROVE  r[1] # pid
    BY <1>3 DEF AllPages
  <2>3. AllPages \subseteq Pids \X VPages /\ AllPages' \subseteq Pids \X VPages
    BY DEF AllPages
  <2>. QED  BY <1>1, <2>1, <2>2, <2>3 DEF Lost, Shared, Resident
<1>9. reply' = Answer("ok", <<>>)
  BY <1>1 DEF Answered, Alive
<1>. QED  BY <1>1, <1>6, <1>7, <1>8, <1>9, AbstractNames DEF Abstract!End, Abstract!Forgets

\* A process whose pages have frames to give back ends, unless remove_block misplaced some.
LEMMA EndSucceeds ==
    ASSUME BusInv, Alive, misplaced = {}, NEW pid \in procs
    PROVE  FramesReturnable(pid)
<1>1. pid \in Pids /\ IInv /\ TypeOK
  BY DEF BusInv, IInv, TypeOK
<1>2. ASSUME NEW v \in DOMAIN entries[pid], ~entries[pid][v].disk
      PROVE  /\ <<pid, v>> \in Resident
             /\ EntryOf(<<pid, v>>).ppage = entries[pid][v].ppage
             /\ entries[pid][v].ppage \in Frames
  <2>1. <<pid, v>> \in AllPages /\ EntryOf(<<pid, v>>) = entries[pid][v] /\ EntryOf(<<pid, v>>) \in Entry
    BY <1>1, PageFacts
  <2>. QED  BY <1>2, <2>1 DEF Resident, Entry
<1>3. ASSUME NEW v \in DOMAIN entries[pid], ~entries[pid][v].disk
      PROVE  entries[pid][v].ppage \notin FrameList!FreeSet(freelist)
  BY <1>1, <1>2, <1>3, FreeFacts
<1>4. ASSUME NEW v \in DOMAIN entries[pid], NEW w \in DOMAIN entries[pid],
             ~entries[pid][v].disk, ~entries[pid][w].disk, entries[pid][v].ppage = entries[pid][w].ppage
      PROVE  v = w
  <2>1. \A r, s \in Resident : EntryOf(r).ppage = EntryOf(s).ppage => r = s
    BY <1>1, LiveFacts
  <2>2. /\ <<pid, v>> \in Resident /\ EntryOf(<<pid, v>>).ppage = entries[pid][v].ppage
        /\ <<pid, w>> \in Resident /\ EntryOf(<<pid, w>>).ppage = entries[pid][w].ppage
    BY <1>2, <1>4
  <2>3. PICK r, s : r = <<pid, v>> /\ s = <<pid, w>>
    OBVIOUS
  <2>4. r = s
    BY <1>4, <2>1, <2>2, <2>3
  <2>. QED  BY <2>3, <2>4
<1>. QED  BY <1>3, <1>4 DEF FramesReturnable, FramesOf

LEMMA ManageRefines ==
    ASSUME BusInv, BusInv', Alive, pending = Idle, Manage
    PROVE  \/ Abstract!Quiet /\ (Abstract!Begin \/ Abstract!Set \/ Abstract!End \/ Abstract!Add \/ Abstract!Refuse)
           \/ Abstract!Collapse
<1>1. /\ \/ BeginProcess
         \/ BeginThrows
         \/ \E pid \in procs : \/ SetProcess(pid) \/ EndProcess(pid) \/ EndThrows(pid)
                               \/ \E vs \in Ranges : AddVPages(pid, vs)
      /\ memory' = memory
      /\ Answered(IF Alive' THEN status' ELSE "exit")
  BY DEF Manage
<1>2. /\ Abstract!Quiet /\ UNCHANGED misplaced /\ pending' = Abstract!Idle
      /\ BeginProcess \/ Foreign' \subseteq Foreign
  BY <1>1, ManageVM, AbstractNames DEF Answered, Abstract!Quiet, BusInv
<1>3. CASE BeginThrows
  <2>1. UNCHANGED <<procs, entries, cur, tlb>> /\ Alive' /\ status' = "throw"
    BY <1>3 DEF BeginThrows, Throw, tables, Alive
  <2>2. PagesSeen' = PagesSeen /\ UNCHANGED Abstract!given
    BY <1>1, <1>2, <2>1, SameSeen, SameGiven
  <2>3. reply' = Answer("throw", <<>>)
    BY <1>1, <2>1 DEF Answered
  <2>4. Abstract!Forgets
    BY <2>1, ForeignSame DEF Abstract!Forgets
  <2>. QED  BY <1>2, <2>1, <2>2, <2>3, <2>4, AbstractNames DEF Abstract!Refuse
<1>4. ASSUME NEW pid \in procs, SetProcess(pid)
      PROVE  Abstract!Set
  <2>1. UNCHANGED <<procs, entries, tlb>> /\ Alive' /\ status' = "ok" /\ cur' = pid
    BY <1>4 DEF SetProcess, Alive
  <2>2. PagesSeen' = PagesSeen /\ UNCHANGED Abstract!given /\ DOMAIN PagesSeen = procs
    BY <1>1, <1>2, <2>1, SameSeen, SameGiven, SeenFacts
  <2>3. reply' = Answer("ok", <<>>)
    BY <1>1, <2>1 DEF Answered
  <2>4. Abstract!Forgets
    BY <2>1, ForeignSame DEF Abstract!Forgets
  <2>. QED  BY <2>1, <2>2, <2>3, <2>4, AbstractNames DEF Abstract!Set
<1>5. ASSUME NEW pid \in procs, EndThrows(pid)
      PROVE  Abstract!Collapse
  <2>1. misplaced # {}
    BY <1>5, EndSucceeds DEF EndThrows
  <2>2. reply' = Answer("exit", <<>>)
    BY <1>1, <1>5 DEF Answered, EndThrows, Alive
  <2>. QED  BY <1>2, <2>1, <2>2, AbstractNames DEF Abstract!Collapse
<1>6. ASSUME NEW pid \in procs, EndProcess(pid)
      PROVE  Abstract!End
  <2>1. Foreign' \subseteq Foreign
    <3>1. ~BeginProcess
      BY <1>6 DEF BeginProcess, EndProcess
    <3>. QED  BY <1>2, <3>1
  <2>. QED  BY <1>1, <1>6, <2>1, EndRefines
<1>7. ASSUME NEW pid \in procs, NEW vs \in Ranges, AddVPages(pid, vs)
      PROVE  Abstract!Add
  <2>1. Foreign' \subseteq Foreign
    <3>1. procs' = procs
      BY <1>7 DEF AddVPages, Added
    <3>2. ~BeginProcess
      BY <3>1, BeginProcessIInv DEF BusInv
    <3>. QED  BY <1>2, <3>2
  <2>. QED  BY <1>1, <1>2, <1>7, <2>1, AddRefines
<1>. QED  BY <1>1, <1>2, <1>3, <1>4, <1>5, <1>6, <1>7, BeginRefines

-----------------------------------------------------------------------------
(* Reset and unmapped accesses. *)

LEMMA ResetRefines ==
    ASSUME BusInv, BusInv', Alive, pending = Idle, Reset
    PROVE  Abstract!Quiet /\ Abstract!Reset
<1>. DEFINE spared == {RamPages - 1, MemoryPages - 1}
            kept == {r \in Resident : EntryOf(r).ppage \in spared /\ EntryOf(r).ppage \notin misplaced}
            match == {m \in kept \X spared : EntryOf(m[1]).ppage = m[2]}
            new == [pid \in procs |-> [p \in DOMAIN PagesSeen[pid] |->
                       IF <<pid, p>> \in kept THEN PagesSeen[pid][p] ELSE Abstract!Blank]]
<1>1. /\ memory' = [f \in Backed |-> IF f \notin spared THEN Zeros ELSE memory[f]]
      /\ reply' = Answer("ok", <<>>) /\ UNCHANGED vars /\ UNCHANGED pending
  BY DEF Reset, Cleared
<1>2. /\ UNCHANGED <<procs, cur, entries, tlb, misplaced>> /\ AllPages' = AllPages
      /\ \A r : EntryOf(r)' = EntryOf(r)
      /\ Lost' = Lost /\ Shared' = Shared /\ Own' = Own
  BY <1>1 DEF vars, Lost, Shared, Own, Resident, AllPages, EntryOf
<1>2a. UNCHANGED Abstract!given /\ Abstract!Forgets
  BY <1>2, SameGiven, ForeignSame DEF Abstract!Forgets
<1>3. IsFiniteSet(spared) /\ Cardinality(spared) <= 2
  <2>. DEFINE one == {RamPages - 1}
              x == MemoryPages - 1
  <2>1. IsFiniteSet(one) /\ Cardinality(one) = 1
    BY FS_Singleton
  <2>2. spared = one \cup {x}
    OBVIOUS
  <2>. HIDE DEF one, x, spared
  <2>3. IsFiniteSet(one \cup {x}) /\ Cardinality(one \cup {x}) <= 2
    BY <2>1, FS_AddElement
  <2>. QED  BY <2>2, <2>3
<1>4. Cardinality(kept) <= 2
  <2>1. \A r \in kept : \E f \in spared : <<r, f>> \in match
    OBVIOUS
  <2>2. \A r, s \in kept : \A f \in spared : <<r, f>> \in match /\ <<s, f>> \in match => r = s
    <3>1. \A r, s \in Resident :
             EntryOf(r).ppage = EntryOf(s).ppage => r = s \/ EntryOf(r).ppage \in misplaced
      BY LiveFacts DEF BusInv
    <3>. QED  BY <3>1
  <2>. HIDE DEF kept, spared, match
  <2>3. IsFiniteSet(kept) /\ Cardinality(kept) <= Cardinality(spared)
    BY <1>3, <2>1, <2>2, MatchBound
  <2>4. Cardinality(kept) \in Nat /\ Cardinality(spared) \in Nat
    BY <1>3, <2>3, FS_CardinalityType
  <2>. QED  BY <1>3, <2>3, <2>4
<1>5. kept \in SUBSET (Pids \X VPages)
  BY DEF Resident, AllPages
<1>6. ASSUME NEW r \in AllPages
      PROVE  View(EntryOf(r)', memory', Own') = IF r \in kept THEN View(EntryOf(r), memory, Own) ELSE Zeros
  <2>. HIDE DEF spared
  <2>1. CASE r \in kept
    <3>1. EntryOf(r).ppage \in spared
      BY <2>1
    <3>2. EntryOf(r).ppage \in Backed => memory'[EntryOf(r).ppage] = memory[EntryOf(r).ppage]
      BY <1>1, <3>1
    <3>3. Own \subseteq Backed
      BY DEF Own
    <3>. QED  BY <1>2, <2>1, <3>2, <3>3 DEF View
  <2>2. CASE r \notin kept
    <3>1. EntryOf(r).disk \/ EntryOf(r).ppage \notin spared \/ EntryOf(r).ppage \in misplaced
      BY <2>2 DEF Resident
    <3>2. EntryOf(r).disk \/ EntryOf(r).ppage \notin Own \/ memory'[EntryOf(r).ppage] = Zeros
      BY <1>1, <3>1 DEF Own
    <3>. QED  BY <1>2, <2>2, <3>2 DEF View
  <2>. QED  BY <2>1, <2>2
<1>. HIDE DEF kept
<1>7. PagesSeen \in [procs -> Views] /\ PagesSeen' \in [procs -> Views] /\ DOMAIN PagesSeen = procs
  BY <1>2, SeenFacts, SeenAfter
<1>8. ASSUME NEW q \in procs
      PROVE  new[q] \in Views /\ DOMAIN new[q] = DOMAIN PagesSeen[q]
  <2>1. PICK D \in SUBSET VPages : PagesSeen[q] \in [D -> Page]
    BY <1>7 DEF Views
  <2>2. new[q] \in [D -> Page]
    BY <2>1, BusNumbers, AbstractNames
  <2>3. new[q] \in Views
    BY <2>2 DEF Views
  <2>. QED  BY <2>1, <2>2, <2>3
<1>9. new \in [procs -> Views]
  BY <1>8
<1>10. ASSUME NEW q \in procs
       PROVE  /\ DOMAIN PagesSeen'[q] = DOMAIN new[q]
              /\ \A v \in DOMAIN PagesSeen'[q] : PagesSeen'[q][v] = new[q][v]
  <2>1. DOMAIN PagesSeen[q] \subseteq VPages /\ DOMAIN PagesSeen'[q] \subseteq VPages
    BY <1>2, SeenFacts, SeenAfter
  <2>2. DOMAIN PagesSeen'[q] = DOMAIN PagesSeen[q]
    BY <1>2, <2>1, SeenFacts, SeenAfter
  <2>3. ASSUME NEW v \in DOMAIN PagesSeen[q]
        PROVE  PagesSeen'[q][v] = new[q][v]
    <3>. DEFINE r == <<q, v>>
    <3>1. r \in AllPages /\ r[1] = q /\ r[2] = v
      BY <2>1, SeenFacts
    <3>2. /\ PagesSeen'[q][v] = View(EntryOf(r)', memory', Own')
          /\ PagesSeen[q][v] = View(EntryOf(r), memory, Own)
      BY <1>2, <3>1, SeenFacts, SeenAfter
    <3>3. new[q][v] = IF r \in kept THEN PagesSeen[q][v] ELSE Zeros
      BY AbstractNames
    <3>. HIDE DEF new
    <3>. QED  BY <1>6, <3>1, <3>2, <3>3
  <2>. QED  BY <1>8, <2>2, <2>3
<1>. HIDE DEF new
<1>11. PagesSeen' = new
  BY <1>7, <1>9, <1>10, SameViews
<1>12. DOMAIN PagesSeen' = DOMAIN PagesSeen
  BY <1>7
<1>13. Abstract!Cardinality(kept) <= 2
  BY <1>4, AbstractCardinality
<1>14. PagesSeen' = [pid \in DOMAIN PagesSeen |-> [p \in DOMAIN PagesSeen[pid] |->
                       IF <<pid, p>> \in kept THEN PagesSeen[pid][p] ELSE Abstract!Blank]]
  BY <1>7, <1>11 DEF new
<1>. QED  BY <1>1, <1>2, <1>2a, <1>5, <1>12, <1>13, <1>14, AbstractNames DEF Abstract!Quiet, Abstract!Reset

\* A page that a physical access gave a process may have memory that will be given again.
GivenAgain(before) ==
    /\ Lost' = Lost /\ Abstract!Forgets
    /\ \/ UNCHANGED Shared /\ UNCHANGED misplaced
       \/ \E r \in Abstract!Rows(before) \ Abstract!Rows(PagesSeen) :
            Shared' = Shared \cup {r} /\ misplaced' # {}

\* A physical access that is refused has changed nothing but the pages there are.
LEMMA RefusedPhysical ==
    ASSUME NEW before \in Abstract!Before, PagesSeen' = before, NEW a \in Addresses, NEW n \in Sizes,
           reply' \in Abstract!Refusals, UNCHANGED cur, GivenAgain(before)
    PROVE  Abstract!Physical
<1>. DEFINE span == a .. a + n - 1
            data == [b \in span |-> 0]
<1>1. data \in [span -> Byte] /\ IsFiniteSet(DOMAIN data)
  BY AddressFacts, SizeFacts, SpanFacts, BusNumbers
<1>2. Abstract!Poked(before, data)
  BY <1>1, PokedNone
<1>. HIDE DEF data
<1>. QED  BY <1>1, <1>2 DEF Abstract!Physical, GivenAgain

LEMMA RawPhysical ==
    ASSUME BusInv', Alive', NEW a \in Addresses, NEW n \in Sizes, InTarget(a, n),
           NEW data \in [a .. a + n - 1 -> Data] \cup {<<>>},
           NEW mem \in [Backed -> Page], ReachRaw(a, n, data, mem),
           PageOf(a) \notin Backed => mem = memory,
           NEW before \in Abstract!Before, before \in [procs' -> Views],
           \A q \in procs' : DOMAIN before[q] = DOMAIN PagesSeen'[q],
           \A r \in AllPages' : before[r[1]][r[2]] = View(EntryOf(r)', mem, Own'),
           UNCHANGED cur, GivenAgain(before)
    PROVE  Abstract!Physical /\ pending' = Idle
<1>. DEFINE span == a .. a + n - 1
            zero == [b \in span |-> 0]
            got == [b \in span |-> mem[PageOf(b)][b % PageBytes]]
<1>1. /\ a \in Nat /\ n \in 1 .. PageBytes
      /\ span \subseteq Nat /\ IsFiniteSet(span) /\ a \in span
  BY AddressFacts, SizeFacts, SpanFacts
<1>2. zero \in [span -> Byte] /\ DOMAIN zero = span
  BY BusNumbers
<1>3. ASSUME memory' = mem
      PROVE  PagesSeen' = before /\ Abstract!Poked(before, zero)
  <2>1. PagesSeen' \in [procs' -> Views]
    BY SeenAfter
  <2>2. ASSUME NEW q \in procs', NEW v \in DOMAIN PagesSeen'[q]
        PROVE  PagesSeen'[q][v] = before[q][v]
    <3>. DEFINE r == <<q, v>>
    <3>1. r \in AllPages' /\ r[1] = q /\ r[2] = v
      BY SeenAfter
    <3>. QED  BY <1>3, <3>1, SeenAfter
  <2>3. PagesSeen' = before
    BY <2>1, <2>2, SameViews
  <2>. HIDE DEF zero
  <2>. QED  BY <1>1, <1>2, <2>3, PokedNone
<1>. HIDE DEF zero
<1>4. CASE PageOf(a) \notin Backed
  <2>1. Answered(Unroutable(PageOf(a))) /\ memory' = mem
    BY <1>4 DEF ReachRaw
  <2>2. pending' = Idle /\ reply' \in Abstract!Refusals
    BY <2>1, UnroutableFacts, RefusedFacts DEF Answered
  <2>3. PagesSeen' = before
    BY <1>3, <2>1
  <2>. QED  BY <2>2, <2>3, RefusedPhysical
<1>5. CASE PageOf(a) \in Backed
  <2>1. /\ memory' = PutRaw(mem, data) /\ pending' = Idle
        /\ reply' = Answer("ok", IF data # <<>> THEN <<>> ELSE got)
    BY <1>5 DEF ReachRaw
  <2>2. got \in [span -> Byte]
    <3>. SUFFICES ASSUME NEW b \in span
                  PROVE  mem[PageOf(b)][b % PageBytes] \in Byte
      OBVIOUS
    <3>1. PageOf(a) <= PageOf(b) /\ PageOf(b) <= PageOf(a + n - 1)
      BY <1>1, SpanFacts
    <3>2. PageOf(a + n - 1) \in Backed
      BY <1>5 DEF InTarget
    <3>3. b \in Nat /\ PageOf(b) \in Nat /\ b % PageBytes \in 0 .. PageBytes - 1
      BY <1>1, PlaceFacts
    <3>4. PageOf(b) \in Backed
      BY <1>5, <3>1, <3>2, <3>3, BusNumbers
    <3>. QED  BY <3>3, <3>4 DEF Page
  <2>. HIDE DEF got
  <2>3. \E seen \in [span -> Byte] \cup {<<>>} : reply' = Abstract!Answer("ok", seen)
    BY <2>1, <2>2, AbstractNames
  <2>4. /\ DOMAIN data \subseteq span /\ DOMAIN data \subseteq Nat
        /\ \A b \in DOMAIN data : data[b] \in Byte
        /\ data = <<>> => DOMAIN data = {}
    BY <1>1, BytesFacts
  <2>5. /\ memory' \in [Backed -> Page]
        /\ \A f \in Backed : \A o \in 0 .. PageBytes - 1 :
              memory'[f][o] = IF f * PageBytes + o \in DOMAIN data
                              THEN data[f * PageBytes + o] ELSE mem[f][o]
    BY <2>1, <2>4, PutRawFacts
  <2>6. CASE data = <<>>
    <3>1. \A f \in Backed : memory'[f] \in Page /\ mem[f] \in Page
                            /\ \A o \in 0 .. PageBytes - 1 : memory'[f][o] = mem[f][o]
      BY <2>4, <2>5, <2>6
    <3>2. ASSUME NEW f \in Backed
          PROVE  memory'[f] = mem[f]
      <4>1. /\ memory'[f] = [o \in 0 .. PageBytes - 1 |-> memory'[f][o]]
            /\ mem[f] = [o \in 0 .. PageBytes - 1 |-> mem[f][o]]
        BY <3>1 DEF Page
      <4>. QED  BY <3>1, <4>1
    <3>3. memory' = mem
      BY <2>5, <3>2
    <3>4. Abstract!Poked(before, zero)
      BY <1>3, <3>3
    <3>. QED  BY <1>2, <2>1, <2>3, <3>4 DEF Abstract!Physical, GivenAgain
  <2>7. CASE data \in [span -> Data]
    <3>1. data \in [span -> Byte] /\ IsFiniteSet(DOMAIN data)
      BY <1>1, <2>4, <2>7, BusNumbers
    <3>2. Abstract!Poked(before, data)
      <4>1. DOMAIN data \subseteq Nat /\ IsFiniteSet(DOMAIN data)
        BY <2>4, <3>1
      <4>. DEFINE from == [f \in Backed |-> f]
      <4>2. \A f \in Backed : \A o \in 0 .. PageBytes - 1 :
               memory'[f][o] = IF from[f] * PageBytes + o \in DOMAIN data
                               THEN data[from[f] * PageBytes + o] ELSE mem[f][o]
        BY <2>5
      <4>3. from \in [Backed -> Nat] /\ \A f, g \in Backed : from[f] = from[g] => f = g
        BY BusNumbers
      <4>. HIDE DEF from
      <4>4. PokedFrom(before, mem, data, from)
        BY <4>1, <4>2, <4>3 DEF PokedFrom
      <4>. QED  BY <4>4, PokedFacts
    <3>. QED  BY <2>1, <2>3, <3>1, <3>2 DEF Abstract!Physical, GivenAgain
  <2>. QED  BY <2>6, <2>7
<1>. QED  BY <1>4, <1>5

LEMMA SameView ==
    ASSUME NEW e, NEW mem, NEW own, NEW mem2, NEW own2,
           e.disk \/ (/\ e.ppage \in own <=> e.ppage \in own2
                      /\ e.ppage \in own => mem[e.ppage] = mem2[e.ppage])
    PROVE  View(e, mem, own) = View(e, mem2, own2)
BY DEF View

\* map_ppage gave a page to a process before it failed, or went on.
LEMMA MappedRefines ==
    ASSUME BusInv, BusInv', Alive, pending = Idle, NEW a \in Addresses, NEW n \in Sizes, InTarget(a, n),
           NEW data \in [a .. a + n - 1 -> Data] \cup {<<>>},
           NEW p, p = PageOf(a), MapPPage(cur, p),
           IF ~Alive' THEN Answered("exit") /\ UNCHANGED memory
           ELSE ReachRaw(a, n, data, IF p \in Backed THEN Fetched(p) ELSE memory)
    PROVE  pending' = Idle /\ (Abstract!Physical \/ Abstract!Displace)
<1>. DEFINE page == <<p, PageForPid>>
            added == {PageForPid}
            before == Abstract!With(p, added)
<1>1. /\ IInv /\ TypeOK /\ memory \in [Backed -> Page] /\ cur \in Pids /\ p \in Frames
      /\ misplaced \subseteq Backed
  BY AddressFacts DEF BusInv, IInv, TypeOK, Page, MapPPage
<1>2. /\ UNCHANGED <<procs, cur>> /\ p \in procs
      /\ page \in Pids \X VPages /\ page \notin AllPages
      /\ ~Alive' => UNCHANGED misplaced
      /\ \/ ~Alive' /\ UNCHANGED <<entries, tlb>>
         \/ /\ AllPages' = AllPages \cup {page}
            /\ \/ /\ ~Alive' /\ EntryOf(page)'.disk
                  /\ \E r \in Resident :
                       /\ Resident' = Resident \ {r}
                       /\ \A x \in AllPages \ {r} : EntryOf(x)' = EntryOf(x)
               \/ /\ ~Alive'
                  /\ Resident' = Resident /\ UNCHANGED tlb
                  /\ \A x \in AllPages : EntryOf(x)' = EntryOf(x)
               \/ /\ Alive' /\ p = PageForPid
                  /\ Resident' = Resident \cup {page}
                  /\ EntryOf(page)'.ppage = p
                  /\ \A x \in AllPages : EntryOf(x)' = EntryOf(x)
                  /\ tlb' = tlb /\ misplaced' \in {misplaced, misplaced \cup {p}}
                  /\ p \notin misplaced => \A x \in Resident : EntryOf(x).ppage # p
  <2>1. PageForPid \in VPages /\ 2 * NFrames <= WordMod
    BY BusNumbers
  <2>. QED  BY <1>1, <2>1, MapPPageFacts
<1>3. /\ added \in SUBSET VPages /\ \A v \in added : <<p, v>> \notin AllPages
      /\ page[1] = p /\ page[2] = PageForPid
  BY <1>2, BusNumbers
<1>4. ~Alive' => /\ memory' = memory /\ pending' = Idle /\ reply' = Answer("exit", <<>>)
                 /\ reply' \in Abstract!Refusals
  BY RefusedFacts DEF Answered
<1>5. PagesSeen \in Abstract!Before
  BY DEF Abstract!Before
<1>6. CASE ~Alive' /\ UNCHANGED <<entries, tlb>>
  <2>1. PagesSeen' = PagesSeen /\ Lost' = Lost /\ Shared' = Shared /\ UNCHANGED misplaced
    BY <1>2, <1>4, <1>6, SameSeen
  <2>2. Foreign' = Foreign
    BY <1>2, <1>6, ForeignSame
  <2>3. GivenAgain(PagesSeen)
    BY <2>1, <2>2 DEF GivenAgain, Abstract!Forgets
  <2>4. Abstract!Physical
    BY <1>2, <1>4, <1>5, <1>6, <2>1, <2>3, RefusedPhysical
  <2>. QED  BY <1>4, <1>6, <2>4
<1>7. /\ before \in [procs -> Views]
      /\ added \in SUBSET (VPages \ DOMAIN PagesSeen[p])
      /\ \A q \in procs : DOMAIN before[q] \subseteq VPages
      /\ \A q \in procs : \A v \in VPages :
            v \in DOMAIN before[q] <=> <<q, v>> \in AllPages \/ (q = p /\ v \in added)
      /\ \A r \in AllPages : before[r[1]][r[2]] = View(EntryOf(r), memory, Own)
      /\ \A v \in added : before[p][v] = Zeros
  <2>. HIDE DEF added
  <2>. QED  BY <1>2, <1>3, WithFacts
<1>8. before \in Abstract!Before
  <2>1. DOMAIN PagesSeen = procs /\ PageForPid \in VPages \ DOMAIN PagesSeen[p]
    BY <1>7, SeenFacts
  <2>. DEFINE grown(pid) == {Abstract!With(pid, {x}) : x \in VPages \ DOMAIN PagesSeen[pid]}
  <2>2. before \in grown(p)
    BY <2>1
  <2>3. Abstract!Before = {PagesSeen} \cup UNION {grown(pid) : pid \in DOMAIN PagesSeen}
    BY DEF Abstract!Before
  <2>. HIDE DEF before, grown
  <2>. QED  BY <1>2, <2>1, <2>2, <2>3
<1>9. ASSUME AllPages' = AllPages \cup {page}, NEW q \in procs
      PROVE  DOMAIN before[q] = DOMAIN PagesSeen'[q]
  <2>1. \A v \in VPages : v \in DOMAIN before[q] <=> <<q, v>> \in AllPages'
    <3>. HIDE DEF before
    <3>. QED  BY <1>7, <1>9
  <2>2. DOMAIN PagesSeen'[q] \subseteq VPages
        /\ \A v \in VPages : v \in DOMAIN PagesSeen'[q] <=> <<q, v>> \in AllPages'
    BY <1>2, SeenAfter
  <2>. HIDE DEF before
  <2>. QED  BY <1>7, <2>1, <2>2
<1>. HIDE DEF before, added
<1>10. ASSUME ~Alive', AllPages' = AllPages \cup {page}, EntryOf(page)'.disk,
              NEW r \in Resident, Resident' = Resident \ {r},
              \A x \in AllPages \ {r} : EntryOf(x)' = EntryOf(x)
       PROVE  Abstract!Displace
  <2>. DEFINE row == [before[r[1]] EXCEPT ![r[2]] = Zeros]
              new == [before EXCEPT ![r[1]] = row]
  <2>0. Own' = Own /\ UNCHANGED misplaced
    BY <1>2, <1>10 DEF Own
  <2>1. /\ r \in AllPages /\ r = <<r[1], r[2]>> /\ r[1] \in procs /\ r[2] \in VPages
        /\ r \in Pids \X VPages
    BY SeenFacts DEF Resident, AllPages
  <2>2. r[2] \in DOMAIN before[r[1]]
    BY <1>7, <2>1
  <2>3. r \in Abstract!Rows(before)
    BY <1>7, <2>1, <2>2 DEF Abstract!Rows
  <2>4. /\ row \in Views /\ DOMAIN row = DOMAIN before[r[1]] /\ row[r[2]] = Zeros
        /\ \A v \in DOMAIN row : v # r[2] => row[v] = before[r[1]][v]
    <3>1. PICK D \in SUBSET VPages : before[r[1]] \in [D -> Page]
      BY <1>7, <2>1 DEF Views
    <3>2. row \in [D -> Page]
      BY <3>1, BusNumbers
    <3>3. row \in Views
      BY <3>2 DEF Views
    <3>. QED  BY <2>2, <3>1, <3>3
  <2>. HIDE DEF row
  <2>5. /\ new \in [procs -> Views] /\ new[r[1]] = row
        /\ \A q \in procs \ {r[1]} : new[q] = before[q]
    BY <1>7, <2>1, <2>4
  <2>. HIDE DEF new
  <2>6. PagesSeen' \in [procs -> Views]
    BY <1>2, SeenAfter
  <2>7. ASSUME NEW q \in procs
        PROVE  /\ DOMAIN PagesSeen'[q] = DOMAIN new[q]
               /\ \A v \in DOMAIN PagesSeen'[q] : PagesSeen'[q][v] = new[q][v]
    <3>1. DOMAIN PagesSeen'[q] = DOMAIN new[q]
      <4>1. DOMAIN new[q] = DOMAIN before[q]
        BY <2>4, <2>5
      <4>. QED  BY <1>9, <1>10, <4>1
    <3>2. ASSUME NEW v \in DOMAIN PagesSeen'[q]
          PROVE  PagesSeen'[q][v] = new[q][v]
      <4>. DEFINE x == <<q, v>>
      <4>1. v \in VPages /\ x \in AllPages' /\ x[1] = q /\ x[2] = v
        BY <1>2, SeenAfter
      <4>2. PagesSeen'[q][v] = View(EntryOf(x)', memory, Own')
        BY <1>4, <1>10, <4>1, SeenAfter
      <4>3. CASE x = r
        <5>1. EntryOf(x)'.disk
          BY <1>10, <4>1, <4>3 DEF Resident
        <5>2. q = r[1] /\ v = r[2]
          BY <4>1, <4>3
        <5>3. View(EntryOf(x)', memory, Own') = Zeros
          BY <5>1 DEF View
        <5>. QED  BY <2>4, <2>5, <4>2, <5>2, <5>3
      <4>4. CASE x # r
        <5>1. new[q][v] = before[q][v]
          <6>1. CASE q = r[1]
            <7>1. v # r[2] /\ v \in DOMAIN row
              BY <2>1, <2>5, <3>1, <4>4, <6>1
            <7>. QED  BY <2>4, <2>5, <6>1, <7>1
          <6>2. CASE q # r[1]
            BY <2>5, <6>2
          <6>. QED  BY <6>1, <6>2
        <5>2. CASE x = page
          <6>1. View(EntryOf(page)', memory, Own') = Zeros
            BY <1>10 DEF View
          <6>2. q = p /\ v \in added
            BY <1>3, <4>1, <5>2 DEF added
          <6>. QED  BY <1>7, <4>2, <5>1, <5>2, <6>1, <6>2
        <5>3. CASE x # page
          <6>1. x \in AllPages \ {r}
            BY <1>10, <4>1, <4>4, <5>3
          <6>2. EntryOf(x)' = EntryOf(x) /\ before[x[1]][x[2]] = View(EntryOf(x), memory, Own)
            BY <1>7, <1>10, <6>1
          <6>. QED  BY <1>4, <1>10, <2>0, <4>1, <4>2, <5>1, <6>2
        <5>. QED  BY <5>2, <5>3
      <4>. QED  BY <4>3, <4>4
    <3>. QED  BY <3>1, <3>2
  <2>8. PagesSeen' = new
    BY <2>5, <2>6, <2>7, SameViews
  <2>9. PagesSeen' = [before EXCEPT ![r[1]][r[2]] = Abstract!Blank]
    BY <2>8, AbstractNames DEF new, row
  <2>10. Resident' = Resident \ {r} /\ \A x \in Resident \ {r} : EntryOf(x)' = EntryOf(x)
    BY <1>10 DEF Resident
  <2>11. Lost' = Lost \ {r} /\ Shared' = Shared \ {r}
    BY <2>0, <2>10 DEF Lost, Shared
  <2>12. UNCHANGED (misplaced = {})
    BY <2>0
  <2>. QED  BY <1>2, <1>4, <1>8, <1>10, <2>3, <2>9, <2>11, <2>12, AbstractNames DEF Abstract!Displace
<1>11. ASSUME ~Alive', AllPages' = AllPages \cup {page}, Resident' = Resident, UNCHANGED tlb,
              \A x \in AllPages : EntryOf(x)' = EntryOf(x)
       PROVE  Abstract!Physical
  <2>1. EntryOf(page)'.disk
    BY <1>2, <1>11 DEF Resident
  <2>2. \A v \in added : View(EntryOf(<<p, v>>)', memory', Own') = Zeros
    BY <2>1 DEF View, added
  <2>3. AllPages' = AllPages \cup {<<p, v>> : v \in added}
    BY <1>11 DEF added
  <2>3a. \A x \in AllPages : View(EntryOf(x)', memory', Own') = View(EntryOf(x), memory, Own)
    BY <1>2, <1>4, <1>11 DEF Own
  <2>4. PagesSeen' = before
    BY <1>2, <1>3, <2>2, <2>3, <2>3a, Grown DEF before
  <2>5. Lost' = Lost /\ Shared' = Shared /\ UNCHANGED misplaced
    BY <1>2, <1>11 DEF Lost, Shared, Resident
  <2>6. Foreign' \subseteq Foreign
    <3>1. \A x \in Resident : x \in Resident' /\ EntryOf(x)' = EntryOf(x)
      BY <1>11 DEF Resident
    <3>. QED  BY <1>2, <1>11, <3>1, ForeignKept
  <2>7. GivenAgain(before)
    BY <2>5, <2>6 DEF GivenAgain, Abstract!Forgets
  <2>. QED  BY <1>2, <1>4, <1>8, <1>11, <2>4, <2>7, RefusedPhysical
<1>12. ASSUME Alive', p = PageForPid, AllPages' = AllPages \cup {page},
              Resident' = Resident \cup {page}, EntryOf(page)'.ppage = p,
              \A x \in AllPages : EntryOf(x)' = EntryOf(x),
              tlb' = tlb, misplaced' \in {misplaced, misplaced \cup {p}},
              p \notin misplaced => \A x \in Resident : EntryOf(x).ppage # p
       PROVE  Abstract!Physical /\ pending' = Idle
  <2>. DEFINE mem == Fetched(p)
  <2>1. p \in Backed
    BY <1>12, BusNumbers DEF PageForPid
  <2>2. ReachRaw(a, n, data, mem)
    BY <1>12, <2>1
  <2>3. mem \in [Backed -> Page] /\ mem[p] = Zeros /\ \A g \in Backed \ {p} : mem[g] = memory[g]
    BY <1>1, <2>1, FetchedFacts
  <2>. HIDE DEF mem
  <2>4. \A x \in Resident : EntryOf(x).ppage = p => p \notin Own /\ p \notin Own'
    BY <1>12 DEF Own
  <2>4a. \A g \in Backed \ {p} : g \in Own' <=> g \in Own
    BY <1>12 DEF Own
  <2>5. ASSUME NEW r \in AllPages'
        PROVE  before[r[1]][r[2]] = View(EntryOf(r)', mem, Own')
    <3>1. CASE r = page
      <4>1. View(EntryOf(page)', mem, Own') = Zeros
        BY <1>12, <2>3 DEF View
      <4>2. before[page[1]][page[2]] = Zeros
        BY <1>3, <1>7 DEF added
      <4>. QED  BY <3>1, <4>1, <4>2
    <3>2. CASE r # page
      <4>1. r \in AllPages /\ EntryOf(r)' = EntryOf(r)
        BY <1>12, <3>2
      <4>2. EntryOf(r).disk \/ EntryOf(r).ppage # p \/ (p \notin Own /\ p \notin Own')
        BY <2>4, <4>1 DEF Resident
      <4>3. View(EntryOf(r), mem, Own') = View(EntryOf(r), memory, Own)
        <5>0. PICK e : e = EntryOf(r)
          OBVIOUS
        <5>1. e.disk \/ e.ppage # p \/ (p \notin Own /\ p \notin Own')
          BY <4>2, <5>0
        <5>. SUFFICES View(e, mem, Own') = View(e, memory, Own)
          BY <5>0
        <5>2. Own \subseteq Backed /\ Own' \subseteq Backed
          BY DEF Own
        <5>3. CASE e.disk
          BY <5>3, SameView
        <5>4. CASE ~e.disk /\ e.ppage # p
          <6>1. e.ppage \in Own' <=> e.ppage \in Own
            BY <2>4a, <5>2, <5>4
          <6>2. e.ppage \in Own => mem[e.ppage] = memory[e.ppage]
            BY <2>3, <5>2, <5>4
          <6>. QED  BY <6>1, <6>2, SameView
        <5>5. CASE ~e.disk /\ e.ppage = p /\ p \notin Own /\ p \notin Own'
          BY <5>5, SameView
        <5>. QED  BY <5>1, <5>3, <5>4, <5>5
      <4>. QED  BY <1>7, <4>1, <4>3
    <3>. QED  BY <3>1, <3>2
  <2>6. Lost' = Lost
    <3>1. \A x \in Lost : x \in AllPages
      BY DEF Lost, Resident
    <3>2. \A x \in Lost' : x # page /\ x \in Resident
      BY <1>12, <2>1 DEF Lost
    <3>3. \A x \in Resident : x \in Lost' <=> x \in Lost
      BY <1>12 DEF Lost, Resident
    <3>4. Lost \subseteq Resident
      BY DEF Lost
    <3>. QED  BY <3>2, <3>3, <3>4
  <2>6a. Foreign' \subseteq Foreign
    <3>1. \A x \in Resident : x \in Resident' /\ EntryOf(x)' = EntryOf(x)
      BY <1>12 DEF Resident
    <3>. QED  BY <1>2, <1>12, <3>1, ForeignKept
  <2>6b. page \in Abstract!Rows(before) \ Abstract!Rows(PagesSeen)
    <3>1. PageForPid \in DOMAIN before[p]
      BY <1>2, <1>3, <1>7, BusNumbers DEF added
    <3>2. DOMAIN before = procs
      BY <1>7
    <3>3. page \in Abstract!Rows(before)
      BY <1>2, <1>3, <3>1, <3>2 DEF Abstract!Rows
    <3>. QED  BY <1>2, <3>3, RowsFacts
  <2>6c. (UNCHANGED Shared /\ UNCHANGED misplaced) \/ (Shared' = Shared \cup {page} /\ misplaced' # {})
    <3>1. page \notin Resident /\ \A x \in Resident : EntryOf(x)' = EntryOf(x)
      BY <1>2, <1>12 DEF Resident
    <3>2. CASE p \in misplaced'
      <4>1. page \in Shared'
        BY <1>12, <3>2 DEF Shared
      <4>2. \A x \in Resident : x \in Shared' <=> x \in Shared
        <5>1. \A x \in Resident : EntryOf(x).ppage \in misplaced' <=> EntryOf(x).ppage \in misplaced
          BY <1>12
        <5>. QED  BY <1>12, <3>1, <5>1 DEF Shared
      <4>3. Shared' \subseteq Resident \cup {page} /\ Shared \subseteq Resident
        BY <1>12 DEF Shared
      <4>4. Shared' = Shared \cup {page}
        BY <4>1, <4>2, <4>3
      <4>. QED  BY <3>2, <4>4
    <3>3. CASE p \notin misplaced'
      <4>1. misplaced' = misplaced
        BY <1>12, <3>3
      <4>2. page \notin Shared'
        BY <1>12, <3>3 DEF Shared
      <4>3. \A x \in Resident : x \in Shared' <=> x \in Shared
        BY <1>12, <3>1, <4>1 DEF Shared
      <4>4. Shared' \subseteq Resident \cup {page} /\ Shared \subseteq Resident
        BY <1>12 DEF Shared
      <4>. QED  BY <4>1, <4>2, <4>3, <4>4
    <3>. QED  BY <3>2, <3>3
  <2>6d. GivenAgain(before)
    BY <2>6, <2>6a, <2>6b, <2>6c DEF GivenAgain, Abstract!Forgets
  <2>7. before \in [procs' -> Views] /\ \A q \in procs' : DOMAIN before[q] = DOMAIN PagesSeen'[q]
    BY <1>2, <1>7, <1>9, <1>12
  <2>8. PageOf(a) \notin Backed => mem = memory
    BY <2>1
  <2>9. Alive' /\ UNCHANGED cur /\ mem \in [Backed -> Page]
    BY <1>2, <1>12, <2>3
  <2>. HIDE DEF page
  <2>. QED  BY <1>8, <2>2, <2>5, <2>6d, <2>7, <2>8, <2>9, RawPhysical
<1>. QED  BY <1>2, <1>4, <1>6, <1>10, <1>11, <1>12

LEMMA UnmappedRefines ==
    ASSUME BusInv, BusInv', Alive, pending = Idle, NEW a \in Addresses, NEW n \in Sizes, InTarget(a, n),
           NEW data \in [a .. a + n - 1 -> Data] \cup {<<>>}, Unmapped(a, n, data)
    PROVE  Abstract!Quiet /\ (Abstract!Physical \/ Abstract!Displace \/ Abstract!Refuse)
<1>. DEFINE p == PageOf(a)
<1>1. IInv /\ TypeOK /\ memory \in [Backed -> Page]
  BY DEF BusInv, IInv, Page
<1>2. \/ EnsureMapped(cur, p) /\ ReachRaw(a, n, data, memory)
      \/ EnsureRefused(cur, p) /\ Answered("throw") /\ UNCHANGED memory
      \/ /\ MapPPage(cur, p)
         /\ IF ~Alive' THEN Answered("exit") /\ UNCHANGED memory
            ELSE ReachRaw(a, n, data, IF p \in Backed THEN Fetched(p) ELSE memory)
  BY DEF Unmapped
<1>. HIDE DEF p
<1>3. CASE EnsureMapped(cur, p) /\ ReachRaw(a, n, data, memory)
  <2>1. Alive' /\ UNCHANGED <<procs, cur, entries, tlb, misplaced>>
    BY <1>1, <1>3, EnsureMappedFacts
  <2>2. /\ AllPages' = AllPages /\ \A r : EntryOf(r)' = EntryOf(r)
        /\ Lost' = Lost /\ Shared' = Shared /\ Own' = Own
    BY <2>1 DEF AllPages, EntryOf, Lost, Shared, Own, Resident
  <2>2a. GivenAgain(PagesSeen)
    BY <2>1, <2>2, ForeignSame DEF GivenAgain, Abstract!Forgets
  <2>3. /\ PagesSeen \in [procs' -> Views]
        /\ \A q \in procs' : DOMAIN PagesSeen[q] = DOMAIN PagesSeen'[q]
    BY <2>1, SeenFacts DEF PagesSeen
  <2>4. \A r \in AllPages' : PagesSeen[r[1]][r[2]] = View(EntryOf(r)', memory, Own')
    BY <2>2, SeenFacts
  <2>5. PagesSeen \in Abstract!Before
    BY DEF Abstract!Before
  <2>6. Abstract!Physical /\ pending' = Idle
    BY <1>1, <1>3, <2>1, <2>2a, <2>3, <2>4, <2>5, RawPhysical
  <2>. QED  BY <2>6, AbstractNames DEF Abstract!Quiet
<1>4. CASE EnsureRefused(cur, p) /\ Answered("throw") /\ UNCHANGED memory
  <2>1. UNCHANGED <<procs, entries, cur, tlb, misplaced>>
    BY <1>4 DEF EnsureRefused, Throw, tables, frames
  <2>2. PagesSeen' = PagesSeen /\ Lost' = Lost /\ Shared' = Shared /\ Foreign' = Foreign
    BY <1>4, <2>1, SameSeen, ForeignSame
  <2>2a. UNCHANGED Abstract!given
    BY <2>1, <2>2, SameGiven
  <2>3. reply' = Answer("throw", <<>>) /\ pending' = Idle
    BY <1>4 DEF Answered
  <2>. QED  BY <2>1, <2>2, <2>2a, <2>3, AbstractNames DEF Abstract!Quiet, Abstract!Refuse, Abstract!Forgets
<1>5. CASE /\ MapPPage(cur, p)
           /\ IF ~Alive' THEN Answered("exit") /\ UNCHANGED memory
              ELSE ReachRaw(a, n, data, IF p \in Backed THEN Fetched(p) ELSE memory)
  <2>1. pending' = Idle /\ (Abstract!Physical \/ Abstract!Displace)
    BY <1>5, MappedRefines DEF p
  <2>. QED  BY <2>1, AbstractNames DEF Abstract!Quiet
<1>. QED  BY <1>2, <1>3, <1>4, <1>5

-----------------------------------------------------------------------------
(* Refinement. *)

LEMMA InitRefines == BusInit => Abstract!Init
<1>. SUFFICES ASSUME BusInit
              PROVE  Abstract!Init
  OBVIOUS
<1>1. procs = {} /\ cur = NoProcess /\ pending = Idle /\ reply = Answer("ok", <<>>)
  BY DEF BusInit, Init
<1>2. BusInv
  BY InitBusInv
<1>3. PagesSeen = [pid \in {} |-> {}]
  BY <1>1 DEF PagesSeen
<1>4. Lost = {}
  <2>1. \A r \in AllPages : r[1] \in procs
    BY <1>2, SeenFacts
  <2>. QED  BY <1>1, <2>1 DEF Lost, Resident
<1>5. misplaced = {} /\ Shared = {}
  BY DEF BusInit, Init, Shared
<1>6. Foreign = {}
  <2>1. \A i \in DOMAIN tlb : ~tlb[i].valid
    BY DEF BusInit, Init
  <2>. QED  BY <2>1 DEF Foreign, Stale
<1>. QED  BY <1>1, <1>3, <1>4, <1>5, <1>6, AbstractNames DEF Abstract!Init

LEMMA NextRefines ==
    BusInv /\ BusInv' /\ DiskUntouched /\ [BusNext]_<<vars, busVars>> => [Abstract!Next]_(Abstract!vars)
<1>. SUFFICES ASSUME BusInv, BusInv', DiskUntouched, [BusNext]_<<vars, busVars>>
              PROVE  Abstract!Next \/ UNCHANGED Abstract!vars
  BY DEF Abstract!vars
<1>1. CASE UNCHANGED <<vars, busVars>>
  <2>1. UNCHANGED <<procs, entries, memory, cur, pending, reply, tlb, misplaced>>
    BY <1>1 DEF vars, busVars
  <2>2. PagesSeen' = PagesSeen /\ Lost' = Lost /\ Shared' = Shared /\ Foreign' = Foreign
    BY <2>1, SameSeen, ForeignSame
  <2>3. UNCHANGED Abstract!given
    BY <2>1, <2>2, SameGiven
  <2>. QED  BY <2>1, <2>2, <2>3 DEF Abstract!vars
<1>2. CASE BusNext
  <2>1. Alive /\ reply.status # "exit"
    BY <1>2 DEF BusNext
  <2>2. CASE StepPending
    <3>1. Abstract!Step \/ Abstract!Collapse
      BY <2>1, <2>2, TranslatedRefines, RawRefines DEF StepPending
    <3>. QED  BY <2>1, <3>1 DEF Abstract!Next
  <2>3. CASE pending = Idle /\ Manage
    BY <2>1, <2>3, ManageRefines DEF Abstract!Next
  <2>4. CASE pending = Idle /\ Reset
    BY <2>1, <2>4, ResetRefines DEF Abstract!Next
  <2>5. ASSUME pending = Idle, NEW a \in Addresses, NEW n \in Sizes,
               StartRead(a, n) \/ \E data \in [a .. a + n - 1 -> Data] : StartWrite(a, data)
        PROVE  Abstract!Next
    BY <2>1, <2>5, StartRefines DEF Abstract!Next
  <2>6. ASSUME pending = Idle, NEW a \in Addresses, NEW n \in Sizes, InTarget(a, n),
               NEW data \in [a .. a + n - 1 -> Data] \cup {<<>>}, Unmapped(a, n, data)
        PROVE  Abstract!Next
    BY <2>1, <2>6, UnmappedRefines DEF Abstract!Next
  <2>. QED  BY <1>2, <2>2, <2>3, <2>4, <2>5, <2>6 DEF BusNext
<1>. QED  BY <1>1, <1>2

\* Each process has memory of its own: through translation, page faults, frames used again
\* and ends of processes it reads what it wrote last, and zeros before that, wherever
\* ProcessMemory does not say otherwise.
THEOREM MemoryImplementation == BusSpec => MemorySpec
<1>. QED  BY InitRefines, NextRefines, BusInvariance, FramesBeforeDisk, PTL
          DEF BusSpec, MemorySpec, Abstract!Spec

==============================================================================
