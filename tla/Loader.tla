------------------------------- MODULE Loader -------------------------------
(***************************************************************************)
(* LoadExecutable::load: the references that are left, then .text, .data   *)
(* and .bss into the memory of the process, then the entry point.  A page  *)
(* gets a frame when it is first written, and the frames go out in order:  *)
(* the emulator has just been built and runs one process.                  *)
(***************************************************************************)
EXTENDS Linker

PageSize == 4096

\* The part of an address that an instruction of each type of reference takes.
Relocated(exe, rel) ==
  LET v == exe.symtab[rel.sym].value
      i == rel.offset \div 4 + 1
  IN  CASE rel.type = "O_LO12"    -> [exe EXCEPT !.text[i].arg.val = v % 4096]
        [] rel.type = "ADRP_HI20" -> [exe EXCEPT !.text[i].page = (v \div 4096) % 2^20]
        [] rel.type = "MOV_LO19"  -> [exe EXCEPT !.text[i].arg.val = v % 2^19]
        [] rel.type = "MOV_HI13"  -> [exe EXCEPT !.text[i].arg.val = (v \div 2^19) % 2^13]

Empty == [state |-> "loading", frames |-> <<>>, ram |-> <<>>, pc |-> 0]

PagesOf(exe, s) ==
  exe.at[s].address \div PageSize .. (exe.at[s].address + SizeOf(exe, s) - 1) \div PageSize

Physical(frames, a) == frames[a \div PageSize] * PageSize + (a % PageSize)

\* A frame for each page of a section, in the order the section is written in.
Framed(frames, pages) ==
  [p \in pages |-> Cardinality(DOMAIN frames) + p - Min(pages)] @@ frames

\* What a section has in its n-th cell: an instruction has four bytes, .bss zeros.
CellSize(s) == IF s = TEXT THEN 4 ELSE 1
CellOf(exe, s, n) ==
  CASE s = TEXT -> exe.text[n + 1] [] s = DATA -> exe.data[n + 1] [] s = BSS -> 0

\* Adding a page that is mapped already is an exception, which nobody catches.  So is a
\* physical address, unless its page is mapped to the frame of its number already.
LoadSection(acc, exe, s) ==
  LET a == exe.at[s].address
      physical == exe.at[s].physical
      pages == PagesOf(exe, s)
      frames == IF physical THEN acc.frames ELSE Framed(acc.frames, pages)
      virtual(b) == (CHOOSE p \in pages : frames[p] = b \div PageSize) * PageSize + (b % PageSize)
      n == SizeOf(exe, s) \div CellSize(s)
      written == {a + CellSize(s) * k : k \in 0 .. n-1}
      refused == IF physical THEN \E p \in pages : p \notin DOMAIN frames \/ frames[p] # p
                 ELSE pages \cap DOMAIN acc.frames # {}
  IN  IF acc.state # "loading" \/ n = 0 THEN acc
      ELSE IF refused THEN [acc EXCEPT !.state = "thrown"]
      ELSE [acc EXCEPT !.frames = frames,
              !.ram = [b \in {Physical(frames, v) : v \in written} |->
                         CellOf(exe, s, (virtual(b) - a) \div CellSize(s))] @@ acc.ram]

\* The program counter is set to where the entry point is in RAM.
Started(acc, exe) ==
  LET start == exe.symtab[IdOf(exe, Plain("_start"))].value
  IN  IF acc.state # "loading" THEN acc
      ELSE IF ~HasName(exe, Plain("_start")) THEN [acc EXCEPT !.state = "failed"]
      ELSE IF start \div PageSize \notin DOMAIN acc.frames THEN [acc EXCEPT !.state = "thrown"]
      ELSE [acc EXCEPT !.state = "loaded", !.pc = Physical(acc.frames, start)]

Load(file) ==
  LET exe == FoldLeft(Relocated, ReadObject(file), ReadObject(file).rels)
      text == LoadSection(Empty, exe, TEXT)
      data == LoadSection(text, exe, DATA)
  IN  Started(LoadSection(data, exe, BSS), exe)
=============================================================================
