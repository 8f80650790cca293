------------------------------- MODULE Linker -------------------------------
(***************************************************************************)
(* Linker::link: the sections of the objects one after the other, their    *)
(* symbols under one name each, and the branches between them             *)
(* (linker.cpp).  The linker script is the one that comes with the code:   *)
(* a build has no argument that names another.                             *)
(***************************************************************************)
EXTENDS ObjectFile

CONSTANTS
  Script,     \* the tokens of the linker script
  DigitsOf    \* each number in it: its base and its digits

\* Letters count from 0, so that "a" is 0 and "f" is 5; what comes after the first
\* two characters is the value, also of a decimal number.
ScriptValue(t) ==
  LET d == DigitsOf[t].digits
      digit(k) == IF d[k] >= 10 THEN d[k] - 10 ELSE d[k]
      v[k \in 2 .. Len(d)] == IF k = 2 THEN 0 ELSE v[k-1] * DigitsOf[t].base + digit(k)
  IN  IF Len(d) < 2 THEN 0 ELSE v[Len(d)]

(***************************************************************************)
(* parse_ld: the sections in the order they are placed in, and the name    *)
(* between the parentheses of ENTRY, which nothing looks at again.         *)
(***************************************************************************)
SectionOf(t) == CASE t = ".text" -> TEXT [] t = ".data" -> DATA [] t = ".bss" -> BSS
Placed(t, physical) == [section |-> SectionOf(t), physical |-> physical, set |-> FALSE, address |-> 0]

ParseLd(ts) ==
  LET open == First(ts, {"SECTIONS"}) + 1
      step(acc, t) ==
        CASE t \in Sections -> [acc EXCEPT !.list = Append(@, Placed(t, acc.physical))]
          [] t \in {"P", "V"} -> [acc EXCEPT !.physical = t = "P"]
          [] t \in DOMAIN DigitsOf ->
               [acc EXCEPT !.list[Len(acc.list)].set = TRUE,
                           !.list[Len(acc.list)].address = ScriptValue(t)]
          [] OTHER -> acc
  IN  FoldLeft(step, [list |-> <<>>, physical |-> FALSE], From(ts, open)).list

----------------------------------------------------------------------------
\* Slip: the sections of each kind in the other order.
SlipMerged(objs) ==
  [EmptyObject EXCEPT
     !.text = FlattenSeq([k \in DOMAIN objs |-> objs[Len(objs) + 1 - k].text]),
     !.data = FlattenSeq([k \in DOMAIN objs |-> objs[Len(objs) + 1 - k].data]),
     !.bss  = FoldLeft(LAMBDA n, o : n + o.bss, 0, objs)]

\* All .text together, in the order of the objects, then .data and .bss.
Merged(objs) ==
  [EmptyObject EXCEPT
     !.text = FlattenSeq([k \in DOMAIN objs |-> objs[k].text]),
     !.data = FlattenSeq([k \in DOMAIN objs |-> objs[k].data]),
     !.bss  = FoldLeft(LAMBDA n, o : n + o.bss, 0, objs)]

SizeOf(o, s) ==
  CASE s = TEXT -> 4 * Len(o.text) [] s = DATA -> Len(o.data) [] s = BSS -> o.bss

\* A section without an address follows the one before it.  A byte of data counts
\* four times.
Addresses(exe, list) ==
  LET step(acc, p) ==
        LET here == IF p.set THEN p.address ELSE acc.next
        IN  [at |-> (p.section :> [address |-> here, physical |-> p.physical]) @@ acc.at,
             next |-> here + (IF p.section = DATA THEN 4 ELSE 1) * SizeOf(exe, p.section)]
  IN  FoldLeft(step, [at |-> exe.at, next |-> 0], list).at

\* What the objects before the k-th put into a section.
Before(objs, k, s) ==
  FoldLeft(LAMBDA n, o : n + SizeOf(o, s), 0, SubSeq(objs, 1, k-1))

\* The name of a symbol in the executable: a local one belongs to its file.
ExeName(objs, k, id) ==
  LET o == objs[k]
  IN  IF o.symtab[id].binding = "local" THEN [o.strings[id] EXCEPT !.file = k] ELSE o.strings[id]

\* Slip: what earlier files put into the section is not counted.
SlipExeValue(objs, at, k, id) ==
  LET e == objs[k].symtab[id]
  IN  e.value + IF e.section = NoSection THEN 0 ELSE at[e.section].address

ExeValue(objs, at, k, id) ==
  LET e == objs[k].symtab[id]
  IN  e.value + IF e.section = NoSection THEN 0
                ELSE at[e.section].address + Before(objs, k, e.section)

AddSymbols(exe, objs) ==
  LET add(o, k, id) == AddSymbol(o, ExeName(objs, k, id), ExeValue(objs, exe.at, k, id),
                                 objs[k].symtab[id].binding, objs[k].symtab[id].section)
      addFile(o, k) ==
        LET done[n \in Len(SectionNames) .. Len(objs[k].strings)] ==
              IF n = Len(SectionNames) THEN o ELSE add(done[n-1], k, n)
        IN  done[Len(objs[k].strings)]
  IN  FoldLeft(addFile, exe, [k \in DOMAIN objs |-> k])

\* A branch is settled here; the other references stay for the loader.  The place of
\* an instruction counts from the address of the section.
LinkOne(exe, objs, k, rel) ==
  LET id == IdOf(exe, ExeName(objs, k, rel.sym))
      entry == exe.symtab[id]
      place == exe.at[TEXT].address + Before(objs, k, TEXT) + rel.offset
  IN  CASE entry.binding = "weak" \/ (rel.type = "B_OFFSET22" /\ entry.value % 4 # 0) ->
             [exe EXCEPT !.ok = FALSE]
        [] entry.binding # "weak" /\ rel.type = "B_OFFSET22" /\ entry.value % 4 = 0 ->
             [exe EXCEPT !.text[place \div 4 + 1].offset = entry.value \div 4 - place \div 4]
        [] OTHER -> [exe EXCEPT !.rels = Append(@, [rel EXCEPT !.sym = id, !.offset = place])]

LinkReferences(exe, objs) ==
  LET file(o, k) == FoldLeft(LAMBDA x, rel : LinkOne(x, objs, k, rel), o, objs[k].rels)
  IN  FoldLeft(file, exe, [k \in DOMAIN objs |-> k])

\* The executable; not ok where the code ends with an error.
Link(objs) ==
  LET merged == Merged(objs)
      placed == [merged EXCEPT !.at = Addresses(merged, ParseLd(Script))]
      named == AddSymbols(placed, objs)
  IN  IF named.ok THEN LinkReferences(named, objs) ELSE named
=============================================================================
