----------------------------- MODULE ObjectFile -----------------------------
(***************************************************************************)
(* Object files, executables and static libraries (object_file.cpp,        *)
(* static_library.cpp).  A symbol is found by the place of its name in the *)
(* table of strings.  rel.data and rel.bss exist and stay empty.           *)
(***************************************************************************)
EXTENDS Process

SectionNames ==
  <<".text", ".data", ".bss", ".symtab", ".rel.text", ".rel.data", ".rel.bss", ".strtab">>
\* A symbol begins with a letter or an underscore.
ASSUME NamesAssumption == Symbols \cap ToSet(SectionNames) = {}

TEXT == 0
DATA == 1
BSS  == 2
NoSection == -1

\* The name a symbol has in the tables: its scope and, in an executable, the file
\* it is local to belong to it.
SymbolName(sym, scope, file) == [sym |-> sym, scope |-> scope, file |-> file]
Plain(sym) == SymbolName(sym, -1, -1)

EmptyObject ==
  [text |-> <<>>, data |-> <<>>, bss |-> 0,
   symtab |-> <<>>, rels |-> <<>>,
   strings |-> [k \in DOMAIN SectionNames |-> Plain(SectionNames[k])],
   at |-> [s \in {TEXT, DATA, BSS} |-> [address |-> 0, physical |-> FALSE]],
   ok |-> TRUE]

StringId(obj, name) == {k \in DOMAIN obj.strings : obj.strings[k] = name}
HasName(obj, name) == StringId(obj, name) # {}
IdOf(obj, name) == Min(StringId(obj, name))


\* A symbol is defined once; what is said of its binding later counts if it is stronger.
AddSymbol(obj, name, value, binding, section) ==
  IF ~HasName(obj, name)
    THEN LET id == Len(obj.strings) + 1
         IN  [obj EXCEPT !.strings = Append(@, name),
                         !.symtab = Put(@, id, [name |-> id, value |-> value, binding |-> binding,
                                                section |-> section])]
    ELSE LET id == IdOf(obj, name)
             old == obj.symtab[id]
             defines == old.section = NoSection /\ section # NoSection
             stronger == binding = "global" \/ (binding = "local" /\ old.binding = "weak")
             new == [old EXCEPT !.section = IF defines THEN section ELSE @,
                                !.value = IF defines THEN value ELSE @,
                                !.binding = IF stronger THEN binding ELSE @]
         IN  [obj EXCEPT !.symtab[id] = new,
                         !.ok = @ /\ (old.section = NoSection \/ section = NoSection)]

(***************************************************************************)
(* A file: the sections one after the other, then a header for each with   *)
(* where it starts and how many bytes it has.  A cell stands for an        *)
(* instruction, a byte, a number, a table entry or a string.               *)
(***************************************************************************)
CellBytes == <<4, 1, 8, 26, 28, 28, 28, 1>>
HeaderBytes == 24
\* Slip: an entry names its symbol counting from 0.
SlipStored(rel) == [offset |-> rel.offset, sym |-> rel.sym - 1, type |-> rel.type, token |-> 0]
Stored(rel) == [offset |-> rel.offset, sym |-> rel.sym, type |-> rel.type, token |-> 0]

Cells(obj) ==
  <<obj.text, obj.data, <<obj.bss>>,
    [k \in 1 .. Cardinality(DOMAIN obj.symtab) |-> obj.symtab[k + Len(SectionNames)]],
    [k \in DOMAIN obj.rels |-> Stored(obj.rels[k])], <<>>, <<>>, obj.strings>>

\* What the header of .bss says is its size in memory; in the file it has one number.
WriteObject(obj) ==
  LET cells == Cells(obj)
      bytes(s) == Len(cells[s]) * CellBytes[s]
      start(s) == HeaderBytes + SumFunctionOnSet([k \in DOMAIN cells |-> bytes(k)], 1 .. s-1)
  IN  [cells |-> FlattenSeq(cells),
       headers |-> [s \in DOMAIN cells |->
                      [start |-> start(s), size |-> IF s = BSS + 1 THEN obj.bss ELSE bytes(s),
                       at |-> IF s - 1 \in DOMAIN obj.at THEN obj.at[s-1]
                                                         ELSE EmptyObject.at[TEXT]]]]

StoredCells(file, s) ==
  IF s = BSS + 1 THEN 1 ELSE file.headers[s].size \div CellBytes[s]

\* The sections are read one after the other; where they start is not looked at.
ReadObject(file) ==
  LET before(s) == SumFunctionOnSet([k \in DOMAIN file.headers |-> StoredCells(file, k)], 1 .. s-1)
      section(s) == SubSeq(file.cells, before(s) + 1, before(s) + StoredCells(file, s))
      entries == section(4)
  IN  [text |-> section(1), data |-> section(2), bss |-> section(3)[1],
       symtab |-> [id \in {entries[k].name : k \in DOMAIN entries} |->
                     entries[CHOOSE k \in DOMAIN entries : entries[k].name = id]],
       rels |-> section(5), strings |-> section(8),
       at |-> [s \in {TEXT, DATA, BSS} |-> file.headers[s+1].at],
       ok |-> TRUE]

\* A library is a list of object files, each with its length before it.
WriteLibrary(paths) == [k \in DOMAIN paths |-> files[paths[k]]]
ReadLibrary(path) == [k \in DOMAIN files[path] |-> ReadObject(files[path][k])]
=============================================================================
