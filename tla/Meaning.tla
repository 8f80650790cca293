------------------------------- MODULE Meaning -------------------------------
(***************************************************************************)
(* What a program means, apart from how the build finds out.  A source is  *)
(* a tree of lines, definitions, conditional blocks and macros; its        *)
(* meaning is a list of lines.  The lines of all units have places, the    *)
(* labels addresses, and each reference means at most one label.           *)
(***************************************************************************)
EXTENDS Build

CONSTANTS
  Trees,     \* the tree of each source and included file
  Members,   \* the sources of each library
  BadLines   \* lines that no build accepts

Text(ts)             == [k |-> "line", ts |-> ts, nl |-> <<NL>>]
LastText(ts)         == [k |-> "line", ts |-> ts, nl |-> <<>>]   \* at the end of a file
Def(sym, ps, v)      == [k |-> "def", sym |-> sym, params |-> ps, value |-> v]
Undef(sym, number)   == [k |-> "undef", sym |-> sym, number |-> number]
Branch(test, body)   == [test |-> test, body |-> body]
If(branches)         == [k |-> "if", branches |-> branches]
Mac(name, ps, body)  == [k |-> "macro", name |-> name, params |-> ps, sep |-> <<",">>, body |-> body]
Call(name, args, to) == [k |-> "call", name |-> name, args |-> args, to |-> to]
Inc(line, path)      == [k |-> "include", line |-> line, path |-> path]

\* The tree as the tokens of a file.
Separated(parts, sep) == FoldLeft(LAMBDA a, p : IF a = <<>> THEN p ELSE a \o sep \o p, <<>>, parts)
Listed(parts) == Separated(parts, <<",">>)
Single(ps) == [k \in DOMAIN ps |-> <<ps[k]>>]
ParamList(ps) == IF ps = <<>> THEN <<>> ELSE <<"(">> \o Listed(Single(ps)) \o <<")">>

RECURSIVE Source(_)
Source(nodes) ==
  LET source(n) ==
        CASE n.k = "line" -> n.ts \o n.nl
          [] n.k = "def" -> <<"#define", n.sym>> \o ParamList(n.params) \o n.value \o <<NL>>
          [] n.k = "undef" -> <<"#undef", n.sym, NL>> \o n.number \o (IF n.number = <<>> THEN <<>> ELSE <<NL>>)
          [] n.k = "if" ->
               FlattenSeq([k \in DOMAIN n.branches |->
                             n.branches[k].test \o <<NL>> \o Source(n.branches[k].body)])
               \o <<"#endif", NL>>
          [] n.k = "macro" ->
               <<"#macro", n.name, "(">> \o Separated(Single(n.params), n.sep) \o <<")", NL>>
               \o Source(n.body) \o <<"#macend", NL>>
          [] n.k = "call" -> <<"#invoke", n.name, "(">> \o Listed(n.args) \o <<")">> \o n.to \o <<NL>>
          [] n.k = "include" -> <<"#include">> \o n.line \o <<NL>>
  IN  FlattenSeq([k \in DOMAIN nodes |-> source(nodes[k])])

----------------------------------------------------------------------------
(* The lines a tree means.  Known: definitions <<symbol, number of         *)
(* parameters>>, and macros.                                               *)

Known == [defs |-> <<>>, macros |-> <<>>]

RECURSIVE Expanded(_, _)
Expanded(ts, known) ==
  IF ts = <<>> THEN <<>>
  ELSE LET called == Len(ts) > 1 /\ ts[2] = "(" /\ \E key \in DOMAIN known : key[1] = ts[1]
           args == IF called THEN SplitAt(SubSeq(ts, 3, First(ts, {")"}) - 1), ",") ELSE <<>>
           after == IF called THEN From(ts, First(ts, {")"}) + 1) ELSE Tail(ts)
           key == <<ts[1], Len(args)>>
       IN  IF key \notin DOMAIN known THEN <<ts[1]>> \o Expanded(Tail(ts), known)
           ELSE LET d == known[key]
                    put(t) == IF Contains(d.params, t)
                                THEN args[CHOOSE k \in DOMAIN d.params : d.params[k] = t] ELSE <<t>>
                IN  Expanded(FlattenSeq([k \in DOMAIN d.value |-> put(d.value[k])]), known)
                    \o Expanded(after, known)

Holds(test, known) ==
  LET key == <<test[2], 0>>
      has == IF key \in DOMAIN known THEN known[key].value ELSE <<>>
      v == From(test, 3)
      less(a, b) == (a = <<>> /\ b # <<>>) \/ (a # <<>> /\ b # <<>> /\ NumberOf[a[1]] < NumberOf[b[1]])
  IN  CASE test[1] = "#else"                   -> TRUE
        [] test[1] \in {"#ifdef", "#elsedef"}   -> key \in DOMAIN known
        [] test[1] \in {"#ifndef", "#elsendef"} -> key \notin DOMAIN known
        [] test[1] \in {"#ifequ", "#elseequ"}   -> has = v
        [] test[1] \in {"#ifnequ", "#elsenequ"} -> has # v
        [] test[1] \in {"#ifless", "#elseless"} -> less(has, v)
        [] test[1] \in {"#ifmore", "#elsemore"} -> less(v, has)

\* A file of the tree, from the directory of the source that includes it.
Within(path, file) == Path(Dir(path) \o Dir(file), Name(file), Extension(file))

\* A macro means its body, with the arguments for its parameters, in a scope of its
\* own; outside of it the parameters mean what they meant before.
RECURSIVE Meant(_, _, _)
Meant(nodes, known, path) ==
  LET bind(ds, sym, ps, v) == (<<sym, Len(ps)>> :> [params |-> ps, value |-> v]) @@ ds
      step(acc, n) ==
        CASE n.k = "line" -> [acc EXCEPT !.lines = Append(@, Expanded(FilterAll(n.ts, Comments), acc.known.defs))]
          [] n.k = "def" -> [acc EXCEPT !.known.defs = bind(@, n.sym, n.params, n.value)]
          [] n.k = "undef" ->
               [acc EXCEPT !.known.defs =
                  Restrict(@, {key \in DOMAIN @ : key[1] # n.sym
                                 \/ (n.number # <<>> /\ key[2] # NumberOf[n.number[1]])})]
          [] n.k = "if" ->
               LET true == {k \in DOMAIN n.branches : Holds(n.branches[k].test, acc.known.defs)}
                   m == Meant(n.branches[Min(true)].body, acc.known, path)
               IN  IF true = {} THEN acc ELSE [lines |-> acc.lines \o m.lines, known |-> m.known]
          [] n.k = "macro" ->
               [acc EXCEPT !.known.macros = (<<n.name, Len(n.params)>> :> n) @@ @]
          [] n.k = "call" ->
               LET mac == acc.known.macros[<<n.name, Len(n.args)>>]
                   inner == FoldLeft(LAMBDA d, k : bind(d, mac.params[k], <<>>, n.args[k]),
                                     acc.known.defs, [k \in DOMAIN n.args |-> k])
                   returns == Last(mac.body).k = "line" /\ Last(mac.body).ts[1] = "#macret"
                   body == IF returns THEN Front(mac.body) ELSE mac.body
                   m == Meant(body, [acc.known EXCEPT !.defs = inner], path)
                   result == Expanded(Tail(Last(mac.body).ts), m.known.defs)
               IN  [lines |-> acc.lines \o <<<<".scope">>>> \o m.lines \o <<<<".scend">>>>,
                    known |-> IF returns THEN [acc.known EXCEPT !.defs = bind(@, n.to[1], <<>>, result)]
                                         ELSE acc.known]
          [] n.k = "include" ->
               LET m == Meant(Trees[Within(path, n.path)], acc.known, path)
               IN  [lines |-> acc.lines \o m.lines, known |-> m.known]
  IN  FoldLeft(step, [lines |-> <<>>, known |-> known], nodes)

LinesOf(ts) ==
  LET step(acc, t) == IF t = NL THEN Append(acc, <<>>) ELSE [acc EXCEPT ![Len(acc)] = Append(@, t)]
  IN  SelectSeq(FoldLeft(step, <<<<>>>>, ts), LAMBDA line : line # <<>>)

MeaningOf(path) == SelectSeq(Meant(Trees[path], Known, path).lines, LAMBDA line : line # <<>>)

----------------------------------------------------------------------------
(* The units of the program that is built, and what their lines take up.   *)

UnitPaths ==
  LET inDir(d) == {p \in DOMAIN Members \cap DOMAIN files : Dir(p) = d}
  IN  job.sources \o FlattenSeq([k \in DOMAIN job.libraries |-> Members[job.libraries[k]]])
      \o FlattenSeq([k \in DOMAIN job.libdirs |->
                       IF inDir(job.libdirs[k]) = {} THEN <<>>
                       ELSE Members[CHOOSE p \in inDir(job.libdirs[k]) : TRUE]])
\* A label may have a statement on its line.
Statements(lines) ==
  FlattenSeq([k \in DOMAIN lines |-> IF lines[k][1] \in DOMAIN LabelOf /\ Len(lines[k]) > 1
                                       THEN <<<<lines[k][1]>>, Tail(lines[k])>> ELSE <<lines[k]>>])
Units ==
  LET upToStop(u) == IF Contains(u, <<".stop">>) THEN UpTo(u, Min({k \in DOMAIN u : u[k] = <<".stop">>}) - 1)
                                                 ELSE u
  IN  [k \in DOMAIN UnitPaths |-> upToStop(Statements(MeaningOf(UnitPaths[k])))]

SectionAt(u, j) ==
  LET begun == {i \in 1 .. j : u[i][1] \in Sections}
  IN  IF begun = {} THEN ".none" ELSE u[Max(begun)][1]

IsInstr(line) == line[1] \in MnemonicNames \cup {"ret"}
OpOfLine(line) == IF line[1] = "ret" THEN "bx" ELSE MnemonicOf(line[1]).op

\* The bytes a line of data stands for.  A departure from the notes, where .asciz ends
\* every string with a zero and .ascii does not: here as in the code both do.
Item(t, width) ==
  LET v[j \in 0 .. width-1] == IF j = 0 THEN NumberOf[t] ELSE v[j-1] \div 256
  IN  [j \in 1 .. width |-> v[j-1] % 256]
LineBytes(line) ==
  LET items == SelectSeq(Tail(line), LAMBDA t : t # ",")
      bytes(t) == CASE line[1] \in DOMAIN DataWidth -> Item(t, DataWidth[line[1]])
                    [] line[1] = ".char" -> BytesOf[t]
                    [] OTHER -> Append(BytesOf[t], 0)
  IN  FlattenSeq([k \in DOMAIN items |-> bytes(items[k])])

\* The place in its section that a line ends at.  A distance is below 2^24.
Advances == {".org", ".advance", ".align"}
IsFar(line) == NumberOf[line[2]] >= (IF line[1] = ".align" THEN 2^16 ELSE 2^24) - 1
Advanced(line, at) ==
  CASE IsInstr(line) -> at + 4
    [] line[1] \in DOMAIN DataWidth \cup Literals -> at + Len(LineBytes(line))
    [] line[1] = ".org" /\ ~IsFar(line) -> NumberOf[line[2]]
    [] line[1] = ".advance" /\ ~IsFar(line) -> at + NumberOf[line[2]]
    [] line[1] = ".align" /\ ~IsFar(line) -> Min({a \in at .. at + NumberOf[line[2]] : a % NumberOf[line[2]] = 0})
    [] OTHER -> at

EndOfLine(u, j) ==
  LET end[i \in 0 .. j] ==
        IF i = 0 THEN [s \in Sections \cup {".none"} |-> 0]
        ELSE [end[i-1] EXCEPT ![SectionAt(u, i)] = Advanced(u[i], @)]
  IN  end[j]
Place(u, j) == EndOfLine(u, j-1)[SectionAt(u, j)]
SizeIn(u, s) == EndOfLine(u, Len(u))[s]

TotalIn(us, k, s) == FoldLeft(LAMBDA n, u : n + SizeIn(u, s), 0, SubSeq(us, 1, k))
\* .bss follows the data.  A departure from the sizes that object files have, where a
\* byte of data is a byte: here as in the linker its place counts four.
PlaceOfDataByte == 4
SectionStart(us, s) ==
  CASE s = ".text" -> 0 [] s = ".data" -> 4096
    [] s = ".bss" -> 4096 + PlaceOfDataByte * TotalIn(us, Len(us), ".data")
AddressOf(us, k, j) ==
  SectionStart(us, SectionAt(us[k], j)) + TotalIn(us, k-1, SectionAt(us[k], j)) + Place(us[k], j)

----------------------------------------------------------------------------
(* Names.  Scopes are known by the line they begin on, and 0 is the unit.  *)

ScopesAround(u, j) ==
  {0} \cup {i \in 1 .. j-1 : u[i] = <<".scope">>
              /\ \A m \in i+1 .. j-1 : Cardinality({x \in i+1 .. m : u[x] = <<".scend">>})
                                       <= Cardinality({x \in i+1 .. m : u[x] = <<".scope">>})}

Labels(us) ==
  {[sym |-> LabelOf[us[k][j][1]], unit |-> k, line |-> j, scope |-> Max(ScopesAround(us[k], j))]
   : <<k, j>> \in {<<k, j>> \in UNION {{k} \X (DOMAIN us[k]) : k \in DOMAIN us} : us[k][j][1] \in DOMAIN LabelOf}}

IsGlobal(us, k, sym) == Contains(us[k], <<".global", sym>>)
Exported(us, sym) == {l \in Labels(us) : l.sym = sym /\ l.scope = 0 /\ IsGlobal(us, l.unit, sym)}

\* The labels a symbol on a line may mean: those of the innermost scope around it
\* that has one, or those that other units let be seen.
Meanings(us, k, j, sym) ==
  LET near == {l \in Labels(us) : l.sym = sym /\ l.unit = k /\ l.scope \in ScopesAround(us[k], j)}
  IN  IF near = {} THEN Exported(us, sym)
      ELSE {l \in near : l.scope = Max({m.scope : m \in near})}

\* The symbol an instruction refers to, and the part of the address it wants.
Wanted(line, v, at) ==
  CASE line[1] \in Jumps -> (v - at) \div 4
    [] Contains(line, ":lo12:") -> v % 4096
    [] line[1] = "adrp" -> v \div 4096
    [] Contains(line, ":lo19:") -> v % 2^19
    [] Contains(line, ":hi13:") -> v \div 2^19
OperandOf(instr) ==
  CASE instr.op \in Jumps -> instr.offset [] instr.op = "adrp" -> instr.page [] OTHER -> instr.arg.val

\* What a line says of its operands, whatever format it has: its registers from left
\* to right, its number, and the words that change what is done with them.
LineRegisters(line) ==
  LET named == SelectSeq(line, LAMBDA t : t \in RegisterTokens)
  IN  IF line[1] = "ret" THEN <<LINKR>> ELSE [k \in DOMAIN named |-> Registers[named[k]]]
LineNumber(line) ==
  LET step(acc, t) == IF t \in Operators THEN [acc EXCEPT !.op = t]
                                         ELSE [op |-> "+", n |-> Apply(acc.op, acc.n, NumberOf[t])]
  IN  FoldLeft(step, [op |-> "+", n |-> 0], SelectSeq(line, LAMBDA t : t \in Literal \cup Operators)).n
LineCond(line) ==
  LET c == line[CHOOSE k \in 2 .. Len(line) : line[k-1] = "."]
  IN  IF ~Contains(line, ".") THEN "al" ELSE CASE c = "hs" -> "cs" [] c = "lo" -> "cc" [] OTHER -> c

\* The instruction has the operands the line names.  A reference has no number yet.
SameOperands(line, i) ==
  LET has(f) == f \in DOMAIN i
      field(f) == IF has(f) THEN <<i[f]>> ELSE <<>>
      registers == (IF i.op \in Compares THEN <<>> ELSE field("d")) \o field("n") \o field("m1") \o field("m2")
                   \o (IF has("arg") /\ ~i.arg.imm THEN <<i.arg.m>> ELSE <<>>)
      number == CASE has("arg") -> i.arg.val + i.arg.by [] has("offset") -> (4 * i.offset) % 2^24 [] OTHER -> 0
  IN  /\ registers = LineRegisters(line)
      /\ ToSet(line) \cap Symbols = {} => number = LineNumber(line)
      /\ has("s") => (i.s <=> line[1] \in {"adds", "subs", "movs", "ldrsb"})
      /\ has("cond") => i.cond = LineCond(line)
      /\ has("mode") => (i.mode = "post" <=> Contains(line, "]") /\ line[6] = "]")
      /\ has("arg") => \A t \in ToSet(Tail(line)) \cap Shifts : i.arg.sh = t

References(us) ==
  {<<k, j, sym>> \in UNION {{k} \X (DOMAIN us[k]) \X Symbols : k \in DOMAIN us} :
     IsInstr(us[k][j]) /\ Contains(us[k][j], sym)}

\* Statements have their sections, and a section only grows.
InPlace(u, j) ==
  LET line == u[j]  s == SectionAt(u, j)
  IN  /\ IsInstr(line) => s = ".text"
      /\ line[1] \in DOMAIN DataWidth \cup Literals => s = ".data" /\ (line[1] \in Literals => line[2] \in DOMAIN BytesOf)
      /\ line[1] \in DOMAIN LabelOf => s # ".none"
      /\ line[1] \in {".global", ".extern"} => s = ".none"
      /\ line[1] = ".scend" => ScopesAround(u, j) # {0}
      /\ line[1] \in Advances /\ ~IsFar(line) =>
           /\ s # ".none" /\ (line[1] = ".align" => NumberOf[line[2]] # 0)
           /\ s = ".text" => NumberOf[line[2]] % 4 = 0
           /\ Advanced(line, Place(u, j)) >= Place(u, j)

\* A program that can be built, loaded and run.
Sound(us) ==
  LET pages(s) == SectionStart(us, s) \div PageSize
                    .. (SectionStart(us, s) + TotalIn(us, Len(us), s) - 1) \div PageSize
      used == {s \in Sections : TotalIn(us, Len(us), s) > 0}
  IN  /\ \A k \in DOMAIN us, line \in BadLines : ~Contains(us[k], line)
      /\ \A k \in DOMAIN us : \A j \in DOMAIN us[k] : InPlace(us[k], j)
      /\ \A l, m \in Labels(us) : l.sym = m.sym /\ l.unit = m.unit /\ l.scope = m.scope => l = m
      /\ \A r \in References(us) : Cardinality(Meanings(us, r[1], r[2], r[3])) = 1
      /\ \A sym \in Symbols : Cardinality(Exported(us, sym)) <= 1
      /\ Exported(us, "_start") # {}
      /\ \A s, t \in used : s # t => pages(s) \cap pages(t) = {}

----------------------------------------------------------------------------
(* Properties. *)

\* The preprocessor writes the lines the source means, whatever order directives are
\* read and expanded in (Preprocessor::preprocess).
PreprocessedMeaning == pstate = "processed" => LinesOf(out) = MeaningOf(input)


AddressTable(us) == [k \in DOMAIN us |-> [j \in DOMAIN us[k] |-> AddressOf(us, k, j)]]
HasBytes(at, bytes) ==
  \A b \in DOMAIN bytes : memory.ram[Physical(memory.frames, at + b - 1)] = bytes[b]
InImage(us, address) ==
  LET cell(k, j) == memory.ram[Physical(memory.frames, address[k][j])]
      start == CHOOSE l \in Exported(us, "_start") : TRUE
      target(r) == CHOOSE l \in Meanings(us, r[1], r[2], r[3]) : TRUE
      settled(r, to) == OperandOf(cell(r[1], r[2]))
                        = Wanted(us[r[1]][r[2]], address[to.unit][to.line], address[r[1]][r[2]])
  IN  /\ memory.pc = Physical(memory.frames, address[start.unit][start.line])
      /\ \A k \in DOMAIN us : \A j \in DOMAIN us[k] :
           /\ IsInstr(us[k][j]) => cell(k, j).op = OpOfLine(us[k][j]) /\ SameOperands(us[k][j], cell(k, j))
           /\ us[k][j][1] \in DOMAIN DataWidth \cup Literals => HasBytes(address[k][j], LineBytes(us[k][j]))
      /\ \A r \in References(us) : settled(r, target(r))
\* Every instruction of every unit is in the memory with the operands its line names, and
\* every byte of data, in the frame of its page; each reference has the part it wants of
\* the address of the one label it means, and execution starts at _start
\* (LoadExecutable::load).
ImageFaithful == phase = "loaded" => InImage(Units, AddressTable(Units))

\* What a name leads to: the definitions it has, the macros and the included files.
LeadsTo(name) ==
  UNION ({ToSet(defs[name][n].value) : n \in IF IsKnown(name) THEN DOMAIN defs[name] ELSE {}}
         \cup {ToSet(macros[key].body) : key \in {key \in DOMAIN macros : key[1] = name}}
         \cup {ToSet(files[f]) : f \in {f \in DOMAIN files : Name(f) = name /\ Extension(f) = "binc"}})
RECURSIVE Reached(_)
Reached(names) ==
  LET more == names \cup UNION {LeadsTo(name) : name \in names}
  IN  IF more = names THEN names ELSE Reached(more)

\* A name is expanded that leads back to itself, by what it stands for or by the
\* arguments it is given.
Circular ==
  LET given == ToSet(Line(rest))
      leads(t) == LeadsTo(t) \cup IF t = rest[1] THEN given ELSE {}
  IN  /\ pstate \in {"processing", "hung"} /\ rest # <<>>
      /\ rest[1] \in DOMAIN defs \cup {"#invoke", "#include"}
      /\ \E t \in {rest[1]} \cup given : t \in Reached(leads(t))

\* Every command line comes to an end, but for one with a list of arguments that is not
\* closed (Preprocessor::_invoke), and for one that expands for ever names that lead back
\* to themselves (Preprocessor::preprocess, insert_tokens).
Unclosed == pstate = "hung" /\ rest[1] = "#invoke" /\ ~Contains(Line(rest), ")")
BuildEnds == <>[]((commands = <<>> /\ phase \in Ended) \/ Unclosed) \/ []<>Circular
=============================================================================
