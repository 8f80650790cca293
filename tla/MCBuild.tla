------------------------------ MODULE MCBuild ------------------------------
(* Programs to build.  Each has a directory of its own and a tree for each file, or the  *)
(* tokens of files that no tree has.                                                      *)
EXTENDS Meaning

MCSymbols == {"_start", "f", "g", "inc", "n", "x", "y", "r", "m", "out"}
MCLabelOf == "_start:" :> "_start" @@ "f:" :> "f" @@ "g:" :> "g"
MCNumberOf ==
  "0" :> 0 @@ "1" :> 1 @@ "2" :> 2 @@ "3" :> 3 @@ "4" :> 4 @@ "8" :> 8 @@ "16" :> 16 @@ "31" :> 31
  @@ "32" :> 32 @@ "258" :> 258 @@ "1024" :> 1024 @@ "4096" :> 4096 @@ "4098" :> 4098 @@ "16384" :> 16384
  @@ "16777212" :> 16777212 @@ "16777216" :> 16777216
MCBytesOf == "\"hi\"" :> <<104, 105>> @@ "\"\"" :> <<>> @@ "'a'" :> <<97>>
MCScript ==
  <<"ENTRY", "(", "_start", ")", "SECTIONS", "(", ".text", "=", "0x0000", ";",
    ".data", "=", "0x1000", ";", ".bss", ";", ")">>
MCDigitsOf ==
  "0x0000" :> [base |-> 16, digits |-> <<0, 33, 0, 0, 0, 0>>]
  @@ "0x1000" :> [base |-> 16, digits |-> <<0, 33, 1, 0, 0, 0>>]

T(ts) == Text(ts)
Hlt == T(<<"hlt">>)
Jump(n) == T(<<"b", n>>)
Asm(name) == <<"", name, "basm">>
Binc(name) == <<"", name, "binc">>
Main == Asm("main")
Other == Asm("other")

\* A program: the trees of its files, the arguments of its builds, and the sources of
\* the libraries they make.  Its paths start from a directory of its own, named by id.
Program(id, trees, cmds, libs) == [dir |-> ToString(id), trees |-> trees, commands |-> cmds, libs |-> libs]
Simple(id, trees, args) == Program(id, trees, <<args>>, <<>>)
One(id, tree) == Simple(id, Main :> tree, <<Main>>)

----------------------------------------------------------------------------
(* Where a label is, how it is referred to and from where.                 *)

Reference(kind) ==
  CASE kind = "b"    -> <<"b", "f">>
    [] kind = "lo12" -> <<"add", "x0", ",", "x0", ",", "#", ":lo12:", "f">>
    [] kind = "bl"   -> <<"bl", ".", "ne", "f">>
    [] kind = "adrp" -> <<"adrp", "x0", ",", "#", "f">>
    [] kind = "lo19" -> <<"mov", "x0", ",", ":lo19:", "f">>
    [] kind = "hi13" -> <<"mov", "x0", ",", ":hi13:", "f">>

Either(b, lines) == IF b THEN lines ELSE <<>>

LabelMain(inScope, unit, kind, inside) ==
  <<T(<<".global", "_start">>)>> \o Either(unit = "global", <<T(<<".global", "f">>)>>)
  \o <<T(<<".text">>), T(<<"_start:">>), Hlt, T(<<".scope">>)>>
  \o Either(inside = "first", <<T(Reference(kind)), T(<<".scope">>), Hlt, T(<<".scend">>)>>)
  \o Either(inScope, <<T(<<"f:">>), Hlt>>)
  \o Either(inside = "inner", <<T(<<".scope">>), T(Reference(kind)), T(<<".scend">>)>>)
  \o Either(inside = "deep", <<T(<<".scope">>), T(Reference(kind)), T(<<"f:">>), Hlt, T(<<".scend">>)>>)
  \o <<T(<<".scend">>)>> \o Either(inside = "no", <<T(Reference(kind))>>)
  \o Either(unit # "none", <<T(<<"f:">>), Hlt>>)

LabelOther(unit, sec) ==
  Either(unit = "global", <<T(<<".global", "f">>)>>) \o <<T(<<sec>>)>>
  \o (CASE sec = ".text" -> <<Hlt>> [] sec = ".data" -> <<T(<<".word", "1">>)>>
        [] sec = ".bss" -> <<T(<<".advance", "8">>)>>)
  \o Either(unit # "none", <<T(<<"f:">>)>>)
  \o (IF sec = ".bss" THEN <<T(<<".advance", "8">>)>> ELSE <<T(<<".text">>), Hlt>>)

LabelPrograms ==
  {Simple(<<s, u, i, kind, o>>, Main :> LabelMain(s, u, kind, i) @@ Other :> LabelOther(o[1], o[2]),
          <<Main, Other>>)
   : s \in BOOLEAN, u \in {"none", "local", "global"}, i \in {"first", "inner", "deep", "no"},
     kind \in {"b", "bl", "lo12", "adrp", "lo19", "hi13"},
     o \in {<<"none", ".text">>} \cup ({"local", "global"} \X Sections)}

----------------------------------------------------------------------------
(* Conditional blocks, in each other, over symbols with and without values. *)

Test(kind, sym, v) ==
  IF kind \in {"#ifdef", "#ifndef", "#elsedef", "#elsendef"} THEN <<kind, sym>> ELSE <<kind, sym>> \o v

CondTree(x, y, outer, other) ==
  (IF x = "" THEN <<>> ELSE <<Def("x", <<>>, IF x = "0" THEN <<>> ELSE <<x>>)>>)
  \o (IF y = "" THEN <<>> ELSE <<Def("y", <<>>, <<y>>)>>)
  \o <<T(<<".text">>),
       If(<<Branch(Test(outer, "x", <<"1">>),
                   <<If(<<Branch(<<"#ifndef", "y">>, <<Jump("4")>>),
                          Branch(<<"#elseequ", "y", "2">>, <<Def("x", <<>>, <<"3">>)>>),
                          Branch(<<"#else">>, <<Undef("x", <<>>)>>)>>), Jump("8")>>),
            Branch(Test(other, "y", <<"2">>),
                   <<Jump("16"), If(<<Branch(<<"#ifdef", "x">>, <<Jump("x")>>)>>)>>),
            Branch(<<"#else">>, <<Jump("32"), If(<<Branch(<<"#ifless", "x", "2">>, <<Hlt>>),
                                                   Branch(<<"#else">>, <<Jump("0")>>)>>)>>)>>),
       If(<<Branch(<<"#ifequ", "x", "3">>, <<Hlt>>), Branch(<<"#elsendef", "x">>, <<Jump("4")>>)>>)>>

CondPrograms ==
  {Simple(<<x, y, outer, other>>, Main :> CondTree(x, y, outer, other), <<<<"-c">>, Main>>)
   : x \in {"", "0", "1", "2"}, y \in {"", "1", "2", "3"}, outer \in Conditionals, other \in ElseTests}

----------------------------------------------------------------------------
(* Definitions, macros and included files. *)

Start_ == <<T(<<".global", "_start">>), T(<<".text">>), T(<<"_start:">>)>>

DefineTree ==
  Start_ \o
  <<Def("inc", <<"r", "n">>, <<"add", "r", ",", "r", ",", "#", "n">>),
    Def("inc", <<"r">>, <<"inc", "(", "r", ",", "1", ")">>),
    Def("n", <<>>, <<"8">>), Def("y", <<>>, <<"n">>), Def("n", <<>>, <<"4">>),
    T(<<"inc", "(", "x0", ",", "2", ")">>), T(<<"inc", "(", "x1", ")">>),
    T(<<"b", "n">>), T(<<"bl", "y">>), T(<<";">>),
    Undef("n", <<>>), Undef("inc", <<"2">>), Undef("y", <<"0">>),
    Def("inc", <<>>, <<"16">>), Def("inc", <<"n", "x">>, <<"sub", "x", ",", "n", ",", "x">>),
    T(<<"inc", "(", "x0", ",", "x1", ")">>), T(<<"b", "inc">>),
    Undef("inc", <<>>), T(<<"f:", "b", "f">>)>>

MacroTree(before, result, nested) ==
  Start_ \o Either(before, <<Def("r", <<>>, <<"x2">>), Def("n", <<>>, <<"3">>)>>) \o
  <<Mac("m", <<"r", "n">>,
        <<T(<<"f:", "add", "r", ",", "r", ",", "#", "n">>), T(<<"b", "f">>)>>
        \o Either(result, <<T(<<"#macret", "8">>)>>)),
    Mac("m", <<>>, <<T(<<"add", "x0", ",", "x1", ",", "x2">>)>>),
    [Mac("y", <<"r", "n">>, <<T(<<"add", "r", ",", "n", ",", "r">>)>>) EXCEPT !.sep = <<>>],
    Mac("g", <<"x">>, <<Call("m", <<<<"x">>, <<"2">>>>, Either(result, <<"out">>)),
                        Call("y", <<<<"x">>, <<"sp">>>>, <<>>),
                        T(<<"sub", "x", ",", "x", ",", "#", "1">>)>>)>>
  \o Either(nested, <<Call("g", <<<<"x1">>>>, <<>>)>>)
  \o <<Call("m", <<<<"x0">>, <<"1">>>>, Either(result, <<"out">>)), Call("m", <<>>, <<>>),
       T(<<"f:", "b", "f">>)>>
  \o Either(before, <<T(<<"mov", "r", ",", "#", "n">>)>>)
  \o Either(result, <<T(<<"b", "out">>)>>)

Guarded(sym) == <<If(<<Branch(<<"#ifndef", sym>>, <<Def(sym, <<>>, <<"4">>), Jump(sym)>>)>>)>>
IncludeProgram(args) ==
  Simple("include", Main :> Start_ \o <<Inc(<<"near">>, Binc("near")), Inc(<<"<", "far", ">">>, <<"/inc", "far", "binc">>),
                             Inc(<<"near">>, Binc("near")), T(<<"b", "x">>), T(<<"b", "y">>)>>
         @@ Binc("near") :> Guarded("x")
         @@ <<"/inc", "far", "binc">> :> Guarded("y") \o <<Inc(<<"near">>, Binc("near"))>>,
         args)

----------------------------------------------------------------------------
(* Directives and the forms of the instructions. *)

Lines(tss) == [k \in DOMAIN tss |-> T(tss[k])]

DataTree ==
  Lines(<<<<".global", "_start">>, <<".global", "g">>, <<".extern", "x">>,
          <<".data">>, <<".byte", "1", ",", "258", ",", "3">>, <<".sbyte", "8">>, <<".align", "8">>,
          <<".dbyte", "258", ",", "4098">>, <<".sdbyte", "16">>, <<".org", "16">>,
          <<".word", "16777216">>, <<"g:", ".sword", "16384">>, <<".dword", "258">>, <<".sdword", "4">>,
          <<".advance", "3">>, <<".char", "'a'">>, <<".ascii", "\"hi\"", ",", "\"\"">>, <<".asciz", "\"hi\"">>,
          <<".advance", "16777216">>,
          <<".text">>, <<".advance", "8">>, <<"_start:">>, <<"adrp", "x0", ",", "#", ":hi20:", "g">>,
          <<"add", "x0", ",", "x0", ",", "#", ":lo12:", "g">>, <<".org", "32">>, <<"hlt">>, <<".align", "16">>,
          <<"b", "_start">>>>)

BssTree ==
  Lines(<<<<".global", "_start">>, <<".bss">>, <<".advance", "8">>, <<"f:">>, <<".org", "4098">>, <<"g:">>,
          <<".align", "4">>, <<".text">>, <<"_start:">>, <<"mov", "x0", ",", ":lo19:", "g">>,
          <<"adrp", "x1", ",", "#", "f">>, <<".scope">>, <<"f:", "hlt">>, <<".scend">>, <<"b", "_start">>>>)

DataAndBss == DataTree \o Lines(<<<<".bss">>, <<".advance", "1">>>>)
BssBehind ==
  Lines(<<<<".global", "_start">>, <<".bss">>, <<".advance", "8">>, <<"g:">>, <<".data">>, <<".word", "1">>, <<"f:">>,
          <<".advance", "1024">>, <<".text">>, <<"_start:">>, <<"mov", "x0", ",", ":lo19:", "g">>,
          <<"adrp", "x1", ",", "#", "f">>, <<".bss">>, <<".advance", "1">>>>)
DataStop == DataTree \o Lines(<<<<".stop">>, <<"x0">>, <<".scend">>>>)

FormLines ==
  <<<<"adds", "x0", ",", "x1", ",", "x2">>, <<"sub", "x0", ",", "x1", ",", "x2", ",", "lsr", "#", "3">>,
    <<"and", "x0", ",", "sp", ",", "#", "4", "+", "4", "*", "2">>, <<"orr", "x0", ",", "x1", ",", "#", "16", "-", "2", "*", "3">>,
    <<"cmp", "x0", ",", "x1">>, <<"tst", "x0", ",", "#", "1">>, <<"teq", "x0", ",", "x1", ",", "asr", "#", "1">>,
    <<"mul", "x0", ",", "x1", ",", "x2">>, <<"umull", "x0", ",", "x1", ",", "x2", ",", "sp">>,
    <<"lsl", "x0", ",", "x1", ",", "#", "31">>, <<"ror", "x0", ",", "x1", ",", "x2">>,
    <<"movs", "x0", ",", "#", "4098">>, <<"mvn", "x0", ",", "x1">>, <<"mov", "x0", ",", "x1", "#", "3">>,
    <<"ldr", "x0", ",", "[", "x1">>, <<"ldrsb", "x0", ",", "[", "x1", "]">>,
    <<"ldrh", "x0", ",", "[", "x1", ",", "#", "8", "]">>, <<"str", "x0", ",", "[", "sp", ",", "x1", "]">>,
    <<"strb", "x0", ",", "[", "x1", ",", "x2", ",", "lsl", "#", "2", "]">>,
    <<"strh", "x0", ",", "[", "x1", "]", ",", "#", "4", "]">>,
    <<"swp", "x0", ",", "x1", ",", "[", "x2", "[">>,
    <<"b", "4">>, <<"bl", ".", "ne", "_start">>, <<"bl", ".", "hs", "16777212">>, <<"b", ".", "lo", "8">>, <<"bx", "x1">>,
    <<"blx", ".", "gt", "x2">>, <<"swi", "0">>, <<"hlt">>, <<"ret">>>>

BadForms ==
  <<<<"add", "x0", ",", "x1", ",", "#", "16384">>, <<"add", "x0", ",", "x1", ",", "x2", ",", "lsl", "#", "32">>,
    <<"add", "x0", ",", "x1", ",", "x2", ",", "x0">>, <<"add", "x0", "x1">>, <<"cmp", "x0">>, <<"cmp", "x0", ",", "f">>,
    <<"lsl", "x0", ",", "x1", ",", "#", "32">>, <<"lsl", "x0", ",", "x1", ",", "f">>, <<"lsl", "x0">>,
    <<"umull", "x0", ",", "x1", ",", "x2">>, <<"mov", "x0", ",", "#", "16384">>, <<"mov", "x0", ",", "f">>, <<"mov", "f">>,
    <<"ldr", "x0", ",", "x1">>, <<"ldr", "x0", ",", "[", "x1", ",", "#", "4096", "]">>,
    <<"ldr", "x0", ",", "[", "x1", ",", "x2">>, <<"ldr", "x0", ",", "[", "x1", ",", "f", "]">>,
    <<"str", "x0", ",", "[", "x1", ",", "x2", ",", "lsl", "#", "2">>, <<"swp", "x0", ",", "x1", ",", "[", "x2", "]">>,
    <<"adrp", "x0", ",", "#", "4096">>, <<"b", "3">>, <<"b", "16777216">>, <<"b", ".", "xx", "4">>, <<"bx", ".", "eq", "f">>,
    <<"add", "x0", ",", "x1", ",", "#", "8", "/", "2">>, <<".section", ".text">>, <<"x0", ",">>>>
BadPlaced ==
  {<<<<"f:">>>>, <<<<"hlt">>>>, <<<<"ret">>>>, <<<<".org", "4">>>>, <<<<".data">>, <<".ascii", "f">>>>,
   <<<<".data">>, <<"ret">>>>, <<<<".text">>, <<".word", "1">>>>, <<<<".bss">>, <<".ascii", "\"hi\"">>>>,
   <<<<".text">>, <<".global", "f">>>>, <<<<".text">>, <<".advance", "3">>>>, <<<<".text">>, <<"hlt">>, <<".org", "0">>>>,
   <<<<".data">>, <<".align", "0">>>>, <<<<".data">>, <<".word", "8", "/", "2">>>>, <<<<".scope">>, <<".scend">>, <<".scend">>>>}
BadPreprocessing ==
  <<<<"#macend">>, <<"#macret", "1">>, <<"#include", "x", "y">>, <<"#include", "gone">>, <<"#include", "(", "x", ")">>,
    <<"#define", "x0", "1">>, <<"#define", "f", "(", "n", ",", "n", ")", "1">>, <<"#define", "f", "(", "x0", ")", "1">>,
    <<"#undef", "x0">>, <<"#undef", "f", "1">>, <<"#ifdef", "x0">>, <<"#ifdef", "f">>, <<"#ifndef", "f">>, <<"#ifequ", "x0", "1">>,
    <<"#else", "f">>, <<"#invoke", "f">>, <<"#invoke", "x0", "(", ")">>, <<"#invoke", "f", "(", ")">>,
    <<"#macro", "x0", "(", ")">>, <<"#macro", "f", "(", "n", ")">>, <<"#macro", "f", "(", "x0", ")", "#macend">>,
    <<"#macro", "f", "(", "n", ",", ",", "x", ")", "#macend">>>>
LastUndefine == <<"#undef", "n">>     \* refused where nothing follows it

BadPrograms ==
  {One(<<"form", k>>, Start_ \o <<T(BadForms[k])>>) : k \in DOMAIN BadForms}
  \cup {One(lines, Lines(lines) \o Start_) : lines \in BadPlaced}
  \cup {One(<<"pre", k>>, Start_ \o <<T(BadPreprocessing[k])>>) : k \in DOMAIN BadPreprocessing}
  \cup {One("last", Start_ \o <<LastText(LastUndefine)>>)}

----------------------------------------------------------------------------
(* Arguments, libraries, and builds one after the other. *)

LibMain == Start_ \o Lines(<<<<"bl", "f">>, <<"b", "_start">>>>)
LibOther == Lines(<<<<".global", "f">>, <<".data">>, <<".word", "1">>, <<".text">>, <<"g:", "b", "g">>, <<"f:", "b", "g">>>>)
Lib(dir) == <<dir, "lib", "ba">>
LibProgram(id, dir, make, use) ==
  Program(id, Main :> LibMain @@ Other :> LibOther, <<make, use>>, Lib(dir) :> <<Other>>)

Named(dir, name) == <<dir, name, "">>
CommandPrograms ==
  {LibProgram("library", "", <<<<"-makelib">>, <<"-o">>, Named("", "lib"), Other>>, <<Main, <<"-l">>, Lib("")>>),
   LibProgram("directory", "/lib", <<<<"-makelib">>, <<"-out">>, Named("/lib", "lib"), Other>>,
              <<Main, <<"-L">>, Named("/lib", ""), <<"-L">>, Named("/none", "")>>),
   Program("levels", Main :> LibMain @@ Other :> LibOther,
           <<<<<<"-O">>, <<"4">>, Main, Other>>, <<<<"-optimize">>, <<"3">>, <<"-W">>, <<"error">>, Main, Other>>,
             <<<<"-warning">>, <<"x">>, Main, Other>>>>, <<>>),
   Program("same", Main :> LibOther, <<<<Main, Main>>, <<Asm("none"), <<"-c">>>>>>, <<>>),
   LibProgram("twice", "", <<<<"-makelib">>, <<"-o">>, Named("", "lib"), Other>>,
              <<Main, Other, <<"-lib">>, Lib("")>>),
   Program("commands", Main :> LibMain @@ Other :> LibOther,
           <<<<Main>>, <<Main, <<"-o">>>>, <<Main, Other, <<"-o">>, Named("", "prog")>>, <<Main>>,
             <<<<"-c">>, <<"-kp">>, <<"-outdir">>, Named("/out", ""), Main>>,
             <<<<"-v">>, <<"-oall">>, <<"-O">>, <<"2">>, <<"-D">>, <<"x">>, <<"-compile">>, Other, <<"--">>, Main, <<"x">>>>,
             <<<<"", "main", "txt">>>>, <<<<"x">>, Main>>>>, <<>>)}

\* Names that lead back to themselves: nothing here comes to an end.
CircularPrograms ==
  {One("itself", Start_ \o <<Def("x", <<>>, <<"x">>), Hlt, T(<<"b", "x">>)>>),
   One("each other", Start_ \o <<Def("x", <<>>, <<"y">>), Def("y", <<>>, <<"n">>), Def("n", <<>>, <<"x">>), T(<<"y">>)>>),
   One("argument", Start_ \o <<Mac("m", <<"n">>, <<T(<<"b", "n">>)>>), Call("m", <<<<"n">>>>, <<>>)>>),
   One("applied", Start_ \o <<Def("g", <<"r">>, <<"r", "(", "r", ")">>), T(<<"g", "(", "g", ")">>)>>),
   One("in turn", Start_ \o <<Def("f", <<"r">>, <<"g", "(", "r", ")">>), Def("g", <<"r">>, <<"r", "(", "r", ")">>),
                              T(<<"f", "(", "f", ")">>)>>)}

CuratedPrograms ==
  {One("define", DefineTree), One("data", DataTree), One("stop", DataStop), One("bss", BssTree),
   One("overlap", DataAndBss), One("behind", BssBehind), One("forms", Start_ \o Lines(FormLines)),
   One("double", Start_ \o Lines(<<<<"f:">>, <<"f:">>>>)), One("no start", <<T(<<".text">>), T(<<"_start:">>)>>),
   One("unclosed", Start_ \o <<Mac("m", <<"n">>, <<Hlt>>), T(<<"#invoke", "m", "(", "1">>)>>),
   IncludeProgram(<<Main, <<"-I">>, Named("/inc", "")>>)}
  \cup {One(<<"macro", b, r, n>>, MacroTree(b, r, n)) : b, r, n \in BOOLEAN}

----------------------------------------------------------------------------
AllPrograms ==
  LabelPrograms \cup CondPrograms \cup BadPrograms \cup CommandPrograms \cup CircularPrograms \cup CuratedPrograms

\* Paths and arguments in the directory of a program.
In(dir, path) == <<dir \o path[1], path[2], path[3]>>
Arg(dir, arg) == IF Len(arg) = 3 THEN In(dir, arg) ELSE arg
Moved(dir, fs) ==
  [path \in {In(dir, f) : f \in DOMAIN fs} |-> fs[CHOOSE f \in DOMAIN fs : In(dir, f) = path]]

\* Each file with its tree, each library with its sources.  The quantifiers bind the
\* values, so that TLC works them out once.
PairsOf(f) == {<<path, f[path]>> : path \in DOMAIN f}
Joined(fs) ==
  CHOOSE f \in {[path \in {p[1] : p \in pairs} |-> (CHOOSE p \in pairs : p[1] = path)[2]] @@ <<>>
                : pairs \in {{pair : pair \in UNION {PairsOf(g) : g \in fs}}}} : TRUE
TreesTable == Joined({Moved(p.dir, p.trees) : p \in AllPrograms})
MembersTable ==
  LET full(p, paths) == [i \in DOMAIN paths |-> In(p.dir, paths[i])]
  IN  Joined({Moved(p.dir, [lib \in DOMAIN p.libs |-> full(p, p.libs[lib])]) : p \in AllPrograms})

\* TLC keeps the value of a definition, and evaluates anew what a constant stands for.
MCTrees == TreesTable
MCMembers == MembersTable
MCBadLines == Range(BadForms) \cup Range(BadPreprocessing) \cup {LastUndefine, <<".word", "8", "/", "2">>}
MCPrograms ==
  {[files |-> Moved(p.dir, [f \in DOMAIN p.trees |-> Source(p.trees[f])]),
    commands |-> [c \in DOMAIN p.commands |->
                    [a \in DOMAIN p.commands[c] |-> Arg(p.dir, p.commands[c][a])]]]
   : p \in AllPrograms}
=============================================================================
