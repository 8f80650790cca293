----------------------------- MODULE Preprocessor -----------------------------
(***************************************************************************)
(* Preprocessor::preprocess and the handlers of its directives.  A handler *)
(* reads its directive from the tokens that are left and puts the tokens   *)
(* it produces in front of what follows, where they are looked at again:   *)
(* expansion goes on until nothing is left to expand.                      *)
(***************************************************************************)
EXTENDS Process

VARIABLES
  rest,     \* the tokens that are left
  out,      \* the tokens written
  defs,     \* m_def_symbols: definitions by symbol and number of parameters
  macros,   \* m_macros by name and number of arguments
  stack,    \* m_macro_stack: the output symbols of invocations, the last one first
  input,    \* m_input_file
  pstate    \* m_state, or why the program ended

pvars == <<rest, out, defs, macros, stack, input, pstate>>

Definition(ps, v) == [params |-> ps, value |-> v]
IsKnown(sym) == sym \in DOMAIN defs
IsDefined(sym, n) == sym \in DOMAIN defs /\ n \in DOMAIN defs[sym]

\* filter_all takes the comments out of the file, and of no file it includes.
StartPreprocess(path) ==
  /\ input' = path /\ pstate' = "processing"
  /\ rest' = FilterAll(Tokenized(files[path]), Comments)
  /\ out' = <<>> /\ defs' = <<>> /\ macros' = <<>> /\ stack' = <<>>

PreprocessorInit ==
  /\ rest = <<>> /\ out = <<>> /\ defs = <<>> /\ macros = <<>> /\ stack = <<>>
  /\ input = DefaultOutput /\ pstate = "unprocessed"

At(kinds) == pstate = "processing" /\ rest # <<>> /\ rest[1] \in kinds
PreprocessorError ==
  /\ pstate' = "failed"
  /\ UNCHANGED <<rest, out, defs, macros, stack, input>>
Continue(ts) == rest' = ts /\ UNCHANGED <<input, pstate>>

\* A line: what stands between a directive and the end of its line, and what follows.
Line(ts) == IF Has(ts, {NL}) THEN SubSeq(ts, 2, First(ts, {NL}) - 1) ELSE <<>>
AfterLine(ts) == From(ts, First(ts, {NL}) + 1)
OwnLine(n) == Has(rest, {NL}) /\ Len(Line(rest)) = n

----------------------------------------------------------------------------
(* Symbols and their definitions. *)

\* Slip: every parameter stands for the first argument.
SlipSubstitute(value, params, args) ==
  FoldLeft(LAMBDA done, t : done \o IF t \in ToSet(params) THEN args[1] ELSE <<t>>, <<>>, value)

\* The first token of an argument is passed over, the rest of it is looked at
\* for parameters again.
Substitute(value, params, args) ==
  LET Named(t) == {k \in DOMAIN params : params[k] = t}
      subst[d \in Seq(STRING)] ==
        IF d = <<>> THEN <<>>
        ELSE LET e == IF Named(d[1]) = {} THEN d
                      ELSE args[CHOOSE k \in Named(d[1]) : TRUE] \o Tail(d)
             IN  IF e = <<>> THEN <<>> ELSE <<e[1]>> \o subst[Tail(e)]
  IN  subst[value]

\* Write a token that means nothing to the preprocessor.
Write ==
  /\ pstate = "processing" /\ rest # <<>>
  /\ rest[1] \notin PreprocessorTokens \cup DOMAIN defs
  /\ out' = Append(out, rest[1])
  /\ Continue(Tail(rest)) /\ UNCHANGED <<defs, macros, stack>>

\* Bound: arguments stand on one line.  An expansion that changes nothing goes on for ever.
Expand ==
  /\ At(DOMAIN defs)
  /\ LET called == Len(rest) > 1 /\ rest[2] = "("
         close == First(rest, {")"})
         args == SplitAt(SubSeq(rest, 3, close - 1), ",")
         given == IF called THEN Len(args) ELSE 0
         after == IF called THEN From(rest, close + 1) ELSE Tail(rest)
     IN  IF (called /\ ~Has(rest, {")"})) \/ ~IsDefined(rest[1], given)
           THEN PreprocessorError
           ELSE LET d == defs[rest[1]][given]
                    expanded == Substitute(d.value, d.params, args) \o after
                IN  /\ rest' = expanded
                    /\ pstate' = IF expanded = rest THEN "hung" ELSE pstate
                    /\ UNCHANGED <<out, defs, macros, stack, input>>

\* A value ends with its line, unless the last token of the line is "\".
Value(ts) ==
  LET ends == {k \in Where(ts, {NL}) : k = 1 \/ ts[k-1] # "\\"}
  IN  [at |-> Min(ends), ts |-> FilterAll(UpTo(ts, Min(ends) - 1), {"\\"})]

Bind(ds, sym, d) ==
  (sym :> ((Len(d.params) :> d) @@ (IF sym \in DOMAIN ds THEN ds[sym] ELSE <<>>))) @@ ds

Define ==
  /\ At({"#define"})
  /\ LET listed == rest[3] = "("
         close == First(rest, {")"})
         params == IF listed THEN SplitAt(SubSeq(rest, 4, close - 1), ",") ELSE <<>>
         value == Value(From(rest, IF listed THEN close + 1 ELSE 3))
     IN  IF \/ ~IsSymbol(rest[2])
            \/ listed /\ (\/ ~Has(rest, {")"})
                          \/ \E k \in DOMAIN params : Len(params[k]) # 1 \/ ~IsSymbol(params[k][1])
                          \/ \E j, k \in DOMAIN params : j # k /\ params[j] = params[k])
           THEN PreprocessorError
           ELSE /\ defs' = Bind(defs, rest[2],
                                Definition([k \in DOMAIN params |-> params[k][1]], value.ts))
                /\ Continue(From(rest, (IF listed THEN close ELSE 2) + value.at + 1))
                /\ UNCHANGED <<out, macros, stack>>

\* A number of parameters is looked for on the line that follows the directive, and
\* there has to be one.  A symbol left without definitions is still known, and an error
\* wherever it stands.
Undefine ==
  /\ At({"#undef"})
  /\ IF ~OwnLine(1) \/ ~IsSymbol(rest[2]) \/ AfterLine(rest) = <<>> THEN PreprocessorError
     ELSE LET after == AfterLine(rest)
              one == after[1] \in DOMAIN NumberOf
              kept == IF IsKnown(rest[2]) /\ one
                        THEN Restrict(defs[rest[2]], DOMAIN defs[rest[2]] \ {NumberOf[after[1]]})
                        ELSE <<>>
          IN  /\ defs' = (IF one THEN rest[2] :> kept ELSE <<>>)
                         @@ Restrict(defs, DOMAIN defs \ {rest[2]})
              /\ Continue(IF one THEN Tail(after) ELSE after)
              /\ UNCHANGED <<out, macros, stack>>

----------------------------------------------------------------------------
(* Conditional blocks. *)

\* Slip: blocks inside a block are not counted.
SlipDepth(ts, k) == 0

Depth(ts, k) ==
  Cardinality({j \in 1 .. k-1 : ts[j] \in Conditionals})
  - Cardinality({j \in 1 .. k-1 : ts[j] = "#endif"})

\* cond_block: enter the block that begins here and take out the ones after it,
\* or go to the next one.
CondBlock(met, ts) ==
  LET ends == {k \in Where(ts, {"#endif"}) : Depth(ts, k) = 0}
      next == {k \in Where(ts, Elses) : Depth(ts, k) = 0
                 /\ \A e \in ends : Min(ends) > k} \cup (IF ends = {} THEN {} ELSE {Min(ends)})
  IN  IF (met /\ ends = {}) \/ (~met /\ next = {}) THEN PreprocessorError
      ELSE /\ Continue(IF met THEN UpTo(ts, Min(next) - 1) \o From(ts, Min(ends))
                              ELSE From(ts, Min(next)))
           /\ UNCHANGED <<out, defs, macros, stack>>

CondOnDef ==
  /\ At({"#ifdef", "#ifndef", "#elsedef", "#elsendef"})
  /\ IF ~OwnLine(1) \/ ~IsSymbol(rest[2]) THEN PreprocessorError
     ELSE CondBlock(IsDefined(rest[2], 0) = (rest[1] \in {"#ifdef", "#elsedef"}),
                    AfterLine(rest))

\* Values are compared as text.  Bound: they have one token at most, and the
\* numbers have one digit.
TextLess(a, b) ==
  \/ a = <<>> /\ b # <<>>
  \/ a # <<>> /\ b # <<>> /\ NumberOf[a[1]] < NumberOf[b[1]]

CondOnValue ==
  /\ At({"#ifequ", "#ifnequ", "#ifless", "#ifmore",
         "#elseequ", "#elsenequ", "#elseless", "#elsemore"})
  /\ IF ~IsSymbol(rest[2]) THEN PreprocessorError
     ELSE LET value == Value(From(rest, 3))
              has == IF IsDefined(rest[2], 0) THEN defs[rest[2]][0].value ELSE <<>>
          IN  CondBlock(CASE rest[1] \in {"#ifequ", "#elseequ"}   -> has = value.ts
                          [] rest[1] \in {"#ifnequ", "#elsenequ"} -> has # value.ts
                          [] rest[1] \in {"#ifless", "#elseless"} -> TextLess(has, value.ts)
                          [] rest[1] \in {"#ifmore", "#elsemore"} -> TextLess(value.ts, has),
                        From(rest, 3 + value.at))

ElseOrEndif ==
  /\ At({"#else", "#endif"})
  /\ IF ~OwnLine(0) THEN PreprocessorError
     ELSE Continue(AfterLine(rest)) /\ UNCHANGED <<out, defs, macros, stack>>

----------------------------------------------------------------------------
(* Files and macros. *)

\* A local file is looked for in the directory of the input file, also when a
\* file in another directory includes it.
Include ==
  /\ At({"#include"})
  /\ LET line == Line(rest)
         dirs == IF Len(line) = 1 THEN <<Dir(input)>> ELSE job.includes
         name == IF Len(line) = 1 THEN line[1] ELSE line[2]
         found == {k \in DOMAIN dirs : Path(dirs[k], name, "binc") \in DOMAIN files}
     IN  IF \/ Len(line) \notin {1, 3} \/ Cardinality(found) # 1
            \/ Len(line) = 3 /\ (line[1] # "<" \/ line[3] # ">")
           THEN PreprocessorError
           ELSE /\ Continue(Tokenized(files[Path(dirs[Min(found)], name, "binc")]) \o AfterLine(rest))
                /\ UNCHANGED <<out, defs, macros, stack>>

\* A comma may stand between the names of two arguments, and behind the last one.
Macro ==
  /\ At({"#macro"})
  /\ LET close == First(rest, {")"})
         list == SubSeq(rest, 4, close - 1)
         args == FilterAll(list, {","})
         end == First(rest, {"#macend"})
         start == Min({k \in close + 1 .. end : rest[k] # NL})
     IN  IF \/ ~IsSymbol(rest[2]) \/ rest[3] # "("
            \/ ~Has(rest, {")"}) \/ ~Has(rest, {"#macend"})
            \/ \E k \in DOMAIN args : ~IsSymbol(args[k])
            \/ \E k \in DOMAIN list : list[k] = "," /\ (k = 1 \/ list[k-1] = ",")
            \/ rest[end + 1] # NL
            \/ <<rest[2], Len(args)>> \in DOMAIN macros
           THEN PreprocessorError
           ELSE /\ macros' = (<<rest[2], Len(args)>> :>
                                [args |-> args, body |-> SubSeq(rest, start, end - 1)]) @@ macros
                /\ Continue(From(rest, end + 2))
                /\ UNCHANGED <<out, defs, stack>>

DefineLine(sym, value) == <<"#define", sym>> \o value \o <<NL>>
Concat(ts) == FoldLeft(LAMBDA a, b : a \o b, <<>>, ts)

\* Slip: what the arguments meant before is not defined again.
SlipExpansion(macro, args) ==
  <<".scope", NL>>
  \o Concat([k \in DOMAIN args |-> DefineLine(macro.args[k], args[k])])
  \o macro.body \o <<NL, ".scend", NL>>

\* The body in a scope of its own.  Symbols that have the name of an argument and
\* are defined get their definition back; the others keep the argument.
Expansion(macro, args) ==
  LET before(k) == IF IsDefined(macro.args[k], 0)
                     THEN DefineLine(macro.args[k], defs[macro.args[k]][0].value) ELSE <<>>
  IN  <<".scope", NL>>
      \o Concat([k \in DOMAIN args |-> DefineLine(macro.args[k], args[k])])
      \o macro.body \o <<NL, ".scend", NL>>
      \o Concat([k \in DOMAIN args |-> before(k)])

\* A list of arguments that is not closed on its line is read for ever.
Invoke ==
  /\ At({"#invoke"})
  /\ LET line == Line(rest)
         close == First(line, {")"})
         args == SplitAt(SubSeq(line, 3, close - 1), ",")
         result == From(line, close + 1)
     IN  CASE Len(line) < 2 -> PreprocessorError
           [] Len(line) >= 2 /\ (~IsSymbol(line[1]) \/ line[2] # "(") -> PreprocessorError
           [] Len(line) >= 2 /\ IsSymbol(line[1]) /\ line[2] = "(" /\ ~Has(line, {")"}) ->
                pstate' = "hung" /\ UNCHANGED <<rest, out, defs, macros, stack, input>>
           [] OTHER ->
                IF \/ Len(result) > 1
                   \/ \E t \in ToSet(result) : ~IsSymbol(t)
                   \/ <<line[1], Len(args)>> \notin DOMAIN macros
                  THEN PreprocessorError
                  ELSE /\ Continue(Expansion(macros[<<line[1], Len(args)>>], args)
                                   \o AfterLine(rest))
                       /\ stack' = <<result>> \o stack
                       /\ UNCHANGED <<out, defs, macros>>

\* The definition of the output symbol takes the place of the end of the line: the
\* line after it, if it is not empty, becomes a part of the value.
Macret ==
  /\ At({"#macret"})
  /\ IF stack = <<>> THEN PreprocessorError
     ELSE /\ Continue(<<"#define">> \o stack[1] \o Line(rest) \o AfterLine(rest))
          /\ stack' = Tail(stack)
          /\ UNCHANGED <<out, defs, macros>>

Macend == At({"#macend"}) /\ PreprocessorError

Finish ==
  /\ pstate = "processing" /\ rest = <<>>
  /\ pstate' = "processed"
  /\ UNCHANGED <<rest, out, defs, macros, stack, input>>

PreprocessorNext ==
  \/ Write \/ Expand \/ Define \/ Undefine
  \/ CondOnDef \/ CondOnValue \/ ElseOrEndif
  \/ Include \/ Macro \/ Invoke \/ Macret \/ Macend
  \/ Finish
=============================================================================
