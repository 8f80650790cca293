------------------------------- MODULE Tokens -------------------------------
(***************************************************************************)
(* The tokens of a source file (assembler/tokenizer.cpp).  A token is its  *)
(* text; blanks and tabs are left out and ends of line are kept.  What     *)
(* tokenizing finds out about a token - that it is a symbol, a label, a    *)
(* number - is given by the constants, so that a file is already split.    *)
(***************************************************************************)
EXTENDS InstructionFormats

CONSTANTS
  Symbols,    \* the names programs use
  LabelOf,    \* the symbol of each label token
  NumberOf,   \* the value of each literal number
  BytesOf     \* the bytes of each literal string or character, without the quotes

\* A token is never empty.
ASSUME TokensAssumption ==
  /\ "" \notin Symbols
  /\ LabelOf \in [DOMAIN LabelOf -> Symbols]
  /\ NumberOf \in [DOMAIN NumberOf -> Nat]
  /\ BytesOf \in [DOMAIN BytesOf -> Seq(0 .. 255)]

NL == "\n"
Comments == {";"}

Conditionals == {"#ifdef", "#ifndef", "#ifequ", "#ifnequ", "#ifless", "#ifmore"}
ElseTests == {"#elsedef", "#elsendef", "#elseequ", "#elsenequ", "#elseless", "#elsemore"}
Elses == {"#else"} \cup ElseTests
PreprocessorTokens ==
  {"#include", "#macro", "#macret", "#macend", "#invoke", "#define", "#undef", "#endif"}
  \cup Conditionals \cup Elses

Sections == {".text", ".data", ".bss"}
DataWidth ==
  [t \in {".byte", ".sbyte", ".dbyte", ".sdbyte", ".word", ".sword", ".dword", ".sdword"} |->
     CASE t \in {".byte", ".sbyte"} -> 1 [] t \in {".dbyte", ".sdbyte"} -> 2
       [] t \in {".word", ".sword"} -> 4 [] t \in {".dword", ".sdword"} -> 8]
Literals == {".char", ".ascii", ".asciz"}

Registers == [x0 |-> 0, x1 |-> 1, x2 |-> 2, x29 |-> LINKR, sp |-> SP, xzr |-> XZR]

(***************************************************************************)
(* Cursors.  A cursor never goes back, so that what is left of a file      *)
(* stands for it; get_token, skip_next and consume take its first token.   *)
(***************************************************************************)
Where(ts, kinds) == {k \in DOMAIN ts : ts[k] \in kinds}
Has(ts, kinds) == Where(ts, kinds) # {}
First(ts, kinds) == Min(Where(ts, kinds))
From(ts, k) == SubSeq(ts, k, Len(ts))
UpTo(ts, k) == SubSeq(ts, 1, k)
FilterAll(ts, kinds) == SelectSeq(ts, LAMBDA t : t \notin kinds)
IsSymbol(t) == t \in Symbols

\* tokenize puts an end of line behind what the file has.
Tokenized(ts) == Append(ts, NL)

\* A list between parentheses: parts split at commas, where nothing follows a
\* last comma.
SplitAt(ts, sep) ==
  LET next(parts, t) == IF t = sep THEN Append(parts, <<>>)
                        ELSE [parts EXCEPT ![Len(parts)] = Append(@, t)]
      parts == FoldLeft(next, <<<<>>>>, ts)
  IN  IF Last(parts) = <<>> THEN Front(parts) ELSE parts
=============================================================================
