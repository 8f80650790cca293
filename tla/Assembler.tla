----------------------------- MODULE Assembler -----------------------------
(***************************************************************************)
(* Assembler::assemble: one action per token that begins a statement, with *)
(* all of the statement the handler takes, then fill_local and the object  *)
(* file (assembler.cpp, directives.cpp, assembler/instructions.cpp).       *)
(***************************************************************************)
EXTENDS ObjectFile

VARIABLES
  toks,       \* m_tokens
  ti,         \* how many of them are dealt with
  obj,        \* m_obj
  section,    \* current_section, NoSection outside of any
  scopes,     \* the scopes open here, the innermost last
  total,      \* total_scopes
  astate      \* m_state, or why the program ended

avars == <<toks, ti, obj, section, scopes, total, astate>>

StartAssemble(path) ==
  /\ toks' = Tokenized(files[path]) /\ ti' = 0
  /\ obj' = EmptyObject /\ section' = NoSection
  /\ scopes' = <<>> /\ total' = 0 /\ astate' = "assembling"

AssemblerInit ==
  /\ toks = <<>> /\ ti = 0 /\ obj = EmptyObject /\ section = NoSection
  /\ scopes = <<>> /\ total = 0 /\ astate = "not assembled"

AssemblerError ==
  /\ astate' = "failed"
  /\ UNCHANGED <<toks, ti, obj, section, scopes, total>>

Statement == From(toks, ti + 1)
Starts(kinds) == astate = "assembling" /\ ti < Len(toks) /\ toks[ti + 1] \in kinds
Take(n) == ti' = ti + n

----------------------------------------------------------------------------
(* Operands.  A parser takes a statement and answers with the set of what  *)
(* it makes of it: nothing where the code stops with an error, else the    *)
(* instruction, what it refers to and how many tokens it took.             *)

Parsed(i, refs, n) == [instr |-> i, refs |-> refs, took |-> n]
Refer(sym, type) == <<[sym |-> sym, type |-> type]>>

RegisterTokens == DOMAIN Registers
Literal == DOMAIN NumberOf
Operators == {"+", "-", "*"}

Follow(ts, kinds) == Len(ts) >= Len(kinds) /\ \A k \in DOMAIN kinds : ts[k] \in kinds[k]
Token(ts, k) == IF k \in DOMAIN ts THEN ts[k] ELSE ""

\* parse_expression, from left to right without precedence.  What is not a number
\* counts as 0.  The expression goes on while an operator and another token follow,
\* and the code stops where the file ends inside of it.  A "/" is no operator: the
\* tokenizer takes it for a slash before it comes to division, and the expression ends
\* in front of it.
Apply(op, a, b) == CASE op = "+" -> a + b [] op = "-" -> a - b [] op = "*" -> a * b

Expression(ts, k) ==
  LET value(t) == IF t \in Literal THEN NumberOf[t] ELSE 0
      at(n) == k + 2 * n        \* the value after n operators
      goesOn(j) == Token(ts, j+1) \in Operators /\ Token(ts, j+2) \notin {NL, ","}
      ends == {n \in 0 .. Len(ts) : at(n) < Len(ts) /\ ~goesOn(at(n))}
      count == Min(ends)
      v[n \in 0 .. count] == IF n = 0 THEN value(ts[k])
                             ELSE Apply(ts[at(n) - 1], v[n-1], value(ts[at(n)]))
      end == IF Token(ts, at(count) + 1) \in Operators THEN at(count) + 1 ELSE at(count)
  IN  IF ends = {} THEN {} ELSE {[val |-> v[count], end |-> end]}

Fits(v, n) == v >= 0 /\ v < 2^n

\* The registers, commas and signs that formats begin with.
RegComma == <<RegisterTokens, {","}>>
Mnemonic(t) == [op |-> t.op, s |-> t.s]

\* lsl #3 and the like, from the k-th token on.
ParseShift(ts, k) ==
  IF Token(ts, k) \notin Shifts \/ Token(ts, k+1) # "#" THEN {}
  ELSE {[sh |-> ts[k], by |-> e.val % 32, end |-> e.end]
        : e \in {x \in Expression(ts, k+2) : x.val < 32}}

ParseO(t, ts) ==
  LET i(arg) == [op |-> t.op, s |-> t.s, d |-> Registers[ts[2]], n |-> Registers[ts[4]],
                 arg |-> arg]
  IN  IF ~Follow(ts, <<{t.name}>> \o RegComma \o RegComma) THEN {}
      ELSE CASE Token(ts, 6) \in RegisterTokens /\ Token(ts, 7) # "," ->
                {Parsed(i(Reg(Registers[ts[6]])), <<>>, 6)}
           [] Token(ts, 6) \in RegisterTokens /\ Token(ts, 7) = "," ->
                {Parsed(i(Shifted(Registers[ts[6]], x.sh, x.by)), <<>>, x.end)
                 : x \in ParseShift(ts, 8)}
           [] Token(ts, 6) = "#" /\ Token(ts, 7) = ":lo12:" /\ IsSymbol(Token(ts, 8)) ->
                {Parsed(i(Imm(0)), Refer(ts[8], "O_LO12"), 8)}
           [] Token(ts, 6) = "#" /\ Token(ts, 7) \in Literal ->
                {Parsed(i(Imm(e.val)), <<>>, e.end) : e \in {x \in Expression(ts, 7) : Fits(x.val, 14)}}
           [] OTHER -> {}

\* insert_xzr: a comparison is an operation whose result is dropped.
ParseCompare(t, ts) ==
  {[p EXCEPT !.took = @ - 2] : p \in ParseO(t, <<ts[1], "xzr", ",">> \o Tail(ts))}

ParseO1(t, ts) ==
  LET i(arg) == [op |-> t.op, s |-> FALSE, d |-> Registers[ts[2]], n |-> Registers[ts[4]],
                 arg |-> arg]
  IN  IF ~Follow(ts, <<{t.name}>> \o RegComma \o RegComma) THEN {}
      ELSE CASE Token(ts, 6) \in RegisterTokens -> {Parsed(i(Reg(Registers[ts[6]])), <<>>, 6)}
           [] Token(ts, 6) = "#" /\ Len(ts) > 6 ->
                {Parsed(i(Imm(e.val % 32)), <<>>, e.end) : e \in {x \in Expression(ts, 7) : x.val < 32}}
           [] OTHER -> {}

ParseO2(t, ts) ==
  IF ~Follow(ts, <<{t.name}>> \o RegComma \o RegComma \o RegComma \o <<RegisterTokens>>) THEN {}
  ELSE {Parsed([op |-> t.op, s |-> t.s, d |-> Registers[ts[2]], n |-> Registers[ts[4]],
                m1 |-> Registers[ts[6]], m2 |-> Registers[ts[8]]], <<>>, 8)}

ParseO3(t, ts) ==
  LET i(arg) == [op |-> t.op, s |-> t.s, d |-> Registers[ts[2]], arg |-> arg]
  IN  IF ~Follow(ts, <<{t.name}>> \o RegComma) THEN {}
      ELSE CASE Token(ts, 4) \in RegisterTokens /\ Token(ts, 5) # "#" ->
                {Parsed(i(Reg(Registers[ts[4]])), <<>>, 4)}
           [] Token(ts, 4) \in RegisterTokens /\ Token(ts, 5) = "#" ->
                {Parsed(i([Reg(Registers[ts[4]]) EXCEPT !.val = e.val]), <<>>, e.end)
                 : e \in Expression(ts, 6)}
           [] Token(ts, 4) = ":lo19:" /\ IsSymbol(Token(ts, 5)) ->
                {Parsed(i(Imm(0)), Refer(ts[5], "MOV_LO19"), 5)}
           [] Token(ts, 4) = ":hi13:" /\ IsSymbol(Token(ts, 5)) ->
                {Parsed(i(Imm(0)), Refer(ts[5], "MOV_HI13"), 5)}
           [] Token(ts, 4) = "#" /\ Len(ts) > 4 ->
                {Parsed(i(Imm(e.val)), <<>>, e.end) : e \in {x \in Expression(ts, 5) : Fits(x.val, 14)}}
           [] OTHER -> {}

\* The mode a memory operand has is settled before its offset is looked at: after a
\* "]" the access is post-indexed and an offset still has to end in "]".
ParseM(t, ts) ==
  LET closed == Token(ts, 6) = "]"
      k == IF closed THEN 7 ELSE 6      \* where a comma may stand
      i(arg) == [op |-> t.op, s |-> t.s, d |-> Registers[ts[2]], n |-> Registers[ts[5]],
                 arg |-> arg, mode |-> IF closed THEN "post" ELSE "offset"]
      close(j) == Token(ts, j+1) = "]"
  IN  IF ~Follow(ts, <<{t.name}>> \o RegComma \o <<{"["}, RegisterTokens>>) THEN {}
      ELSE CASE Token(ts, k) # "," -> {Parsed(i(Imm(0)), <<>>, k-1)}
           [] Token(ts, k) = "," /\ Token(ts, k+1) = "#" /\ Len(ts) > k + 1 ->
                {Parsed(i(Imm(e.val)), <<>>, e.end + 1)
                 : e \in {x \in Expression(ts, k+2) : Fits(x.val, 12) /\ close(x.end)}}
           [] Token(ts, k) = "," /\ Token(ts, k+1) \in RegisterTokens /\ Token(ts, k+2) # "," ->
                IF close(k+1) THEN {Parsed(i(Reg(Registers[ts[k+1]])), <<>>, k + 2)} ELSE {}
           [] Token(ts, k) = "," /\ Token(ts, k+1) \in RegisterTokens /\ Token(ts, k+2) = "," ->
                {Parsed(i(Shifted(Registers[ts[k+1]], x.sh, x.by)), <<>>, x.end + 1)
                 : x \in {y \in ParseShift(ts, k+3) : close(y.end)}}
           [] OTHER -> {}

\* The bracket that closes is an opening one.
ParseM1(t, ts) ==
  IF ~Follow(ts, <<{t.name}>> \o RegComma \o RegComma \o <<{"["}, RegisterTokens, {"["}>>) THEN {}
  ELSE {Parsed([op |-> t.op, s |-> FALSE, d |-> Registers[ts[2]], n |-> Registers[ts[4]],
                m1 |-> Registers[ts[7]]], <<>>, 8)}

ParseM2(t, ts) ==
  LET k == IF Token(ts, 5) = ":hi20:" THEN 6 ELSE 5
  IN  IF ~Follow(ts, <<{t.name}>> \o RegComma \o <<{"#"}>>) \/ ~IsSymbol(Token(ts, k)) THEN {}
      ELSE {Parsed([op |-> t.op, s |-> FALSE, d |-> Registers[ts[2]], page |-> 0],
                   Refer(ts[k], "ADRP_HI20"), k)}

\* A condition after a period, and how many tokens there are before the operand.
CondNames == ToSet(Conds) \cup {"hs", "lo"}
Cond(ts) ==
  IF Token(ts, 2) # "." THEN {[cond |-> "al", k |-> 1]}
  ELSE IF Token(ts, 3) \notin CondNames THEN {}
  ELSE {[cond |-> CASE ts[3] = "hs" -> "cs" [] ts[3] = "lo" -> "cc" [] OTHER -> ts[3], k |-> 3]}

\* A distance is given in bytes and must be a number of 24 bits, with its sign.
ParseB1(t, ts) ==
  LET of(c) ==
        LET i(n) == [op |-> t.op, cond |-> c.cond, offset |-> n]
            signed(v) == IF v >= 2^23 THEN v - 2^24 ELSE v
        IN  CASE IsSymbol(Token(ts, c.k + 1)) ->
                   {Parsed(i(0), Refer(ts[c.k + 1], "B_OFFSET22"), c.k + 1)}
              [] OTHER ->
                   {Parsed(i(signed(e.val) \div 4), <<>>, e.end)
                    : e \in {x \in Expression(ts, c.k + 1) : Fits(x.val, 24) /\ x.val % 4 = 0}}
  IN  UNION {of(c) : c \in Cond(ts)}

ParseB2(t, ts) ==
  {Parsed([op |-> t.op, cond |-> c.cond, d |-> Registers[ts[c.k + 1]]], <<>>, c.k + 1)
   : c \in {x \in Cond(ts) : Token(ts, x.k + 1) \in RegisterTokens}}

\* The mnemonics: adds is an add that sets the flags; ldrsb is an ldrb that is signed.
Mnemonics ==
  LET plain(ops) == {[name |-> op, op |-> op, s |-> FALSE] : op \in ops}
      flagged == {[name |-> "adds", op |-> "add", s |-> TRUE], [name |-> "subs", op |-> "sub", s |-> TRUE],
                  [name |-> "movs", op |-> "mov", s |-> TRUE], [name |-> "ldrsb", op |-> "ldrb", s |-> TRUE]}
  IN  plain(DOMAIN Opcode \ {"vabs", "vmov", "nop"}) \cup flagged
MnemonicNames == {t.name : t \in Mnemonics}
MnemonicOf(name) == CHOOSE t \in Mnemonics : t.name = name

Parse(ts) ==
  LET t == MnemonicOf(ts[1])
  IN  CASE t.op \in Adders \cup Subbers \cup Logicals \cup {"mul"} -> ParseO(t, ts)
        [] t.op \in Compares              -> ParseCompare(t, ts)
        [] t.op \in Shifts                -> ParseO1(t, ts)
        [] t.op \in LongMuls              -> ParseO2(t, ts)
        [] t.op \in Moves                 -> ParseO3(t, ts)
        [] t.op \in Loads \cup Stores     -> ParseM(t, ts)
        [] t.op \in Swaps                 -> ParseM1(t, ts)
        [] t.op = "adrp"                  -> ParseM2(t, ts)
        [] t.op \in Jumps \cup {"swi"}    -> ParseB1(t, ts)
        [] t.op \in RegJumps              -> ParseB2(t, ts)
        [] t.op = "hlt"                   -> {Parsed([op |-> "hlt"], <<>>, 1)}

----------------------------------------------------------------------------
(* Statements. *)

Skip ==
  /\ Starts({NL} \cup Comments)
  /\ Take(1) /\ UNCHANGED <<toks, obj, section, scopes, total, astate>>

Here(o) == IF section = TEXT THEN 4 * Len(o.text) ELSE IF section = DATA THEN Len(o.data) ELSE o.bss
InnerScope == IF scopes = <<>> THEN -1 ELSE Last(scopes)

\* A symbol that is defined twice ends the build.
Accept(o, n) ==
  IF ~o.ok THEN AssemblerError
  ELSE obj' = o /\ Take(n) /\ UNCHANGED <<toks, section, scopes, total, astate>>

Label ==
  /\ Starts(DOMAIN LabelOf)
  /\ IF section = NoSection THEN AssemblerError
     ELSE Accept(AddSymbol(obj, SymbolName(LabelOf[toks[ti+1]], InnerScope, -1),
                           Here(obj), "local", section), 1)

\* Slip: the relocation entry has the place in the section counted in instructions.
SlipAddReference(o, ref, token) ==
  LET named == AddSymbol(o, Plain(ref.sym), 0, "weak", NoSection)
  IN  [named EXCEPT !.rels = Append(@, [offset |-> Len(o.text), sym |-> IdOf(named, Plain(ref.sym)),
                                        type |-> ref.type, token |-> token])]

AddReference(o, ref, token) ==
  LET named == AddSymbol(o, Plain(ref.sym), 0, "weak", NoSection)
  IN  [named EXCEPT !.rels = Append(@, [offset |-> 4 * Len(o.text), sym |-> IdOf(named, Plain(ref.sym)),
                                        type |-> ref.type, token |-> token])]

Instruct ==
  /\ Starts(MnemonicNames)
  /\ LET parse == Parse(Statement)
         p == CHOOSE x \in parse : TRUE
         referred == IF p.refs = <<>> THEN obj ELSE AddReference(obj, p.refs[1], ti + p.took)
     IN  IF section # TEXT \/ parse = {} THEN AssemblerError
         ELSE Accept([referred EXCEPT !.text = Append(@, p.instr)], p.took)

\* ret stands for bx x29.
Return ==
  /\ Starts({"ret"})
  /\ IF section # TEXT THEN AssemblerError
     ELSE /\ toks' = UpTo(toks, ti + 1) \o <<"bx", "x29">> \o From(toks, ti + 2)
          /\ Take(1) /\ UNCHANGED <<obj, section, scopes, total, astate>>

\* .global and .extern declare a symbol, before any section begins.  Bound: what they
\* declare stands on their line and is no section's name.
Declare ==
  /\ Starts({".global", ".extern"})
  /\ section = NoSection => IsSymbol(Token(Statement, 2))
  /\ IF section # NoSection THEN AssemblerError
     ELSE Accept(AddSymbol(obj, Plain(Statement[2]), 0,
                           IF Statement[1] = ".global" THEN "global" ELSE "weak", NoSection), 2)

\* Slip: an .org moves on by its argument.
SlipTarget(t, at, v) == IF t = ".align" THEN at + ((v - (at % v)) % v) ELSE at + v

\* Where .org, .advance and .align go to.
Target(t, at, v) ==
  CASE t = ".org" -> v
    [] t = ".advance" -> at + v
    [] t = ".align" -> at + ((v - (at % v)) % v)

Filled(seq, n, cell) == seq \o [k \in 1 .. n - Len(seq) |-> cell]

\* A place that is far away is a slip of the programmer's: the directive does nothing.
Far(t, v) == v < 0 \/ v >= (IF t = ".align" THEN 65535 ELSE 16777215)

MovedTo(o, to) ==
  CASE section = TEXT -> [o EXCEPT !.text = Filled(o.text, to \div 4, [op |-> "hlt"])]
    [] section = DATA -> [o EXCEPT !.data = Filled(o.data, to, 0)]
    [] section = BSS  -> [o EXCEPT !.bss = to]

\* .align 0 divides by zero.  Bound: the place stands on the line.
MovePlace ==
  /\ Starts({".org", ".advance", ".align"})
  /\ Statement[2] # NL
  /\ LET t == Statement[1]
         place == Expression(Statement, 2)
         e == CHOOSE x \in place : TRUE
         to == Target(t, Here(obj), e.val)
     IN  IF place = {} THEN AssemblerError
         ELSE IF Far(t, e.val)
           THEN Take(e.end) /\ UNCHANGED <<toks, obj, section, scopes, total, astate>>
         ELSE IF \/ section = NoSection
                 \/ t = ".align" /\ e.val = 0
                 \/ section = TEXT /\ e.val % 4 # 0
                 \/ to < Here(obj)
           THEN AssemblerError
         ELSE Accept(MovedTo(obj, to), e.end)

\* Slip: a scope is known by how deep it lies.
SlipBeginScope ==
  /\ Starts({".scope"})
  /\ scopes' = Append(scopes, Len(scopes)) /\ total' = total + 1
  /\ Take(1) /\ UNCHANGED <<toks, obj, section, astate>>

BeginScope ==
  /\ Starts({".scope"})
  /\ scopes' = Append(scopes, total) /\ total' = total + 1
  /\ Take(1) /\ UNCHANGED <<toks, obj, section, astate>>

EndScope ==
  /\ Starts({".scend"})
  /\ IF scopes = <<>> THEN AssemblerError
     ELSE scopes' = Front(scopes) /\ Take(1) /\ UNCHANGED <<toks, obj, section, total, astate>>

EnterSection ==
  /\ Starts(Sections)
  /\ section' = (CASE Statement[1] = ".text" -> TEXT [] Statement[1] = ".data" -> DATA
                   [] Statement[1] = ".bss" -> BSS)
  /\ Take(1) /\ UNCHANGED <<toks, obj, scopes, total, astate>>

Stop ==
  /\ Starts({".stop"})
  /\ ti' = Len(toks) /\ UNCHANGED <<toks, obj, section, scopes, total, astate>>

\* Slip: the bytes of a number from the last to the first.
SlipLittleEndian(v, n) ==
  LET by[j \in 0 .. n-1] == IF j = 0 THEN v ELSE by[j-1] \div 256
  IN  [j \in 1 .. n |-> by[n-j] % 256]

LittleEndian(v, n) ==
  LET by[j \in 0 .. n-1] == IF j = 0 THEN v ELSE by[j-1] \div 256
  IN  [j \in 1 .. n |-> by[j-1] % 256]

\* Bound: what stands behind a number, string or character, where neither a comma nor the
\* end of the line does, begins no statement.
DefineNumbers ==
  /\ Starts(DOMAIN DataWidth)
  /\ LET end == First(Statement, {NL})
         parts == SplitAt(SubSeq(Statement, 2, end - 1), ",")
         item(k) == Expression(Append(parts[k], NL), 1)
         whole(k) == \E x \in item(k) : x.end = Len(parts[k])
         bytes == FlattenSeq([k \in DOMAIN parts |->
                                LittleEndian((CHOOSE x \in item(k) : TRUE).val, DataWidth[Statement[1]])])
     IN  IF section # DATA \/ ~Has(Statement, {NL}) \/ \E k \in DOMAIN parts : ~whole(k)
           THEN AssemblerError
         ELSE Accept([obj EXCEPT !.data = @ \o bytes], end - 1)

\* A string ends with a zero, also an .ascii one.
DefineText ==
  /\ Starts(Literals)
  /\ LET end == First(Statement, {NL})
         parts == SplitAt(SubSeq(Statement, 2, end - 1), ",")
         bytes(p) == BytesOf[p[1]] \o IF Statement[1] = ".char" THEN <<>> ELSE <<0>>
     IN  IF \/ section # DATA \/ ~Has(Statement, {NL})
            \/ \E k \in DOMAIN parts : Len(parts[k]) # 1 \/ parts[k][1] \notin DOMAIN BytesOf
           THEN AssemblerError
           ELSE Accept([obj EXCEPT !.data = @ \o FlattenSeq([k \in DOMAIN parts |-> bytes(parts[k])])],
                       end - 1)

Directives ==
  {".global", ".extern", ".org", ".advance", ".align", ".scope", ".scend", ".stop"}
  \cup Sections \cup DOMAIN DataWidth \cup Literals

\* A label ends with a colon.
ASSUME LabelsAssumption ==
  DOMAIN LabelOf \cap ({NL, "ret"} \cup Comments \cup MnemonicNames \cup Directives) = {}

\* .section is refused, as is what begins no statement.
Unknown ==
  /\ astate = "assembling" /\ ti < Len(toks)
  /\ toks[ti + 1] \notin {NL, "ret"} \cup Comments \cup DOMAIN LabelOf \cup MnemonicNames \cup Directives
  /\ AssemblerError

----------------------------------------------------------------------------
(* fill_local. *)

\* The scopes open after the first n tokens.
ScopesAt(n) ==
  LET step(acc, t) ==
        CASE t = ".scope" -> [open |-> Append(acc.open, acc.n), n |-> acc.n + 1]
          [] t = ".scend" -> [acc EXCEPT !.open = Front(@)]
          [] OTHER -> acc
  IN  FoldLeft(step, [open |-> <<>>, n |-> 0], UpTo(toks, n)).open

\* Slip: the outermost scope that has the symbol.
SlipInnermost(levels) == Min(levels)
Innermost(levels) == Max(levels)

\* A reference goes to the symbol of the innermost scope around it that has one.  A
\* branch to a symbol of this file's text is settled here, unless that symbol belongs
\* to a scope.
FillOne(o, rel) ==
  LET sym == o.strings[rel.sym].sym
      open == ScopesAt(rel.token)
      levels == {k \in DOMAIN open : HasName(o, SymbolName(sym, open[k], -1))}
      entry == o.symtab[rel.sym]
      keep(r) == [o EXCEPT !.rels = Append(@, r)]
  IN  CASE levels # {} ->
             keep([rel EXCEPT !.sym = IdOf(o, SymbolName(sym, open[Innermost(levels)], -1))])
        [] levels = {} /\ entry.binding # "weak" /\ entry.section = TEXT
             /\ rel.type = "B_OFFSET22" ->
             [o EXCEPT !.text[rel.offset \div 4 + 1].offset = entry.value \div 4 - rel.offset \div 4]
        [] OTHER -> keep(rel)

FillLocal(o) == FoldLeft(FillOne, [o EXCEPT !.rels = <<>>], o.rels)

\* The file is written by the process that runs the assembler.
FinishAssembly ==
  /\ astate = "assembling" /\ ti = Len(toks)
  /\ obj' = FillLocal(obj) /\ astate' = "assembled"
  /\ UNCHANGED <<toks, ti, section, scopes, total>>

AssemblerNext ==
  \/ Skip \/ Label \/ Instruct \/ Return
  \/ Declare \/ MovePlace \/ BeginScope \/ EndScope \/ EnterSection \/ Stop
  \/ DefineNumbers \/ DefineText \/ Unknown
  \/ FinishAssembly
=============================================================================
