------------------------- MODULE InstructionFormats -------------------------
(***************************************************************************)
(* How an instruction becomes a 32-bit word: the operands the assembler    *)
(* parses (assembler/instructions.cpp), and the asm_format_ functions that *)
(* join them (emulator32bit/instructions.cpp).                             *)
(*                                                                         *)
(* An instruction is a record with its mnemonic in op.  Its other fields   *)
(* depend on the format: registers d (first), n, m; s, whether flags are   *)
(* set; arg, the last operand of formats O, O1, O3 and M.                  *)
(***************************************************************************)
EXTENDS Words, SequencesExt

\* The last operand: a number, or a register that may be shifted.
Imm(v) == [imm |-> TRUE, val |-> v, m |-> 0, sh |-> "lsl", by |-> 0]
Reg(r) == [imm |-> FALSE, val |-> 0, m |-> r, sh |-> "lsl", by |-> 0]
Shifted(r, sh, by) == [Reg(r) EXCEPT !.sh = sh, !.by = by]

XZR   == 31
SP    == 30
LINKR == 29
NR    == 8

Opcode ==
  [hlt   |-> 0,  add   |-> 1,  sub   |-> 2,  rsb  |-> 3,  adc |-> 4,  sbc  |-> 5,
   rsc   |-> 6,  mul   |-> 7,  umull |-> 8, smull |-> 9,  vabs |-> 10, vmov |-> 21,
   and   |-> 22, orr   |-> 23, eor   |-> 24, bic  |-> 25, lsl |-> 26, lsr  |-> 27,
   asr   |-> 28, ror   |-> 29, cmp   |-> 30, cmn  |-> 31, tst |-> 32, teq  |-> 33,
   mov   |-> 34, mvn   |-> 35, ldr   |-> 36, ldrb |-> 37, ldrh |-> 38, str |-> 39,
   strb  |-> 40, strh  |-> 41, swp   |-> 42, swpb |-> 43, swph |-> 44, b   |-> 45,
   bl    |-> 46, bx    |-> 47, blx   |-> 48, swi  |-> 49, adrp |-> 50, nop |-> 63]

ShiftType == [lsl |-> 0, lsr |-> 1, asr |-> 2, ror |-> 3]
AddrType  == [offset |-> 0, pre |-> 1, post |-> 2, none |-> 3]   \* 3 is refused when it runs
Conds == <<"eq", "ne", "cs", "cc", "mi", "pl", "vs", "vc",
           "hi", "ls", "ge", "lt", "gt", "le", "al", "nv">>
CondCode(c) == (CHOOSE k \in 1 .. 16 : Conds[k] = c) - 1

(***************************************************************************)
(* Joiner: parts <<bits, value>> from the most significant on.             *)
(***************************************************************************)
Join(parts) ==
  FoldLeft(LAMBDA word, part : {b + part[1] : b \in word} \cup BitsOf(part[2], part[1]),
           {}, parts)

Flag(b) == IF b THEN 1 ELSE 0
Head3(i) == <<<<6, Opcode[i.op]>>, <<1, Flag(i.s)>>, <<5, i.d>>>>

FormatO(i) ==
  Head3(i) \o <<<<5, i.n>>>> \o
  IF i.arg.imm
    THEN <<<<1, 1>>, <<14, i.arg.val>>>>
    ELSE <<<<1, 0>>, <<5, i.arg.m>>, <<2, ShiftType[i.arg.sh]>>, <<5, i.arg.by>>, <<2, 0>>>>

FormatO1(i) ==
  Head3(i) \o <<<<5, i.n>>, <<1, Flag(i.arg.imm)>>, <<5, i.arg.m>>, <<2, 0>>,
                <<5, i.arg.val>>, <<2, 0>>>>

FormatO2(i) ==
  Head3(i) \o <<<<5, i.n>>, <<1, 0>>, <<5, i.m1>>, <<5, i.m2>>, <<4, 0>>>>

\* The form with a register is one bit short: "<< 0" shifts by no bit where a
\* zero bit was meant, so that the whole word lies one place too low.
FormatO3(i) ==
  Head3(i) \o
  IF i.arg.imm THEN <<<<1, 1>>, <<19, i.arg.val>>>>
               ELSE <<<<5, i.arg.m>>, <<14, i.arg.val>>>>

FormatM(i) ==
  Head3(i) \o <<<<5, i.n>>>> \o
  (IF i.arg.imm
     THEN <<<<1, 1>>, <<12, i.arg.val % Pow2[12]>>>>
     ELSE <<<<1, 0>>, <<5, i.arg.m>>, <<2, ShiftType[i.arg.sh]>>, <<5, i.arg.by>>>>)
  \o <<<<2, AddrType[i.mode]>>>>

FormatM1(i) == Head3(i) \o <<<<5, i.n>>, <<1, 0>>, <<5, i.m1>>, <<9, 0>>>>
FormatM2(i) == Head3(i) \o <<<<20, i.page>>>>
FormatB1(i) == <<<<6, Opcode[i.op]>>, <<4, CondCode(i.cond)>>, <<22, i.offset % Pow2[22]>>>>
FormatB2(i) == <<<<6, Opcode[i.op]>>, <<4, CondCode(i.cond)>>, <<5, i.d>>, <<17, 0>>>>
Bare(i)     == <<<<6, Opcode[i.op]>>, <<26, 0>>>>

(***************************************************************************)
(* Which mnemonic takes which format.                                      *)
(***************************************************************************)
Adders    == {"add", "adc"}
Subbers   == {"sub", "sbc", "rsb", "rsc"}
Logicals  == {"and", "orr", "eor", "bic"}
Compares  == {"cmp", "cmn", "tst", "teq"}
Moves     == {"mov", "mvn"}
Shifts    == {"lsl", "lsr", "asr", "ror"}
LongMuls  == {"umull", "smull"}
Loads     == {"ldr", "ldrb", "ldrh"}
Stores    == {"str", "strb", "strh"}
Swaps     == {"swp", "swpb", "swph"}
Jumps     == {"b", "bl"}
RegJumps  == {"bx", "blx"}

\* The instructions the assembler makes: it checks the width of every operand.  A shift
\* takes an amount or a register, a move a number or a register with a number behind it.
\* An offset of format M is twelve bits, or a negative number, which asm_format_m takes.
Five == 0 .. 31
AnyOperand(numbers) == [imm : BOOLEAN, val : numbers, m : Five, sh : Shifts, by : Five]
Operands(numbers) == {a \in AnyOperand(numbers) : a \in {Imm(a.val), Shifted(a.m, a.sh, a.by)}}
ShiftOperands == {a \in AnyOperand(Five) : a \in {Imm(a.val), Reg(a.m)}}
MoveOperands == {a \in AnyOperand(0 .. Pow2[14] - 1) : a \in {Imm(a.val), [Reg(a.m) EXCEPT !.val = a.val]}}
Instructions ==
       [op : Adders \cup Subbers \cup Logicals \cup Compares \cup {"mul"}, s : BOOLEAN,
        d : Five, n : Five, arg : Operands(0 .. Pow2[14] - 1)]
  \cup [op : Shifts, s : BOOLEAN, d : Five, n : Five, arg : ShiftOperands]
  \cup [op : LongMuls, s : BOOLEAN, d : Five, n : Five, m1 : Five, m2 : Five]
  \cup [op : Moves, s : BOOLEAN, d : Five, arg : MoveOperands]
  \cup [op : Loads \cup Stores, s : BOOLEAN, d : Five, n : Five,
        arg : Operands(-Pow2[11] .. Pow2[12] - 1), mode : DOMAIN AddrType]
  \cup [op : Swaps, s : BOOLEAN, d : Five, n : Five, m1 : Five]
  \cup [op : {"adrp"}, s : BOOLEAN, d : Five, page : 0 .. Pow2[20] - 1]
  \cup [op : Jumps \cup {"swi"}, cond : Range(Conds), offset : -Pow2[21] .. Pow2[21] - 1]
  \cup [op : RegJumps, cond : Range(Conds), d : Five]
  \cup [op : {"hlt", "nop"}]

Encode(i) ==
  Join(CASE i.op \in Adders \cup Subbers \cup Logicals \cup Compares \cup {"mul"} -> FormatO(i)
         [] i.op \in Shifts                -> FormatO1(i)
         [] i.op \in LongMuls              -> FormatO2(i)
         [] i.op \in Moves                 -> FormatO3(i)
         [] i.op \in Loads \cup Stores     -> FormatM(i)
         [] i.op \in Swaps                 -> FormatM1(i)
         [] i.op = "adrp"                  -> FormatM2(i)
         [] i.op \in Jumps \cup {"swi"}    -> FormatB1(i)
         [] i.op \in RegJumps              -> FormatB2(i)
         [] i.op \in {"hlt", "nop"}        -> Bare(i))

(***************************************************************************)
(* The fields as the processor reads them.                                 *)
(***************************************************************************)
OpOf(w)   == Field(w, 26, 6)
SetsFlags(w) == 25 \in w
X1(w)     == Field(w, 20, 5)
X2(w)     == Field(w, 15, 5)
X3(w)     == Field(w, 9, 5)
X4(w)     == Field(w, 4, 5)
CondOf(w) == Conds[Field(w, 22, 4) + 1]
=============================================================================
