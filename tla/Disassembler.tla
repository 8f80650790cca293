---------------------------- MODULE Disassembler ----------------------------
(***************************************************************************)
(* disassemble_instr (disassembler.cpp): the text of an instruction word.  *)
(* A text is a mnemonic, the suffixes behind it, and operands; spaces,     *)
(* commas and brackets are left out except for what tells addressing modes *)
(* apart.  The functions that write an operand too many leave it empty.    *)
(***************************************************************************)
EXTENDS CPU

Text(op, s, args) == [op |-> op, s |-> s, cond |-> "al", args |-> args]
Rg(r)  == <<"reg", r>>
Num(v) == <<"#", v>>
Nothing == <<"">>
At(mode) == <<"at", mode>>

\* Slip: the two bits of the amount the processor looks at.
SlipDisassembleShift(w) ==
  LET type == CHOOSE sh \in DOMAIN ShiftType : ShiftType[sh] = Field(w, 7, 2)
  IN  <<type, Field(w, 2, 2)>>
DisassembleShift(w) ==
  LET type == CHOOSE sh \in DOMAIN ShiftType : ShiftType[sh] = Field(w, 7, 2)
  IN  <<type, Field(w, 2, 5)>>

\* A shift by 0 is not shown.
ShownShift(w) ==
  IF Field(w, 2, 5) > 0 THEN <<DisassembleShift(w)>> ELSE <<>>

DisassembleFormatO(w, op) ==
  Text(op, SetsFlags(w),
       <<Rg(X1(w)), Rg(X2(w))>> \o
       IF 14 \in w THEN <<Num(Field(w, 0, 14))>> ELSE <<Rg(X3(w))>> \o ShownShift(w))
DisassembleFormatO1(w, op) ==
  Text(op, FALSE, <<Rg(X1(w)), Rg(X2(w)), IF 14 \in w THEN Num(Field(w, 0, 14)) ELSE Rg(X3(w))>>)
DisassembleFormatO2(w, op) ==
  Text(op, SetsFlags(w), <<Rg(X1(w)), Rg(X2(w)), Rg(X3(w)), Rg(X4(w)), Nothing>>)
DisassembleFormatO3(w, op) ==
  Text(op, SetsFlags(w),
       <<Rg(X1(w))>> \o
       IF 19 \in w THEN <<Num(Field(w, 0, 19))>>
       ELSE <<Rg(Field(w, 14, 5))>> \o
            IF Field(w, 0, 14) > 0 THEN <<Num(Field(w, 0, 14))>> ELSE <<>>)
\* The result and its first comma are cut off; flags are set anyway.
DisassembleCompare(w, op) ==
  Text(op, FALSE, Tail(DisassembleFormatO(w, op).args))

\* ERROR ends the process.
DisassembleFormatM(w, op) ==
  LET mode == CHOOSE a \in DOMAIN AddrType : AddrType[a] = Mode(w)
      by   == SignedField(w, 2, 12)
      rest == IF 14 \notin w THEN <<At(mode), Rg(X3(w)), Nothing>> \o ShownShift(w)
              ELSE IF by = 0 THEN <<At("offset")>> ELSE <<At(mode), Num(by)>>
  IN  IF mode = "none" THEN Text("exit", FALSE, <<>>)
      ELSE Text(op, SetsFlags(w), <<Rg(X1(w)), Rg(X2(w))>> \o rest)
DisassembleFormatM1(w, op) == Text(op, FALSE, <<Rg(X1(w)), Rg(X2(w)), At("offset"), Rg(X3(w))>>)
DisassembleFormatM2(w, op) == Text(op, FALSE, <<Rg(X1(w)), Num(Field(w, 0, 20))>>)

DisassembleFormatB1(w, op) ==
  [Text(op, FALSE, <<Num(SignedField(w, 0, 22))>>) EXCEPT !.cond = CondOf(w)]
\* "ret" replaces the condition and the link too.
DisassembleFormatB2(w, op) ==
  LET r == Field(w, 17, 5)
  IN  IF r = LINKR THEN Text("ret", FALSE, <<>>)
      ELSE [Text(op, FALSE, <<Rg(r)>>) EXCEPT !.cond = CondOf(w)]

\* The table of functions.  Its rows from 51 on are null pointers: calling
\* one, as for nop, ends the process.
DisassembleInstr(w) ==
  IF OpOf(w) \in 10 .. 21 THEN Text("UNIMPLEMENTED", FALSE, <<>>)
  ELSE IF OpOf(w) > 50 THEN Text("crash", FALSE, <<>>)
  ELSE LET op == CHOOSE o \in DOMAIN Opcode : Opcode[o] = OpOf(w)
       IN  CASE op \in Adders \cup Subbers \cup Logicals \cup {"mul"} -> DisassembleFormatO(w, op)
             [] op \in Compares              -> DisassembleCompare(w, op)
             [] op \in Shifts                -> DisassembleFormatO1(w, op)
             [] op \in LongMuls              -> DisassembleFormatO2(w, op)
             [] op \in Moves                 -> DisassembleFormatO3(w, op)
             [] op \in Loads \cup Stores     -> DisassembleFormatM(w, op)
             [] op \in Swaps                 -> DisassembleFormatM1(w, op)
             [] op = "adrp"                  -> DisassembleFormatM2(w, op)
             [] op \in Jumps \cup {"swi"}    -> DisassembleFormatB1(w, op)
             [] op \in RegJumps              -> DisassembleFormatB2(w, op)
             [] op = "hlt"                   -> Text("hlt", FALSE, <<>>)

----------------------------------------------------------------------------
\* What a reader of the text expects for instruction i.
OperandText(a) == IF a.imm THEN <<Num(a.val)>>
                  ELSE <<Rg(a.m)>> \o IF a.by = 0 THEN <<>> ELSE <<<<a.sh, a.by>>>>
Source(i) ==
  CASE i.op \in Compares -> Text(i.op, FALSE, <<Rg(i.n)>> \o OperandText(i.arg))
    [] i.op \in Moves    -> Text(i.op, i.s, <<Rg(i.d)>> \o OperandText(i.arg))
    [] i.op \in LongMuls -> Text(i.op, i.s, <<Rg(i.d), Rg(i.n), Rg(i.m1), Rg(i.m2)>>)
    [] i.op \in Loads \cup Stores ->
         Text(i.op, i.s, <<Rg(i.d), Rg(i.n), At(i.mode)>> \o OperandText(i.arg))
    [] i.op \in Swaps    -> Text(i.op, FALSE, <<Rg(i.d), Rg(i.n), At("offset"), Rg(i.m1)>>)
    [] i.op = "adrp"     -> Text(i.op, FALSE, <<Rg(i.d), Num(i.page)>>)
    [] i.op \in Jumps \cup {"swi"} -> [Text(i.op, FALSE, <<Num(i.offset)>>) EXCEPT !.cond = i.cond]
    [] i.op \in RegJumps -> [Text(i.op, FALSE, <<Rg(i.d)>>) EXCEPT !.cond = i.cond]
    [] i.op \in Shifts   -> Text(i.op, FALSE, <<Rg(i.d), Rg(i.n)>> \o OperandText(i.arg))
    [] i.op = "hlt"      -> Text(i.op, FALSE, <<>>)
    [] OTHER             -> Text(i.op, i.s, <<Rg(i.d), Rg(i.n)>> \o OperandText(i.arg))

\* What is lost on the way: a shift by a number shows its unused low bits, an offset
\* of 0 its addressing mode, one from 2048 on its sign, a jump through the link
\* register everything, nop and a move from a register what they are.
Garbled(i) ==
  \/ i.op \in Shifts \cup Moves /\ (i.op \in Shifts <=> i.arg.imm)
  \/ i.op \in Loads \cup Stores /\ \/ i.mode = "none"
                                   \/ i.arg = Imm(0) /\ i.mode # "offset"
                                   \/ i.arg.imm /\ i.arg.val >= Pow2[11]
  \/ i.op \in RegJumps /\ i.d = LINKR
  \/ i.op = "nop"

\* An offset of 0 is left out.
Said(i) ==
  LET zero == i.op \in Loads \cup Stores /\ i.arg = Imm(0)
  IN  [Source(i) EXCEPT !.args = IF zero THEN Front(@) ELSE @]

Stripped(args) ==
  LET kept[k \in 0 .. Len(args)] ==
        IF k = 0 THEN <<>>
        ELSE IF args[k] = Nothing THEN kept[k - 1] ELSE Append(kept[k - 1], args[k])
  IN  kept[Len(args)]

(* The text of an assembled instruction is the instruction that was assembled: every
   operand, the full amount of a shift (of which the processor uses two bits), the
   sign of an offset, the condition; apart from empty operands and what Garbled lists. *)
ListingNames ==
  \A k \in DOMAIN code :
    k < Len(prog) /\ ~Garbled(prog[k + 1]) =>
      [DisassembleInstr(code[k]) EXCEPT !.args = Stripped(@)] = Said(prog[k + 1])
=============================================================================
