------------------------------- MODULE MCCPU -------------------------------
(* Programs of up to three instructions.  Data words have four bits, so that every pair  *)
(* of operands is tried: x0 and x1 take all values, or a few where only addresses matter. *)
EXTENDS Disassembler

ThreeOp(ops, s, arg) == {[op |-> op, s |-> s, d |-> 2, n |-> 0, arg |-> arg] : op \in ops}

ArithmeticOps == Adders \cup Subbers \cup Logicals \cup Compares \cup {"mul"}
AnyShift == {Shifted(1, sh, by) : sh \in Shifts, by \in {0, 1, 3, 6}}

Carrying == {"adc", "sbc", "rsc"}
AluProgs ==
  {<<i>> : i \in ThreeOp({"add", "sub", "rsb", "mul", "cmn"} \cup Carrying, TRUE, Reg(1))
                  \cup {[op |-> op, s |-> TRUE, d |-> 2, n |-> 3, m1 |-> 0, m2 |-> 1]
                        : op \in LongMuls}}
CompareAndBranch ==
  {<<[op |-> "cmp", s |-> FALSE, d |-> XZR, n |-> 0, arg |-> Reg(1)],
     [op |-> "b", cond |-> c, offset |-> 2]>> : c \in {"hi", "ls"}}

FewProgs ==
  {<<i>> : i \in UNION {ThreeOp({"add"}, FALSE, a) : a \in AnyShift}
                 \cup ThreeOp(ArithmeticOps, FALSE, Imm(13))
                 \cup ThreeOp(Logicals \cup {"tst", "teq"}, TRUE, Reg(1))
                 \cup ThreeOp(Shifts, FALSE, Reg(1))
                 \cup ThreeOp(Shifts, FALSE, Imm(3))
                 \cup {[op |-> op, s |-> TRUE, d |-> 2, arg |-> a]
                       : op \in Moves, a \in {Imm(0), Imm(9), Reg(0)}}}
  \cup {<<[op |-> op, s |-> FALSE, d |-> d, n |-> 0, arg |-> a, mode |-> mode]>>
        : op \in Loads \cup Stores, d \in {0, 1}, mode \in DOMAIN AddrType,
          a \in {Imm(0), Imm(-3), Imm(4093), Reg(1)}}
  \cup {<<[op |-> "ldr", s |-> FALSE, d |-> 0, n |-> 0, arg |-> Shifted(1, "lsl", 5), mode |-> "offset"]>>}
  \cup {<<[op |-> "sub", s |-> FALSE, d |-> XZR, n |-> 0, arg |-> Imm(2)]>>}
  \cup {<<[op |-> op, s |-> FALSE, d |-> 2, n |-> 1, m1 |-> 0]>> : op \in Swaps}
  \cup {<<[op |-> "nop"], [op |-> op, cond |-> c, offset |-> -1], [op |-> "adrp", s |-> FALSE, d |-> 1, page |-> 2]>>
        : op \in Jumps, c \in ToSet(Conds)}
  \cup {<<[op |-> op, cond |-> "al", d |-> d], [op |-> "nop"]>> : op \in RegJumps, d \in {0, LINKR}}
  \cup {<<[op |-> "mov", s |-> FALSE, d |-> NR, arg |-> Imm(id)],
          [op |-> "mov", s |-> FALSE, d |-> 2 , arg |-> Imm(v)],
          [op |-> "swi", cond |-> "al", offset |-> 0]>> : id \in 10 .. 14, v \in {0, 9}}

RegsOf(a, b) == [r \in Regs |-> CASE r = 0 -> a [] r = 1 -> b [] r = 4 -> 6
                                  [] r = XZR -> 5 [] OTHER -> 0]
Data0 == [b \in 0 .. RamBytes - 1 |-> Flag(b \in {0, 3, 4, 9, 11})]
Carries == [NoFlags EXCEPT !.C = TRUE, !.Z = TRUE]

MCStarts ==
  [prog : AluProgs \cup CompareAndBranch, regs : {RegsOf(a, b) : a, b \in Words},
   flags : {NoFlags}, mem : {Data0}]
  \cup [prog : {p \in AluProgs : p[1].op \in Carrying}, regs : {RegsOf(a, b) : a, b \in Words},
        flags : {Carries}, mem : {Data0}]
  \cup [prog : FewProgs, regs : {RegsOf(a, b) : a \in {1, 9, 11}, b \in {0, 7, 15}},
        flags : {Carries}, mem : {Data0}]

\* One program for each thing notes.txt says that the processor does otherwise: an operand
\* shifted by more than three, the flags of a shift, a move from a register, a swapped half
\* word.
NotesProgs ==
  {<<[op |-> "add", s |-> FALSE, d |-> 2, n |-> 0, arg |-> Shifted(1, "lsr", 6)]>>,
   <<[op |-> "lsl", s |-> TRUE, d |-> 2, n |-> 0, arg |-> Imm(1)]>>,
   <<[op |-> "mov", s |-> FALSE, d |-> 2, arg |-> Reg(0)]>>,
   <<[op |-> "swph", s |-> FALSE, d |-> 2, n |-> 1, m1 |-> 0]>>}
MCNotesStarts ==
  [prog : NotesProgs, regs : {RegsOf(a, b) : a \in {1, 9}, b \in {7, 15}},
   flags : {Carries}, mem : {Data0}]

MCRegs == {0, 1, 2, 3, 4, NR, LINKR, XZR}
MCSysCalls == [print |-> 10, assertr |-> 11, assertm |-> 12, assertp |-> 13]
=============================================================================
