-------------------------------- MODULE CPU --------------------------------
(***************************************************************************)
(* The processor: Emulator32bit::run, the functions it dispatches to, and  *)
(* the software interrupts.  No process has begun, as in the tests, so     *)
(* that addresses are physical: RAM is addressed from 0 and what lies past *)
(* it belongs to nothing, so that the bus throws.  RAM ends on a page, so  *)
(* that a word that reaches past it straddles two pages and is moved byte  *)
(* by byte, in the order of the addresses.  Code and data are held apart:  *)
(* programs that store into their own instructions are left out.           *)
(***************************************************************************)
EXTENDS InstructionFormats

CONSTANTS
  Regs,       \* the registers programs use, among them XZR, LINKR and NR
  RamBytes,   \* size of RAM, a multiple of 4
  PageBytes,  \* PAGE_SIZE
  Starts,     \* what the caller sets up, as records: a program at address 0, registers
              \* (write_reg), flags (set_flag) and the data in RAM
  MaxRun,     \* bound: instructions asked of one call of run
  SysCalls    \* numbers of the system calls, [print, assertr, assertm, assertp -> Words]

ASSUME CpuAssumption ==
  /\ {XZR, LINKR, NR} \cup 0 .. 4 \subseteq Regs /\ Regs \subseteq 0 .. 31
  /\ RamBytes \in Words \ {0} /\ RamBytes % 4 = 0
  /\ PageBytes \in Nat \ {0} /\ RamBytes % PageBytes = 0
  /\ MaxRun \in Nat \ {0}
  /\ DOMAIN SysCalls = {"print", "assertr", "assertm", "assertp"}
  /\ \A c, d \in DOMAIN SysCalls : SysCalls[c] = SysCalls[d] => c = d

VARIABLES
  prog,    \* the instructions of which code is the encoding (for the properties)
  code,    \* the words of RAM that hold the program
  mem,     \* the bytes of RAM that hold data
  x,       \* _x: value and mask of each register
  flags,   \* the N, Z, C, V bits of _pstate
  pc,      \* _pc
  status,  \* "running" inside run, else what ended the last call
  left     \* instructions that call still has to run; Forever for run(0)

vars == <<prog, code, mem, x, flags, pc, status, left>>

Forever  == -1
Ends     == {"ready", "counted", "halted", "faulted", "refused", "wild"}
Running  == status = "running"
FlagSet  == [N : BOOLEAN, Z : BOOLEAN, C : BOOLEAN, V : BOOLEAN]

ASSUME StartsAssumption ==
  \A start \in Starts :
    /\ start.prog \in Seq(Instructions) /\ start.flags \in FlagSet
    /\ start.mem \in [0 .. RamBytes - 1 -> Bytes] /\ start.regs \in [Regs -> Words]

\* Registers outside Regs are never written and hold 0.
ReadFrom(xs, r) == IF r \in Regs THEN And(xs[r].val, xs[r].mask) ELSE 0
ReadReg(r) == ReadFrom(x, r)
\* Slip: a write sets the mask too, so that the zero register can be written.
SlipWriteReg(xs, r, v) == [xs EXCEPT ![r] = [val |-> v, mask |-> Modulus - 1]]

\* write_reg replaces the value of a register and keeps its mask.
WriteReg(xs, r, v) == [xs EXCEPT ![r].val = v]
ResetRegs == [r \in Regs |-> [val |-> 0, mask |-> IF r = XZR THEN 0 ELSE Modulus - 1]]
NoFlags == [N |-> FALSE, Z |-> FALSE, C |-> FALSE, V |-> FALSE]

Init ==
  /\ \E start \in Starts :
       /\ prog = start.prog
       /\ mem = start.mem
       /\ x = [r \in Regs |-> [ResetRegs[r] EXCEPT !.val = start.regs[r]]]
       /\ flags = start.flags
  /\ code = [k \in 0 .. (RamBytes \div 4) - 1 |->
               IF k < Len(prog) THEN Encode(prog[k + 1]) ELSE {}]
  /\ pc = 0 /\ status = "ready" /\ left = 0

----------------------------------------------------------------------------
(* The bus. *)

Routed(a) == Wrap(a) < RamBytes
Reachable(a, n) == \A k \in 0 .. n-1 : Routed(a + k)
Read(a, n) == LET part == [k \in 0 .. n-1 |-> mem[Wrap(a + k)] * Pow2[k * ByteBits]]
              IN  Total(part, 0 .. n-1)
\* A write that meets an address of nothing leaves the bytes before it written.
Written(a, n, v) ==
  LET done == {k \in 0 .. n-1 : Reachable(a, k + 1)}
  IN  [b \in DOMAIN mem |->
         IF \E k \in done : b = Wrap(a + k)
           THEN ByteAt(v, CHOOSE k \in done : b = Wrap(a + k)) ELSE mem[b]]

----------------------------------------------------------------------------
(* Operands and flags. *)

\* calc_shift.  A rotation by 0 shifts by the width of a word, which C++ leaves
\* undefined: the value survives or is lost.
CalcShift(v, type, by) ==
  CASE type = 0 -> {LeftBy(v, by)}
    [] type = 1 -> {RightBy(v, by)}
    [] type = 2 -> {SignedRightBy(v, by)}
    [] type = 3 -> IF by = 0 THEN {v, 0}
                   ELSE {Or(RightBy(v, by), LeftBy(v, WordBits - by))}

\* FORMAT_O__get_arg.  Of the five bits of the amount it reads two.
GetArg(w) == IF 14 \in w THEN {Wrap(Field(w, 0, 14))}
             ELSE CalcShift(ReadReg(X3(w)), Field(w, 7, 2), Field(w, 2, 2))

CFlagAdd(a, b) == Wrap(a + b) < a
VFlagAdd(a, b) == Top(a) = Top(b) /\ Top(a) # Top(Wrap(a + b))
\* Slip: the second term forgets that equal signs borrow too.
SlipCFlagSub(a, b) == ~Top(a) /\ Top(b)
CFlagSub(a, b) == \/ ~Top(a) /\ Top(b)
                  \/ Top(Wrap(a - b)) /\ (~Top(a) \/ Top(b))
\* Slip: the rule of addition.
SlipVFlagSub(a, b) == VFlagAdd(a, b)
VFlagSub(a, b) == Top(a) # Top(b) /\ Top(a) # Top(Wrap(a - b))

NZ(v) == [flags EXCEPT !.N = Top(v), !.Z = (v = 0)]

\* Sum and difference with a carry or borrow in; add, sub, rsb, cmp, cmn have none.
AddFlags(l, r, c) ==
  [N |-> Top(Wrap(l + r + c)), Z |-> Wrap(l + r + c) = 0,
   C |-> CFlagAdd(Wrap(l + c), r) \/ CFlagAdd(l, c),
   V |-> VFlagAdd(Wrap(l + c), r) \/ VFlagAdd(l, c)]
SubFlags(l, r, b) ==
  [N |-> Top(Wrap(l - r - b)), Z |-> Wrap(l - r - b) = 0,
   C |-> CFlagSub(Wrap(l - b), r) \/ CFlagSub(l, b),
   V |-> VFlagSub(Wrap(l - b), r) \/ VFlagSub(l, b)]

CheckCond(c) ==
  CASE c = "eq" -> flags.Z           [] c = "ne" -> ~flags.Z
    [] c = "cs" -> flags.C           [] c = "cc" -> ~flags.C
    [] c = "mi" -> flags.N           [] c = "pl" -> ~flags.N
    [] c = "vs" -> flags.V           [] c = "vc" -> ~flags.V
    [] c = "hi" -> flags.C /\ ~flags.Z
    [] c = "ls" -> ~flags.C \/ flags.Z
    [] c = "ge" -> flags.N = flags.V [] c = "lt" -> flags.N # flags.V
    [] c = "gt" -> ~flags.Z /\ flags.N = flags.V
    [] c = "le" -> flags.Z \/ flags.N # flags.V
    [] c = "al" -> TRUE              [] c = "nv" -> FALSE

----------------------------------------------------------------------------
(* One turn of the loop of run. *)

Word == code[pc \div 4]
Fetched(op) == Running /\ pc < RamBytes /\ OpOf(Word) = Opcode[op]

\* Slip: the count of instructions never goes down.
SlipNext4(at) == pc' = Wrap(at + 4) /\ UNCHANGED <<left, status>>

\* The instruction returned: _pc += 4, and one instruction less to run.
Next4(at) ==
  /\ pc' = Wrap(at + 4)
  /\ left' = IF left = Forever THEN Forever ELSE left - 1
  /\ status' = IF left' = 0 THEN "counted" ELSE "running"
\* It threw: run catches and returns; _pc stays.
Throw(why) == status' = why /\ UNCHANGED <<pc, left>>

Data == <<mem, x, flags>>
Set(r, v) == x' = WriteReg(x, r, v)
SetFlagsIf(s, f) == flags' = IF s THEN f ELSE flags

Hlt == /\ Running /\ pc < RamBytes /\ OpOf(Word) \in {0} \cup 51 .. 62
       /\ Throw("halted") /\ UNCHANGED Data

\* nop, and the vector instructions, which do nothing yet.
Nop == /\ Running /\ pc < RamBytes /\ OpOf(Word) \in {63} \cup 10 .. 21
       /\ Next4(pc) /\ UNCHANGED Data

AddSub(op) ==
  /\ Fetched(op)
  /\ \E arg \in GetArg(Word) :
       LET n   == ReadReg(X2(Word))
           l   == IF op \in {"rsb", "rsc"} THEN arg ELSE n
           r   == IF op \in {"rsb", "rsc"} THEN n ELSE arg
           c   == IF op \in {"adc", "sbc", "rsc"} THEN Flag(flags.C) ELSE 0
       IN  /\ Set(X1(Word), IF op \in Adders THEN Wrap(l + r + c) ELSE Wrap(l - r - c))
           /\ SetFlagsIf(SetsFlags(Word),
                         IF op \in Adders THEN AddFlags(l, r, c) ELSE SubFlags(l, r, c))
  /\ Next4(pc) /\ UNCHANGED mem

\* N and Z look at the product before it is cut to a word.
Mul ==
  /\ Fetched("mul")
  /\ \E arg \in GetArg(Word) :
       LET full == ReadReg(X2(Word)) * arg
       IN  /\ Set(X1(Word), Wrap(full))
           /\ SetFlagsIf(SetsFlags(Word), [NZ(Wrap(full)) EXCEPT !.Z = (full = 0)])
  /\ Next4(pc) /\ UNCHANGED mem

LongMul(op) ==
  /\ Fetched(op)
  /\ LET value(r) == IF op = "smull" THEN Signed(ReadReg(r)) ELSE ReadReg(r)
         full     == (value(X3(Word)) * value(X4(Word))) % (Modulus * Modulus)
     IN  /\ x' = WriteReg(WriteReg(x, X1(Word), Wrap(full)), X2(Word), full \div Modulus)
         /\ SetFlagsIf(SetsFlags(Word),
                       [flags EXCEPT !.N = Top(full \div Modulus), !.Z = (full = 0)])
  /\ Next4(pc) /\ UNCHANGED mem

LogicOf(op, n, arg) ==
  CASE op \in {"and", "tst"} -> And(arg, n)
    [] op = "orr"            -> Or(arg, n)
    [] op \in {"eor", "teq"} -> Xor(arg, n)
    [] op = "bic"            -> And(Flip(arg), n)

Logic(op) ==
  /\ Fetched(op)
  /\ \E arg \in GetArg(Word) :
       LET v == LogicOf(op, ReadReg(X2(Word)), arg)
       IN  Set(X1(Word), v) /\ SetFlagsIf(SetsFlags(Word), NZ(v))
  /\ Next4(pc) /\ UNCHANGED mem

\* lsl, lsr, asr, ror.  The amount in a register may reach the width of a
\* word, where C++ leaves the result undefined.
ShiftBy(op, v, by) ==
  IF by >= WordBits THEN Words ELSE
  {CASE op = "lsl" -> LeftBy(v, by)
     [] op = "lsr" -> RightBy(v, by)
     [] op = "asr" -> SignedRightBy(v, by)
     [] op = "ror" -> Or(RightBy(v, by), LeftBy(v, WordBits - by))}

Shift(op) ==
  /\ Fetched(op)
  /\ LET by == IF 14 \in Word THEN Field(Word, 2, 5) ELSE ReadReg(X3(Word)) % 256
     IN  \E v \in ShiftBy(op, ReadReg(X2(Word)), by) : Set(X1(Word), v)
  /\ Next4(pc) /\ UNCHANGED <<mem, flags>>

Compare(op) ==
  /\ Fetched(op)
  /\ \E arg \in GetArg(Word) :
       LET n == ReadReg(X2(Word))
       IN  flags' = CASE op = "cmp" -> SubFlags(n, arg, 0)
                      [] op = "cmn" -> AddFlags(n, arg, 0)
                      [] OTHER      -> NZ(LogicOf(op, n, arg))
  /\ Next4(pc) /\ UNCHANGED <<mem, x>>

Move(op) ==
  /\ Fetched(op)
  /\ LET from == IF 19 \in Word THEN Wrap(Field(Word, 0, 19))
                 ELSE Wrap(Field(Word, 0, 14) + ReadReg(Field(Word, 14, 5)))
         v    == IF op = "mvn" THEN Flip(from) ELSE from
     IN  Set(X1(Word), v) /\ SetFlagsIf(SetsFlags(Word), NZ(v))
  /\ Next4(pc) /\ UNCHANGED mem

----------------------------------------------------------------------------
(* Memory. *)

Size(op) == CASE op \in {"ldr", "str", "swp"} -> 4
              [] op \in {"ldrh", "strh"}      -> 2
              [] op \in {"ldrb", "strb", "swpb", "swph"} -> 1

Offset(w) == IF 14 \in w THEN {SignedField(w, 2, 12)} ELSE GetArg(w)

\* calc_mem_addr: the address, and the registers after the base is written.
Mode(w) == Field(w, 0, 2)
MemAddr(w, offset) == IF Mode(w) = 2 THEN ReadReg(X2(w)) ELSE Wrap(ReadReg(X2(w)) + offset)
BasesAfter(w, offset) ==
  IF Mode(w) = 0 THEN x ELSE WriteReg(x, X2(w), Wrap(ReadReg(X2(w)) + offset))

BadMode == /\ Running /\ pc < RamBytes /\ Mode(Word) = 3
           /\ \E op \in Loads \cup Stores : OpOf(Word) = Opcode[op]
           /\ Throw("refused") /\ UNCHANGED Data

\* The base is written before the access, and stays written when that throws.
\* A signed load or store casts to a byte first, so that it extends with zeros.
Load(op) ==
  /\ Fetched(op) /\ Mode(Word) # 3
  /\ \E offset \in Offset(Word) :
       LET at == MemAddr(Word, offset)
           xs == BasesAfter(Word, offset)
       IN  \/ /\ Reachable(at, Size(op))
              /\ x' = WriteReg(xs, X1(Word), Read(at, Size(op)))
              /\ Next4(pc)
           \/ /\ ~Reachable(at, Size(op))
              /\ x' = xs
              /\ Throw("faulted")
  /\ UNCHANGED <<mem, flags>>

Store(op) ==
  /\ Fetched(op) /\ Mode(Word) # 3
  /\ \E offset \in Offset(Word) :
       LET at == MemAddr(Word, offset)
           xs == BasesAfter(Word, offset)
       IN  /\ x' = xs
           /\ mem' = Written(at, Size(op), ReadFrom(xs, X1(Word)))
           /\ IF Reachable(at, Size(op)) THEN Next4(pc) ELSE Throw("faulted")
  /\ UNCHANGED flags

\* swph moves a byte, like swpb.
Swap(op) ==
  /\ Fetched(op)
  /\ LET at == ReadReg(X3(Word))
     IN  \/ /\ Reachable(at, Size(op))
            /\ Set(X1(Word), Read(at, Size(op)))
            /\ mem' = Written(at, Size(op), ReadReg(X2(Word)))
            /\ Next4(pc)
         \/ ~Reachable(at, Size(op)) /\ Throw("faulted") /\ UNCHANGED <<x, mem>>
  /\ UNCHANGED flags

Adrp == /\ Fetched("adrp")
        /\ Set(X1(Word), Wrap(Field(Word, 0, 20) * PageBytes))
        /\ Next4(pc) /\ UNCHANGED <<mem, flags>>

----------------------------------------------------------------------------
(* Branches and software interrupts. *)

Linked == WriteReg(x, LINKR, Wrap(pc + 4))

Jump(op) ==
  /\ Fetched(op)
  /\ LET taken == CheckCond(CondOf(Word))
     IN  /\ x' = IF taken /\ op = "bl" THEN Linked ELSE x
         /\ Next4(IF taken THEN pc + 4 * SignedField(Word, 0, 22) - 4 ELSE pc)
  /\ UNCHANGED <<mem, flags>>

\* blx reads its target after it has written the link register.
RegJump(op) ==
  /\ Fetched(op)
  /\ LET taken == CheckCond(CondOf(Word))
         r     == Field(Word, 17, 5)
         xs    == IF taken /\ op = "blx" THEN Linked ELSE x
     IN  /\ x' = xs
         /\ Next4(IF taken THEN ReadFrom(xs, r) - 4 ELSE pc)
  /\ UNCHANGED <<mem, flags>>

\* The value printm and assertm read.  Their flag little_endian puts the first
\* byte into the most significant place.
Peeked(a, n, little) ==
  LET part == [k \in 0 .. n-1 |->
                 mem[Wrap(a + k)] * Pow2[ByteBits * (IF little THEN n - 1 - k ELSE k)]]
  IN  Wrap(Total(part, 0 .. n-1))

FlagBit(k) == CASE k = 0 -> flags.N [] k = 1 -> flags.Z [] k = 2 -> flags.C
                [] k = 3 -> flags.V [] OTHER -> FALSE

\* What a system call ends in: "done", or the reason run returns.
SysCall(id, a0, a1, a2, a3, a4) ==
  CASE id = SysCalls.print -> "done"
    [] id = SysCalls.assertr ->
         IF a1 <= ReadReg(a0) /\ ReadReg(a0) <= a2 THEN "done" ELSE "refused"
    [] id = SysCalls.assertm ->
         IF ~Reachable(a0, a1) THEN "faulted"
         ELSE IF a3 <= Peeked(a0, a1, a2 # 0) /\ Peeked(a0, a1, a2 # 0) <= a4
           THEN "done" ELSE "refused"
    [] id = SysCalls.assertp -> IF FlagBit(a0) = (a1 # 0) THEN "done" ELSE "refused"
    [] OTHER -> "refused"

Swi ==
  /\ Fetched("swi")
  /\ LET reply == SysCall(ReadReg(NR), ReadReg(0), ReadReg(1), ReadReg(2), ReadReg(3),
                          ReadReg(4))
     IN  IF CheckCond(CondOf(Word)) /\ reply # "done" THEN Throw(reply) ELSE Next4(pc)
  /\ UNCHANGED Data

\* The fetch does not check its address: past RAM it reads whatever the host
\* has there, and the model stops.
Wild == Running /\ pc >= RamBytes /\ Throw("wild") /\ UNCHANGED Data

Turn ==
  /\ \/ Hlt \/ Nop \/ Mul \/ BadMode \/ Adrp \/ Swi \/ Wild
     \/ \E op \in Adders \cup Subbers : AddSub(op)
     \/ \E op \in LongMuls : LongMul(op)
     \/ \E op \in Logicals : Logic(op)
     \/ \E op \in Shifts : Shift(op)
     \/ \E op \in Compares : Compare(op)
     \/ \E op \in Moves : Move(op)
     \/ \E op \in Loads : Load(op)
     \/ \E op \in Stores : Store(op)
     \/ \E op \in Swaps : Swap(op)
     \/ \E op \in Jumps : Jump(op)
     \/ \E op \in RegJumps : RegJump(op)
  /\ UNCHANGED <<prog, code>>

----------------------------------------------------------------------------
(* The calls of the embedding program. *)

Run(n) ==
  /\ ~Running /\ status # "wild"
  /\ status' = "running"
  /\ left' = IF n = 0 THEN Forever ELSE n
  /\ UNCHANGED <<prog, code, mem, x, flags, pc>>

\* Memory::reset leaves the last page of RAM as it is.
Reset ==
  /\ ~Running /\ status # "wild"
  /\ LET cleared(a) == a < RamBytes - PageBytes
     IN  /\ mem' = [a \in DOMAIN mem |-> IF cleared(a) THEN 0 ELSE mem[a]]
         /\ code' = [k \in DOMAIN code |-> IF cleared(4 * k) THEN {} ELSE code[k]]
         /\ prog' = [k \in DOMAIN prog |->
                       IF cleared(4 * (k - 1)) THEN [op |-> "hlt"] ELSE prog[k]]
  /\ x' = ResetRegs /\ flags' = NoFlags /\ pc' = 0
  /\ status' = "ready" /\ UNCHANGED left

Next == Turn \/ Reset \/ \E n \in 0 .. MaxRun : Run(n)

\* run is a loop that nothing interrupts: a turn that can be made is made.
Spec == Init /\ [][Next]_vars /\ WF_vars(Turn)

----------------------------------------------------------------------------
(* Type invariant.  The masks never change: this is how XZR reads as zero whatever is
   written to it. *)
TypeOK ==
  /\ mem \in [0 .. RamBytes - 1 -> Bytes]
  /\ x \in [Regs -> [val : Words, mask : {0, Modulus - 1}]]
  /\ \A r \in Regs : x[r].mask = 0 <=> r = XZR
  /\ flags \in FlagSet
  /\ pc \in Words
  /\ status \in Ends \cup {"running"}
  /\ left \in {Forever} \cup 0 .. MaxRun

Abstract == INSTANCE ISA WITH x <- [r \in Regs |-> ReadReg(r)], AsDocumented <- FALSE
Documented == INSTANCE ISA WITH x <- [r \in Regs |-> ReadReg(r)], AsDocumented <- TRUE

(* An assembled program does what its instructions mean to the processor: encoding,
   decoding, the flag formulas on bits, and the effects of every instruction and every
   fault agree with the arithmetic of ISA. *)
ISASpec == Abstract!Spec

(* An assembled program does what notes.txt says of its instructions. *)
NotesSpec == Documented!Spec

\* What the conditions decide of two operands that were just compared.
Decided(n, m) ==
  LET a == Signed(n)
      b == Signed(m)
  IN  /\ CheckCond("eq")' <=> (a = b)
      /\ CheckCond("ne")' <=> (a # b)
      /\ CheckCond("ge")' <=> (a >= b)
      /\ CheckCond("lt")' <=> (a < b)
      /\ CheckCond("gt")' <=> (a > b)
      /\ CheckCond("le")' <=> (a <= b)
      /\ CheckCond("cs")' <=> (n < m)
      /\ CheckCond("hi")' <=> (n < m)
      /\ CheckCond("cc")' <=> (n >= m)
      /\ CheckCond("ls")' <=> (n >= m)

(* After cmp each of the conditions that order two numbers decides one relation of them,
   whatever they are.  The signed ones, eq and ne decide what the table at
   emulator32bit.h:105 names them for.  The four unsigned ones decide the opposite of it:
   C is the borrow of the comparison, so that cs ("unsigned higher or same") and hi
   ("unsigned higher") hold when the first operand is lower, cc and ls when it is not. *)
CompareDecides ==
  [][Fetched("cmp") => \E arg \in GetArg(Word) : Decided(ReadReg(X2(Word)), arg)]_vars

(* A run of a given number of instructions comes to an end, also when the program loops:
   each turn counts, whatever the instruction does. *)
RunEnds == (Running /\ left # Forever) ~> ~Running
=============================================================================
