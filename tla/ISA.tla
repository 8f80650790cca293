-------------------------------- MODULE ISA --------------------------------
(***************************************************************************)
(* What an assembled program means, instruction by instruction, in terms   *)
(* of numbers: no encoding, no bits of intermediate results.               *)
(*                                                                         *)
(* There are two readings.  With AsDocumented the instructions do what     *)
(* emulator32bit/notes.txt says of them; the processor does not.  Without  *)
(* it they do what the processor is shown to do: each place where that is  *)
(* not what notes.txt says names AsDocumented, and "Departs" marks other   *)
(* places where it is not what the mnemonics suggest.                      *)
(***************************************************************************)
EXTENDS Words, Sequences

CONSTANTS
  Regs, RamBytes, PageBytes, Starts, MaxRun, SysCalls,   \* as in CPU
  AsDocumented    \* whether instructions mean what notes.txt says

VARIABLES prog, mem, x, flags, pc, status, left
vars == <<prog, mem, x, flags, pc, status, left>>

XZR == 31
LINKR == 29
NR == 8

Init ==
  /\ \E start \in Starts :
       /\ prog = start.prog /\ mem = start.mem /\ flags = start.flags
       /\ x = [r \in Regs |-> IF r = XZR THEN 0 ELSE start.regs[r]]
  /\ pc = 0 /\ status = "ready" /\ left = 0

Reads(r) == IF r \in Regs THEN x[r] ELSE 0
Put(xs, r, v) == IF r = XZR THEN xs ELSE [xs EXCEPT ![r] = v % Modulus]

\* An outcome: what one instruction makes of the machine, and what ends run.
Outcome(xs, m, f, to, why) == [x |-> xs, mem |-> m, flags |-> f, pc |-> to, ends |-> why]
Does(xs, m, f) == Outcome(xs, m, f, pc + 4, "no")
Same == Does(x, mem, flags)
Ends(why) == Outcome(x, mem, flags, pc, why)

ShiftedBy(v, sh, by) ==
  CASE sh = "lsl" -> v * Pow2[by]
    [] sh = "lsr" -> v \div Pow2[by]
    [] sh = "asr" -> Signed(v) \div Pow2[by]
    [] sh = "ror" -> (v \div Pow2[by]) + (v % Pow2[by]) * Pow2[WordBits - by]
\* Documented, an operand is shifted by a number of five bits (notes.txt:18, 269-273).
\* Of that amount the processor takes the lowest two, and an operand rotated by 0 may
\* be lost.
Args(a) ==
  IF a.imm THEN {a.val % Modulus}
  ELSE IF AsDocumented THEN {ShiftedBy(Reads(a.m), a.sh, a.by) % Modulus}
  ELSE {ShiftedBy(Reads(a.m), a.sh, a.by % 4) % Modulus}
       \cup (IF a.sh = "ror" /\ a.by % 4 = 0 THEN {0} ELSE {})

Fits(v) == -Modulus <= 2 * v /\ 2 * v < Modulus
Negative(v) == Signed(v % Modulus) < 0
Marked(v) == [flags EXCEPT !.N = Negative(v), !.Z = (v % Modulus = 0)]

\* Departs: with a carry in, V is also set when the first operand alone
\* overflows with the carry, though the sum may be right.
SumFlags(l, r, c) ==
  [N |-> Negative(l + r + c), Z |-> (l + r + c) % Modulus = 0,
   C |-> l + r + c >= Modulus,
   V |-> ~Fits(Signed(l) + Signed(r) + c) \/ ~Fits(Signed(l) + c)]
\* C is the borrow.  Departs as SumFlags.
DifferenceFlags(l, r, b) ==
  [N |-> Negative(l - r - b), Z |-> (l - r - b) % Modulus = 0,
   C |-> l < r + b,
   V |-> ~Fits(Signed(l) - Signed(r) - b) \/ ~Fits(Signed(l) - b)]

CarryIn(op) == IF op \in {"adc", "sbc", "rsc"} /\ flags.C THEN 1 ELSE 0

Arithmetic(i) ==
  {LET l == IF i.op \in {"rsb", "rsc"} THEN arg ELSE Reads(i.n)
       r == IF i.op \in {"rsb", "rsc"} THEN Reads(i.n) ELSE arg
       c == CarryIn(i.op)
       adds == i.op \in {"add", "adc", "cmn"}
       f == IF adds THEN SumFlags(l, r, c) ELSE DifferenceFlags(l, r, c)
   IN  IF i.op \in {"cmp", "cmn"} THEN Does(x, mem, f)
       ELSE Does(Put(x, i.d, IF adds THEN l + r + c ELSE l - r - c), mem,
                 IF i.s THEN f ELSE flags)
   : arg \in Args(i.arg)}

Bitwise2(f(_, _), a, b) ==
  ValueOf({k \in 0 .. WordBits-1 : f((a \div Pow2[k]) % 2 = 1, (b \div Pow2[k]) % 2 = 1)})
Logical(op, a, b) ==
  CASE op \in {"and", "tst"} -> LET f(p, q) == p /\ q  IN Bitwise2(f, a, b)
    [] op = "orr"            -> LET f(p, q) == p \/ q  IN Bitwise2(f, a, b)
    [] op \in {"eor", "teq"} -> LET f(p, q) == p # q   IN Bitwise2(f, a, b)
    [] op = "bic"            -> LET f(p, q) == p /\ ~q IN Bitwise2(f, a, b)

Logic(i) ==
  {LET v == Logical(i.op, Reads(i.n), arg)
   IN  IF i.op \in {"tst", "teq"} THEN Does(x, mem, Marked(v))
       ELSE Does(Put(x, i.d, v), mem, IF i.s THEN Marked(v) ELSE flags)
   : arg \in Args(i.arg)}

\* Departs: Z says that the product, not the word written, is 0.
Mul(i) ==
  {LET v == Reads(i.n) * arg
   IN  Does(Put(x, i.d, v), mem, IF i.s THEN [Marked(v) EXCEPT !.Z = (v = 0)] ELSE flags)
   : arg \in Args(i.arg)}

LongMul(i) ==
  LET value(r) == IF i.op = "smull" THEN Signed(Reads(r)) ELSE Reads(r)
      v  == value(i.m1) * value(i.m2)
      hi == (v \div Modulus) % Modulus
  IN  {Does(Put(Put(x, i.d, v), i.n, hi), mem,
            IF i.s THEN [flags EXCEPT !.N = Negative(hi), !.Z = (v = 0)] ELSE flags)}

\* Documented, {S} asks for the flags (notes.txt:109, 188-194); the processor leaves
\* them.  Departs: of an amount in a register only the lowest eight bits count.
Shift(i) ==
  LET by == IF i.arg.imm THEN i.arg.val ELSE Reads(i.arg.m) % 256
  IN  {Does(Put(x, i.d, v), mem, IF AsDocumented /\ i.s THEN Marked(v) ELSE flags)
       : v \in IF by >= WordBits THEN Words ELSE {ShiftedBy(Reads(i.n), i.op, by)}}

\* Documented, the operand of a move is a number, or a register to which a number is
\* added (notes.txt:31-37, 208-211).  A move from a register, as assembled, does nothing.
Moved(i) ==
  LET from == IF i.arg.imm THEN i.arg.val ELSE Reads(i.arg.m) + i.arg.val
  IN  IF i.op = "mvn" THEN -1 - from ELSE from
Move(i) ==
  {IF i.arg.imm \/ AsDocumented
     THEN Does(Put(x, i.d, Moved(i)), mem, IF i.s THEN Marked(Moved(i)) ELSE flags)
     ELSE Same}

----------------------------------------------------------------------------
InRam(a, n) == \A k \in 0 .. n-1 : (a + k) % Modulus < RamBytes
Value(a, n) == LET part == [k \in 0 .. n-1 |-> mem[(a + k) % Modulus] * Pow2[k * ByteBits]]
               IN  Total(part, 0 .. n-1)
\* Departs: the part of a store that lies in RAM is made even if the rest does not.
Stored(a, n, v) ==
  [b \in DOMAIN mem |->
     LET k == (b - a) % Modulus
     IN  IF k < n /\ InRam(a, k + 1) THEN (v \div Pow2[k * ByteBits]) % Pow2[ByteBits] ELSE mem[b]]

\* Documented, swph moves a half word (notes.txt:218-219); the processor moves a byte.
Bytes4(op) ==
  CASE op \in {"ldr", "str", "swp"} -> 4
    [] op \in {"ldrh", "strh"} \/ (op = "swph" /\ AsDocumented) -> 2
    [] OTHER -> 1

\* Departs: the offsets 2048 to 4095, which the assembler takes, are negative.
OffsetOf(v) == IF v < Pow2[11] THEN v ELSE v - Pow2[12]

\* Departs: the base moves before the access, also when that faults; a signed
\* load does not extend the sign.
Memory(i) ==
  IF i.mode = "none" THEN {Ends("refused")} ELSE
  {LET base == Reads(i.n)
       next == (base + offset) % Modulus
       at   == IF i.mode = "post" THEN base ELSE next
       xs   == IF i.mode = "offset" THEN x ELSE Put(x, i.n, next)
       n    == Bytes4(i.op)
       m    == IF i.op \in {"str", "strh", "strb"}
                 THEN Stored(at, n, IF i.d \in Regs THEN xs[i.d] ELSE 0) ELSE mem
   IN  IF ~InRam(at, n) THEN Outcome(xs, m, flags, pc, "faulted")
       ELSE IF i.op \in {"str", "strh", "strb"} THEN Does(xs, m, flags)
       ELSE Does(Put(xs, i.d, Value(at, n)), m, flags)
   : offset \in IF i.arg.imm THEN {OffsetOf(i.arg.val)} ELSE Args(i.arg)}

Swap(i) ==
  LET at == Reads(i.m1)
      n  == Bytes4(i.op)
  IN  {IF InRam(at, n) THEN Does(Put(x, i.d, Value(at, n)), Stored(at, n, Reads(i.n)), flags)
       ELSE Ends("faulted")}

----------------------------------------------------------------------------
\* Conditions come in pairs of opposites.
Holds(c) ==
  LET base == [eq |-> flags.Z, cs |-> flags.C, mi |-> flags.N, vs |-> flags.V,
               hi |-> flags.C /\ ~flags.Z, ge |-> flags.N = flags.V,
               gt |-> ~flags.Z /\ flags.N = flags.V, al |-> TRUE]
      opposite == [ne |-> "eq", cc |-> "cs", pl |-> "mi", vc |-> "vs",
                   ls |-> "hi", lt |-> "ge", le |-> "gt", nv |-> "al"]
  IN  IF c \in DOMAIN base THEN base[c] ELSE ~base[opposite[c]]

Branch(i) ==
  LET to == CASE i.op \in {"b", "bl"} -> pc + 4 * i.offset
              [] i.op = "bx"          -> Reads(i.d)
                 \* Departs: through the link register blx falls through.
              [] i.op = "blx"         -> IF i.d = LINKR THEN pc + 4 ELSE Reads(i.d)
  IN  {IF ~Holds(i.cond) THEN Same
       ELSE Outcome(IF i.op \in {"bl", "blx"} THEN Put(x, LINKR, pc + 4) ELSE x,
                    mem, flags, to, "no")}

\* Departs: little_endian reads the first byte as the most significant one.
Peeked(a, n, little) ==
  LET part == [k \in 0 .. n-1 |->
                 mem[(a + k) % Modulus] * Pow2[ByteBits * (IF little THEN n - 1 - k ELSE k)]]
  IN  Total(part, 0 .. n-1) % Modulus
Between(lo, v, hi) == lo <= v /\ v <= hi

SoftwareInterrupt(i) ==
  LET id == Reads(NR)
      a(k) == Reads(k)
      flag == a(0) < 4 /\ <<flags.N, flags.Z, flags.C, flags.V>>[a(0) + 1]
      held == CASE id = SysCalls.print   -> TRUE
                [] id = SysCalls.assertr -> Between(a(1), Reads(a(0)), a(2))
                [] id = SysCalls.assertm -> Between(a(3), Peeked(a(0), a(1), a(2) # 0), a(4))
                [] id = SysCalls.assertp -> flag = (a(1) # 0)
                [] OTHER                 -> FALSE
  IN  {IF ~Holds(i.cond) THEN Same
       ELSE IF id = SysCalls.assertm /\ ~InRam(a(0), a(1)) THEN Ends("faulted")
       ELSE IF held THEN Same ELSE Ends("refused")}

Outcomes(i) ==
  CASE i.op \in {"add", "adc", "sub", "sbc", "rsb", "rsc", "cmp", "cmn"} -> Arithmetic(i)
    [] i.op \in {"and", "orr", "eor", "bic", "tst", "teq"} -> Logic(i)
    [] i.op \in {"lsl", "lsr", "asr", "ror"}              -> Shift(i)
    [] i.op \in {"mov", "mvn"}                            -> Move(i)
    [] i.op = "mul"                                       -> Mul(i)
    [] i.op \in {"umull", "smull"}                        -> LongMul(i)
    [] i.op \in {"ldr", "ldrh", "ldrb", "str", "strh", "strb"} -> Memory(i)
    [] i.op \in {"swp", "swpb", "swph"}                   -> Swap(i)
    [] i.op \in {"b", "bl", "bx", "blx"}                  -> Branch(i)
    [] i.op = "swi"                                       -> SoftwareInterrupt(i)
    [] i.op = "adrp" -> {Does(Put(x, i.d, i.page * PageBytes), mem, flags)}
    [] i.op = "hlt"                                       -> {Ends("halted")}
    [] i.op = "nop"                                       -> {Same}

\* Past the program RAM holds zeros, which halt.
At(a) == IF a \div 4 < Len(prog) THEN prog[(a \div 4) + 1] ELSE [op |-> "hlt"]

Turn ==
  /\ status = "running"
  /\ \E o \in IF pc < RamBytes THEN Outcomes(At(pc)) ELSE {Ends("wild")} :
       /\ x' = o.x /\ mem' = o.mem /\ flags' = o.flags
       /\ pc' = o.pc % Modulus
       /\ left' = IF o.ends = "no" /\ left > 0 THEN left - 1 ELSE left
       /\ status' = IF o.ends # "no" THEN o.ends
                     ELSE IF left = 1 THEN "counted" ELSE "running"
  /\ UNCHANGED prog

Run(n) ==
  /\ status \notin {"running", "wild"}
  /\ status' = "running" /\ left' = (IF n = 0 THEN -1 ELSE n)
  /\ UNCHANGED <<prog, mem, x, flags, pc>>

\* Departs: a reset leaves the last page of RAM.
Reset ==
  /\ status \notin {"running", "wild"}
  /\ mem' = [a \in DOMAIN mem |-> IF a + PageBytes < RamBytes THEN 0 ELSE mem[a]]
  /\ prog' = [k \in DOMAIN prog |->
                IF 4 * (k - 1) + PageBytes < RamBytes THEN [op |-> "hlt"] ELSE prog[k]]
  /\ x' = [r \in Regs |-> 0]
  /\ flags' = [N |-> FALSE, Z |-> FALSE, C |-> FALSE, V |-> FALSE]
  /\ pc' = 0 /\ status' = "ready" /\ UNCHANGED left

Next == Turn \/ Reset \/ \E n \in 0 .. MaxRun : Run(n)
Spec == Init /\ [][Next]_vars
=============================================================================
