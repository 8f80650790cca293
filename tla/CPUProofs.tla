----------------------------- MODULE CPUProofs -----------------------------
(***************************************************************************)
(* Proofs about the processor, for every width of a word, every size of    *)
(* RAM, and every program the assembler can make.                          *)
(***************************************************************************)
EXTENDS Disassembler, WordLemmas

-----------------------------------------------------------------------------
(* Registers. *)

\* A file of registers as the constructor leaves it: every mask is full, but for the zero
\* register's.
RegisterFile(xs) ==
  /\ xs \in [Regs -> [val : Words, mask : {0, Modulus - 1}]]
  /\ \A r \in Regs : xs[r].mask = 0 <=> r = XZR

\* A write keeps the masks, whatever it writes and wherever.
LEMMA WriteKeepsFile ==
    ASSUME NEW xs, RegisterFile(xs), NEW r, NEW v \in Words
    PROVE  RegisterFile(WriteReg(xs, r, v))
<1>. DEFINE ys == WriteReg(xs, r, v)
<1>1. DOMAIN ys = Regs /\ ys = [q \in Regs |-> ys[q]]
  BY DEF RegisterFile, WriteReg
<1>2. \A q \in Regs : ys[q] \in [val : Words, mask : {0, Modulus - 1}] /\ ys[q].mask = xs[q].mask
  BY DEF RegisterFile, WriteReg
<1>. QED  BY <1>1, <1>2 DEF RegisterFile

\* What a read gives: the value, but 0 for the zero register and for registers outside.
LEMMA ReadOfFile ==
    ASSUME NEW xs, RegisterFile(xs), NEW r
    PROVE  /\ ReadFrom(xs, r) = IF r \in Regs \ {XZR} THEN xs[r].val ELSE 0
           /\ ReadFrom(xs, r) \in Words
<1>1. 0 \in Words
  BY ModulusFacts
<1>2. CASE r \in Regs
  <2>1. xs[r].val \in Words /\ xs[r].mask = IF r = XZR THEN 0 ELSE Modulus - 1
    BY <1>2 DEF RegisterFile
  <2>. QED  BY <1>1, <1>2, <2>1, MaskFacts DEF ReadFrom
<1>3. CASE r \notin Regs
  BY <1>1, <1>3 DEF ReadFrom
<1>. QED  BY <1>2, <1>3

LEMMA RegistersAtRest ==
    /\ RegisterFile(ResetRegs)
    /\ \A start \in Starts :
         RegisterFile([r \in Regs |-> [ResetRegs[r] EXCEPT !.val = start.regs[r]]])
<1>1. 0 \in Words /\ Modulus - 1 # 0
  BY ModulusFacts
<1>2. RegisterFile(ResetRegs)
  BY <1>1 DEF RegisterFile, ResetRegs
<1>3. ASSUME NEW start \in Starts
      PROVE  RegisterFile([r \in Regs |-> [ResetRegs[r] EXCEPT !.val = start.regs[r]]])
  <2>1. start.regs \in [Regs -> Words]
    BY StartsAssumption
  <2>. QED  BY <1>1, <2>1 DEF RegisterFile, ResetRegs
<1>. QED  BY <1>2, <1>3

LEMMA TypedFile == TypeOK <=> /\ mem \in [0 .. RamBytes - 1 -> Bytes]
                              /\ RegisterFile(x)
                              /\ flags \in FlagSet
                              /\ pc \in Words
                              /\ status \in Ends \cup {"running"}
                              /\ left \in {Forever} \cup 0 .. MaxRun
BY DEF TypeOK, RegisterFile

LEMMA ReadsAreWords == TypeOK => \A r : ReadReg(r) \in Words
BY TypedFile, ReadOfFile DEF ReadReg

-----------------------------------------------------------------------------
(* Operands, flags and memory. *)

LEMMA ShiftsAreWords ==
    ASSUME NEW v \in Words, NEW type \in 0 .. 3, NEW by \in 0 .. 3
    PROVE  CalcShift(v, type, by) \subseteq Words
<1>1. 0 \in Words
  BY ModulusFacts
<1>2. /\ LeftBy(v, by) \in Words /\ RightBy(v, by) \in Words /\ SignedRightBy(v, by) \in Words
      /\ Or(RightBy(v, by), LeftBy(v, WordBits - by)) \in Words
  BY DivPowFacts, LogicTypes
<1>3. type = 0 \/ type = 1 \/ type = 2 \/ type = 3
  OBVIOUS
<1>. QED  BY <1>1, <1>2, <1>3 DEF CalcShift

LEMMA ArgsAreWords == TypeOK => \A w : GetArg(w) \subseteq Words
<1>. SUFFICES ASSUME TypeOK, NEW w PROVE GetArg(w) \subseteq Words
  OBVIOUS
<1>1. Field(w, 7, 2) \in 0 .. 3 /\ Field(w, 2, 2) \in 0 .. 3
  BY FieldFacts, SmallPowers
<1>2. CalcShift(ReadReg(X3(w)), Field(w, 7, 2), Field(w, 2, 2)) \subseteq Words
  BY <1>1, ShiftsAreWords, ReadsAreWords
<1>3. Field(w, 0, 14) \in Int
  BY FieldFacts, PowFacts
<1>4. Wrap(Field(w, 0, 14)) \in Words
  BY <1>3, WrapFacts
<1>. QED  BY <1>2, <1>4 DEF GetArg

LEMMA OffsetsAreNumbers == TypeOK => \A w : Offset(w) \subseteq Int
<1>. SUFFICES ASSUME TypeOK, NEW w PROVE Offset(w) \subseteq Int
  OBVIOUS
<1>1. SignedField(w, 2, 12) \in Int
  BY FieldFacts, PowFacts DEF SignedField
<1>2. GetArg(w) \subseteq Int
  BY ArgsAreWords, ModulusFacts
<1>. QED  BY <1>1, <1>2 DEF Offset

LEMMA FlagUpdates ==
    ASSUME NEW f \in FlagSet, NEW n \in BOOLEAN, NEW z \in BOOLEAN
    PROVE  [f EXCEPT !.N = n, !.Z = z] \in FlagSet /\ [f EXCEPT !.Z = z] \in FlagSet
BY DEF FlagSet

LEMMA FlagsAreFlags ==
    /\ \A l, r, c : AddFlags(l, r, c) \in FlagSet
    /\ \A l, r, c : SubFlags(l, r, c) \in FlagSet
    /\ flags \in FlagSet => \A v \in Int : NZ(v) \in FlagSet
    /\ NoFlags \in FlagSet
<1>1. ASSUME NEW l, NEW r, NEW c PROVE AddFlags(l, r, c) \in FlagSet
  BY DEF AddFlags, FlagSet, Top, CFlagAdd, VFlagAdd
<1>2. ASSUME NEW l, NEW r, NEW c PROVE SubFlags(l, r, c) \in FlagSet
  BY DEF SubFlags, FlagSet, Top, CFlagSub, VFlagSub
<1>3. ASSUME flags \in FlagSet, NEW v \in Int PROVE NZ(v) \in FlagSet
  <2>1. Top(v) \in BOOLEAN
    BY DEF Top
  <2>. QED  BY <1>3, <2>1, FlagUpdates, Zenon DEF NZ
<1>4. NoFlags \in FlagSet
  BY DEF FlagSet, NoFlags
<1>. QED  BY <1>1, <1>2, <1>3, <1>4

LEMMA WordsRead ==
    ASSUME TypeOK, NEW a \in Int, NEW n \in 0 .. 4, Reachable(a, n)
    PROVE  Read(a, n) \in Words
<1>. DEFINE byte == [k \in 0 .. n - 1 |-> mem[Wrap(a + k)]]
            part == [k \in 0 .. n - 1 |-> mem[Wrap(a + k)] * Pow2[k * ByteBits]]
<1>1. byte \in [0 .. n - 1 -> Bytes]
  <2>. SUFFICES ASSUME NEW k \in 0 .. n - 1 PROVE mem[Wrap(a + k)] \in Bytes
    OBVIOUS
  <2>1. a + k \in Int
    OBVIOUS
  <2>2. Wrap(a + k) \in Words /\ Wrap(a + k) < RamBytes
    BY <2>1, WrapFacts DEF Reachable, Routed
  <2>3. Wrap(a + k) \in 0 .. RamBytes - 1
    BY <2>2, ModulusFacts, CpuAssumption
  <2>. QED  BY <2>3 DEF TypeOK
<1>2. part = [k \in 0 .. n - 1 |-> byte[k] * Pow2[k * ByteBits]]
  OBVIOUS
<1>3. Total(part, 0 .. n - 1) \in 0 .. Pow2[n * ByteBits] - 1
  <2>. HIDE DEF byte, part
  <2>. QED  BY <1>1, <1>2, JoinedBytes
<1>4. n * ByteBits \in Nat /\ WordBits \in Nat /\ n * ByteBits <= WordBits
  <2>1. n = 0 \/ n = 1 \/ n = 2 \/ n = 3 \/ n = 4
    OBVIOUS
  <2>. QED  BY <2>1, ModulusFacts
<1>5. Pow2[n * ByteBits] <= Modulus
  BY <1>4, PowMonotone DEF Modulus
<1>6. Pow2[n * ByteBits] \in Nat
  BY <1>4, PowFacts
<1>7. Read(a, n) = Total(part, 0 .. n - 1)
  BY DEF Read
<1>8. \A P, M \in Nat : P <= M => 0 .. P - 1 \subseteq 0 .. M - 1
  OBVIOUS
<1>9. Modulus \in Nat /\ Words = 0 .. Modulus - 1
  BY ModulusFacts
<1>. HIDE DEF byte, part
<1>. QED  BY <1>3, <1>5, <1>6, <1>7, <1>8, <1>9

LEMMA WritesAreBytes ==
    ASSUME TypeOK, NEW a \in Int, NEW n \in Nat, NEW v \in Int
    PROVE  Written(a, n, v) \in [0 .. RamBytes - 1 -> Bytes]
<1>. DEFINE done == {k \in 0 .. n-1 : Reachable(a, k + 1)}
<1>1. DOMAIN mem = 0 .. RamBytes - 1 /\ \A b \in 0 .. RamBytes - 1 : mem[b] \in Bytes
  BY DEF TypeOK
<1>2. \A k \in done : ByteAt(v, k) \in Bytes
  BY ByteFacts
<1>3. Written(a, n, v) =
        [b \in DOMAIN mem |->
           IF \E k \in done : b = Wrap(a + k)
             THEN ByteAt(v, CHOOSE k \in done : b = Wrap(a + k)) ELSE mem[b]]
  BY DEF Written
<1>. HIDE DEF done
<1>4. \A b : (\E k \in done : b = Wrap(a + k)) =>
               ByteAt(v, CHOOSE k \in done : b = Wrap(a + k)) \in Bytes
  BY <1>2, Zenon
<1>. DEFINE new == [b \in DOMAIN mem |->
                      IF \E k \in done : b = Wrap(a + k)
                        THEN ByteAt(v, CHOOSE k \in done : b = Wrap(a + k)) ELSE mem[b]]
<1>5. \A b \in 0 .. RamBytes - 1 : new[b] \in Bytes
  <2>. SUFFICES ASSUME NEW b \in 0 .. RamBytes - 1 PROVE new[b] \in Bytes
    OBVIOUS
  <2>1. CASE \E k \in done : b = Wrap(a + k)
    BY <1>1, <1>4, <2>1, Zenon
  <2>2. CASE ~ \E k \in done : b = Wrap(a + k)
    BY <1>1, <2>2, Zenon
  <2>. QED  BY <2>1, <2>2
<1>. QED  BY <1>1, <1>3, <1>5, Zenon

-----------------------------------------------------------------------------
(* The type invariant. *)

LEMMA CountsStayTyped ==
    ASSUME TypeOK
    PROVE  /\ \A at \in Int : Next4(at) =>
                 pc' \in Words /\ status' \in Ends \cup {"running"} /\ left' \in {Forever} \cup 0 .. MaxRun
           /\ \A why \in Ends : Throw(why) =>
                 pc' \in Words /\ status' \in Ends \cup {"running"} /\ left' \in {Forever} \cup 0 .. MaxRun
<1>1. MaxRun \in Nat
  BY CpuAssumption
<1>2. ASSUME NEW at \in Int, Next4(at)
      PROVE  pc' \in Words /\ status' \in Ends \cup {"running"} /\ left' \in {Forever} \cup 0 .. MaxRun
  <2>1. at + 4 \in Int
    OBVIOUS
  <2>. QED  BY <1>1, <1>2, <2>1, WrapFacts DEF TypeOK, Next4, Ends, Forever
<1>3. ASSUME NEW why \in Ends, Throw(why)
      PROVE  pc' \in Words /\ status' \in Ends \cup {"running"} /\ left' \in {Forever} \cup 0 .. MaxRun
  BY <1>3 DEF TypeOK, Throw
<1>. QED  BY <1>2, <1>3

\* A step that keeps the registers, the memory and the flags typed, and counts.
LEMMA TypedStep ==
    ASSUME TypeOK, RegisterFile(x'), mem' \in [0 .. RamBytes - 1 -> Bytes], flags' \in FlagSet,
           (\E at \in Int : Next4(at)) \/ (\E why \in Ends : Throw(why))
    PROVE  TypeOK'
BY CountsStayTyped DEF TypeOK, RegisterFile

LEMMA SetTyped ==
    ASSUME TypeOK, NEW r, NEW v \in Words, Set(r, v)
    PROVE  RegisterFile(x')
BY TypedFile, WriteKeepsFile DEF Set

LEMMA FieldsAreNumbers ==
    /\ \A w, i : \A len \in Nat : Field(w, i, len) \in Nat /\ SignedField(w, i, len) \in Int
    /\ TypeOK => pc \in Nat
<1>1. ASSUME NEW w, NEW i, NEW len \in Nat PROVE Field(w, i, len) \in Nat /\ SignedField(w, i, len) \in Int
  BY FieldFacts, PowFacts DEF SignedField
<1>2. TypeOK => pc \in Nat
  BY ModulusFacts DEF TypeOK
<1>. QED  BY <1>1, <1>2

LEMMA DataTyped ==
    ASSUME TypeOK
    PROVE  /\ UNCHANGED x => RegisterFile(x')
           /\ UNCHANGED mem => mem' \in [0 .. RamBytes - 1 -> Bytes]
           /\ UNCHANGED flags => flags' \in FlagSet
           /\ \A s : \A f \in FlagSet : SetFlagsIf(s, f) => flags' \in FlagSet
BY TypedFile DEF SetFlagsIf

LEMMA AddSubTyped == ASSUME TypeOK, NEW op, AddSub(op) PROVE TypeOK'
<1>1. PICK arg \in GetArg(Word) :
        LET n   == ReadReg(X2(Word))
            l   == IF op \in {"rsb", "rsc"} THEN arg ELSE n
            r   == IF op \in {"rsb", "rsc"} THEN n ELSE arg
            c   == IF op \in {"adc", "sbc", "rsc"} THEN Flag(flags.C) ELSE 0
        IN  /\ Set(X1(Word), IF op \in Adders THEN Wrap(l + r + c) ELSE Wrap(l - r - c))
            /\ SetFlagsIf(SetsFlags(Word),
                          IF op \in Adders THEN AddFlags(l, r, c) ELSE SubFlags(l, r, c))
  BY DEF AddSub
<1>. DEFINE n == ReadReg(X2(Word))
            l == IF op \in {"rsb", "rsc"} THEN arg ELSE n
            r == IF op \in {"rsb", "rsc"} THEN n ELSE arg
            c == IF op \in {"adc", "sbc", "rsc"} THEN Flag(flags.C) ELSE 0
            v == IF op \in Adders THEN Wrap(l + r + c) ELSE Wrap(l - r - c)
            f == IF op \in Adders THEN AddFlags(l, r, c) ELSE SubFlags(l, r, c)
<1>2. n \in Words /\ arg \in Words /\ c \in Int
  BY ReadsAreWords, ArgsAreWords DEF Flag
<1>3. l \in Int /\ r \in Int
  BY <1>2, ModulusFacts
<1>4. Set(X1(Word), v) /\ SetFlagsIf(SetsFlags(Word), f)
  BY <1>1
<1>. HIDE DEF n, l, r, c
<1>5. v \in Words
  <2>1. l + r + c \in Int /\ l - r - c \in Int
    BY <1>2, <1>3
  <2>. QED  BY <2>1, WrapFacts
<1>6. f \in FlagSet
  BY FlagsAreFlags
<1>. HIDE DEF v, f
<1>7. RegisterFile(x') /\ flags' \in FlagSet
  BY <1>4, <1>5, <1>6, SetTyped, DataTyped
<1>8. mem' = mem /\ Next4(pc)
  BY DEF AddSub
<1>. QED  BY <1>7, <1>8, TypedStep, DataTyped, FieldsAreNumbers

LEMMA MulTyped == ASSUME TypeOK, Mul PROVE TypeOK'
<1>. DEFINE full(arg) == ReadReg(X2(Word)) * arg
            f(arg) == [NZ(Wrap(full(arg))) EXCEPT !.Z = (full(arg) = 0)]
<1>1. PICK arg \in GetArg(Word) :
        Set(X1(Word), Wrap(full(arg))) /\ SetFlagsIf(SetsFlags(Word), f(arg))
  BY DEF Mul
<1>2. full(arg) \in Int
  BY ReadsAreWords, ArgsAreWords, ModulusFacts
<1>3. Wrap(full(arg)) \in Words /\ Wrap(full(arg)) \in Int
  BY <1>2, WrapFacts, ModulusFacts
<1>4. f(arg) \in FlagSet
  <2>1. NZ(Wrap(full(arg))) \in FlagSet /\ (full(arg) = 0) \in BOOLEAN
    BY <1>3, FlagsAreFlags DEF TypeOK
  <2>. QED  BY <2>1, FlagUpdates, Zenon
<1>. HIDE DEF full, f
<1>5. RegisterFile(x') /\ flags' \in FlagSet
  BY <1>1, <1>3, <1>4, SetTyped, DataTyped
<1>6. mem' = mem /\ Next4(pc)
  BY DEF Mul
<1>. QED  BY <1>5, <1>6, TypedStep, DataTyped, FieldsAreNumbers

LEMMA LongMulTyped == ASSUME TypeOK, NEW op, LongMul(op) PROVE TypeOK'
<1>. DEFINE value(r) == IF op = "smull" THEN Signed(ReadReg(r)) ELSE ReadReg(r)
            full == (value(X3(Word)) * value(X4(Word))) % (Modulus * Modulus)
            f == [flags EXCEPT !.N = Top(full \div Modulus), !.Z = (full = 0)]
<1>1. \A r : value(r) \in Int
  BY ReadsAreWords, DivPowFacts, ModulusFacts
<1>2. full \in 0 .. Modulus * Modulus - 1
  <2>1. value(X3(Word)) * value(X4(Word)) \in Int
    BY <1>1
  <2>2. Modulus * Modulus \in Nat \ {0}
    <3>1. \A m \in Nat \ {0} : m * m \in Nat \ {0}
      OBVIOUS
    <3>2. Modulus \in Nat \ {0}
      BY ModulusFacts
    <3>. QED  BY <3>1, <3>2, Zenon
  <2>3. \A p \in Int, M \in Nat \ {0} : p % M \in 0 .. M - 1
    OBVIOUS
  <2>. HIDE DEF value
  <2>. QED  BY <2>1, <2>2, <2>3, Zenon
<1>. HIDE DEF full
<1>3. Wrap(full) \in Words /\ full \div Modulus \in Words
  <2>1. \A M \in Nat \ {0} : \A p \in 0 .. M * M - 1 : p \div M \in 0 .. M - 1
    <3>. SUFFICES ASSUME NEW M \in Nat \ {0}, NEW p \in 0 .. M * M - 1 PROVE p \div M \in 0 .. M - 1
      OBVIOUS
    <3>1. M * M \in Nat
      OBVIOUS
    <3>2. p \in Nat /\ p < M * M
      BY <3>1
    <3>3. p \div M \in Nat /\ p = (p \div M) * M + (p % M) /\ p % M \in Nat
      BY <3>2, DivMod
    <3>4. \A q, r \in Nat : q * M + r < M * M => q < M
      <4>. SUFFICES ASSUME NEW q \in Nat, NEW r \in Nat, q * M + r < M * M, q >= M PROVE FALSE
        OBVIOUS
      <4>1. q * M >= M * M
        OBVIOUS
      <4>2. q * M \in Nat /\ M * M \in Nat
        OBVIOUS
      <4>. QED  BY <4>1, <4>2
    <3>. QED  BY <3>2, <3>3, <3>4
  <2>2. Modulus \in Nat \ {0} /\ Words = 0 .. Modulus - 1
    BY ModulusFacts
  <2>3. full \div Modulus \in 0 .. Modulus - 1
    BY <1>2, <2>1, <2>2, Zenon
  <2>4. full \in Int
    BY <1>2
  <2>. QED  BY <2>2, <2>3, <2>4, WrapFacts
<1>4. f \in FlagSet
  <2>1. Top(full \div Modulus) \in BOOLEAN
    BY DEF Top
  <2>. QED  BY <2>1, FlagUpdates, Zenon DEF TypeOK
<1>5. x' = WriteReg(WriteReg(x, X1(Word), Wrap(full)), X2(Word), full \div Modulus)
      /\ SetFlagsIf(SetsFlags(Word), f)
  BY DEF LongMul, full
<1>. HIDE DEF f
<1>6. RegisterFile(x') /\ flags' \in FlagSet
  BY <1>3, <1>4, <1>5, TypedFile, WriteKeepsFile, DataTyped
<1>7. mem' = mem /\ Next4(pc)
  BY DEF LongMul
<1>. QED  BY <1>6, <1>7, TypedStep, DataTyped, FieldsAreNumbers

LEMMA LogicIsTyped == \A op \in Logicals \cup {"tst", "teq"} : \A n, arg : LogicOf(op, n, arg) \in Words
<1>. SUFFICES ASSUME NEW op \in Logicals \cup {"tst", "teq"}, NEW n, NEW arg
              PROVE  LogicOf(op, n, arg) \in Words
  OBVIOUS
<1>1. /\ And(arg, n) \in Words /\ Or(arg, n) \in Words /\ Xor(arg, n) \in Words
      /\ And(Flip(arg), n) \in Words
  BY LogicTypes
<1>2. op \in {"and", "tst"} \/ op = "orr" \/ op \in {"eor", "teq"} \/ op = "bic"
  BY DEF Logicals
<1>. QED  BY <1>1, <1>2 DEF LogicOf

LEMMA LogicTyped == ASSUME TypeOK, NEW op \in Logicals, Logic(op) PROVE TypeOK'
<1>1. PICK arg \in GetArg(Word) :
        LET v == LogicOf(op, ReadReg(X2(Word)), arg)
        IN  Set(X1(Word), v) /\ SetFlagsIf(SetsFlags(Word), NZ(v))
  BY DEF Logic
<1>. DEFINE v == LogicOf(op, ReadReg(X2(Word)), arg)
<1>2. v \in Words /\ v \in Int
  BY LogicIsTyped, ModulusFacts
<1>3. Set(X1(Word), v) /\ SetFlagsIf(SetsFlags(Word), NZ(v))
  BY <1>1
<1>. HIDE DEF v
<1>4. RegisterFile(x') /\ flags' \in FlagSet
  BY <1>2, <1>3, SetTyped, FlagsAreFlags, DataTyped DEF TypeOK
<1>5. mem' = mem /\ Next4(pc)
  BY DEF Logic
<1>. QED  BY <1>4, <1>5, TypedStep, DataTyped, FieldsAreNumbers

\* Whatever the amount, also where the program leaves the result open.
LEMMA ShiftByTyped ==
    \A op \in Shifts : \A v \in Words : \A by \in Nat : ShiftBy(op, v, by) \subseteq Words
<1>. SUFFICES ASSUME NEW op \in Shifts, NEW v \in Words, NEW by \in Nat
              PROVE  ShiftBy(op, v, by) \subseteq Words
  OBVIOUS
<1>1. /\ LeftBy(v, by) \in Words /\ RightBy(v, by) \in Words /\ SignedRightBy(v, by) \in Words
      /\ Or(RightBy(v, by), LeftBy(v, WordBits - by)) \in Words
  BY DivPowFacts, LogicTypes
<1>2. op = "lsl" \/ op = "lsr" \/ op = "asr" \/ op = "ror"
  BY DEF Shifts
<1>. QED  BY <1>1, <1>2 DEF ShiftBy

LEMMA ShiftTyped == ASSUME TypeOK, NEW op \in Shifts, Shift(op) PROVE TypeOK'
<1>. DEFINE by == IF 14 \in Word THEN Field(Word, 2, 5) ELSE ReadReg(X3(Word)) % 256
<1>1. by \in Nat
  <2>1. ReadReg(X3(Word)) \in Nat
    BY ReadsAreWords, ModulusFacts
  <2>. QED  BY <2>1, FieldsAreNumbers
<1>2. PICK v \in ShiftBy(op, ReadReg(X2(Word)), by) : Set(X1(Word), v)
  BY DEF Shift
<1>. HIDE DEF by
<1>3. v \in Words
  BY <1>1, ReadsAreWords, ShiftByTyped
<1>4. mem' = mem /\ flags' = flags /\ Next4(pc)
  BY DEF Shift
<1>. QED  BY <1>2, <1>3, <1>4, SetTyped, TypedStep, DataTyped, FieldsAreNumbers

LEMMA CompareTyped == ASSUME TypeOK, NEW op \in Compares, Compare(op) PROVE TypeOK'
<1>1. PICK arg \in GetArg(Word) :
        LET n == ReadReg(X2(Word))
        IN  flags' = CASE op = "cmp" -> SubFlags(n, arg, 0)
                       [] op = "cmn" -> AddFlags(n, arg, 0)
                       [] OTHER      -> NZ(LogicOf(op, n, arg))
  BY DEF Compare
<1>2. flags' \in FlagSet
  <2>1. CASE op = "cmp"
    BY <1>1, <2>1, FlagsAreFlags
  <2>2. CASE op = "cmn"
    BY <1>1, <2>2, FlagsAreFlags
  <2>3. CASE op \in {"tst", "teq"}
    <3>1. flags' = NZ(LogicOf(op, ReadReg(X2(Word)), arg))
      BY <1>1, <2>3
    <3>2. LogicOf(op, ReadReg(X2(Word)), arg) \in Words
      BY <2>3, LogicIsTyped
    <3>. QED  BY <3>1, <3>2, FlagsAreFlags, ModulusFacts DEF TypeOK
  <2>. QED  BY <2>1, <2>2, <2>3 DEF Compares
<1>3. mem' = mem /\ x' = x /\ Next4(pc)
  BY DEF Compare
<1>. QED  BY <1>2, <1>3, TypedStep, DataTyped, FieldsAreNumbers

LEMMA MoveTyped == ASSUME TypeOK, NEW op \in Moves, Move(op) PROVE TypeOK'
<1>. DEFINE from == IF 19 \in Word THEN Wrap(Field(Word, 0, 19))
                    ELSE Wrap(Field(Word, 0, 14) + ReadReg(Field(Word, 14, 5)))
            v    == IF op = "mvn" THEN Flip(from) ELSE from
<1>1. from \in Words
  <2>1. /\ Field(Word, 0, 19) \in Int /\ Field(Word, 0, 14) \in Int
        /\ ReadReg(Field(Word, 14, 5)) \in Int
    BY FieldsAreNumbers, ReadsAreWords, ModulusFacts
  <2>2. Field(Word, 0, 14) + ReadReg(Field(Word, 14, 5)) \in Int
    BY <2>1
  <2>. QED  BY <2>1, <2>2, WrapFacts
<1>2. Set(X1(Word), v) /\ SetFlagsIf(SetsFlags(Word), NZ(v))
  BY DEF Move
<1>. HIDE DEF from
<1>3. v \in Words /\ v \in Int
  BY <1>1, FlipFacts, ModulusFacts
<1>. HIDE DEF v
<1>4. RegisterFile(x') /\ flags' \in FlagSet
  BY <1>2, <1>3, SetTyped, FlagsAreFlags, DataTyped DEF TypeOK
<1>5. mem' = mem /\ Next4(pc)
  BY DEF Move
<1>. QED  BY <1>4, <1>5, TypedStep, DataTyped, FieldsAreNumbers

LEMMA SizesFit == \A op \in Loads \cup Stores \cup Swaps : Size(op) \in {1, 2, 4}
BY DEF Size, Loads, Stores, Swaps

\* The base register, moved or not, and the address.
LEMMA AddressTyped ==
    ASSUME TypeOK, NEW w, NEW offset \in Offset(w)
    PROVE  /\ MemAddr(w, offset) \in Words
           /\ RegisterFile(BasesAfter(w, offset))
<1>1. offset \in Int /\ ReadReg(X2(w)) \in Words
  BY OffsetsAreNumbers, ReadsAreWords
<1>2. ReadReg(X2(w)) + offset \in Int
  BY <1>1, ModulusFacts
<1>3. Wrap(ReadReg(X2(w)) + offset) \in Words
  BY <1>2, WrapFacts
<1>. QED  BY <1>1, <1>3, TypedFile, WriteKeepsFile DEF MemAddr, BasesAfter

LEMMA LoadTyped == ASSUME TypeOK, NEW op \in Loads, Load(op) PROVE TypeOK'
<1>1. PICK offset \in Offset(Word) :
        LET at == MemAddr(Word, offset)
            xs == BasesAfter(Word, offset)
        IN  \/ /\ Reachable(at, Size(op))
               /\ x' = WriteReg(xs, X1(Word), Read(at, Size(op)))
               /\ Next4(pc)
            \/ /\ ~Reachable(at, Size(op))
               /\ x' = xs
               /\ Throw("faulted")
  BY DEF Load
<1>. DEFINE at == MemAddr(Word, offset)
            xs == BasesAfter(Word, offset)
<1>2. at \in Int /\ RegisterFile(xs) /\ Size(op) \in 0 .. 4
  BY AddressTyped, SizesFit, ModulusFacts
<1>3. \/ Reachable(at, Size(op)) /\ x' = WriteReg(xs, X1(Word), Read(at, Size(op))) /\ Next4(pc)
      \/ x' = xs /\ Throw("faulted")
  BY <1>1
<1>. HIDE DEF at, xs
<1>4. RegisterFile(x')
  BY <1>2, <1>3, WordsRead, WriteKeepsFile
<1>5. mem' = mem /\ flags' = flags
  BY DEF Load
<1>6. "faulted" \in Ends
  BY DEF Ends
<1>. QED  BY <1>3, <1>4, <1>5, <1>6, TypedStep, DataTyped, FieldsAreNumbers

LEMMA StoreTyped == ASSUME TypeOK, NEW op \in Stores, Store(op) PROVE TypeOK'
<1>1. PICK offset \in Offset(Word) :
        LET at == MemAddr(Word, offset)
            xs == BasesAfter(Word, offset)
        IN  /\ x' = xs
            /\ mem' = Written(at, Size(op), ReadFrom(xs, X1(Word)))
            /\ IF Reachable(at, Size(op)) THEN Next4(pc) ELSE Throw("faulted")
  BY DEF Store
<1>. DEFINE at == MemAddr(Word, offset)
            xs == BasesAfter(Word, offset)
<1>2. at \in Int /\ RegisterFile(xs) /\ Size(op) \in Nat
  BY AddressTyped, SizesFit, ModulusFacts
<1>3. /\ x' = xs
      /\ mem' = Written(at, Size(op), ReadFrom(xs, X1(Word)))
      /\ Next4(pc) \/ Throw("faulted")
  BY <1>1
<1>. HIDE DEF at, xs
<1>4. ReadFrom(xs, X1(Word)) \in Int
  BY <1>2, ReadOfFile, ModulusFacts
<1>5. RegisterFile(x') /\ mem' \in [0 .. RamBytes - 1 -> Bytes]
  BY <1>2, <1>3, <1>4, WritesAreBytes
<1>6. flags' = flags /\ "faulted" \in Ends
  BY DEF Store, Ends
<1>. QED  BY <1>3, <1>5, <1>6, TypedStep, DataTyped, FieldsAreNumbers

LEMMA SwapTyped == ASSUME TypeOK, NEW op \in Swaps, Swap(op) PROVE TypeOK'
<1>. DEFINE at == ReadReg(X3(Word))
<1>1. at \in Int /\ ReadReg(X2(Word)) \in Int /\ Size(op) \in 0 .. 4
  BY ReadsAreWords, SizesFit, ModulusFacts
<1>2. flags' = flags /\ "faulted" \in Ends
  BY DEF Swap, Ends
<1>3. \/ /\ Reachable(at, Size(op)) /\ Set(X1(Word), Read(at, Size(op)))
         /\ mem' = Written(at, Size(op), ReadReg(X2(Word))) /\ Next4(pc)
      \/ Throw("faulted") /\ UNCHANGED <<x, mem>>
  BY DEF Swap
<1>. HIDE DEF at
<1>4. CASE /\ Reachable(at, Size(op)) /\ Set(X1(Word), Read(at, Size(op)))
           /\ mem' = Written(at, Size(op), ReadReg(X2(Word))) /\ Next4(pc)
  <2>. DEFINE size == Size(op)
  <2>0. size \in Nat /\ size \in 0 .. 4
    BY <1>1
  <2>. HIDE DEF size
  <2>1. RegisterFile(x')
    <3>1. Read(at, size) \in Words
      BY <1>1, <1>4, <2>0, WordsRead DEF size
    <3>. QED  BY <1>4, <3>1, SetTyped, DataTyped DEF size
  <2>2. mem' \in [0 .. RamBytes - 1 -> Bytes]
    <3>1. Written(at, size, ReadReg(X2(Word))) \in [0 .. RamBytes - 1 -> Bytes]
      BY <1>1, <2>0, WritesAreBytes
    <3>. QED  BY <1>4, <3>1 DEF size
  <2>. QED  BY <1>2, <1>4, <2>1, <2>2, TypedStep, DataTyped, FieldsAreNumbers
<1>5. CASE Throw("faulted") /\ UNCHANGED <<x, mem>>
  BY <1>2, <1>5, TypedStep, DataTyped
<1>. QED  BY <1>3, <1>4, <1>5

LEMMA LinkedTyped == TypeOK => RegisterFile(Linked)
<1>. SUFFICES ASSUME TypeOK PROVE RegisterFile(Linked)
  OBVIOUS
<1>1. pc + 4 \in Int
  BY FieldsAreNumbers
<1>. QED  BY <1>1, TypedFile, WrapFacts, WriteKeepsFile DEF Linked

LEMMA JumpTyped == ASSUME TypeOK, NEW op, Jump(op) PROVE TypeOK'
<1>. DEFINE at == IF CheckCond(CondOf(Word)) THEN pc + 4 * SignedField(Word, 0, 22) - 4 ELSE pc
<1>1. at \in Int
  BY FieldsAreNumbers
<1>2. (x' = Linked \/ x' = x) /\ Next4(at) /\ mem' = mem /\ flags' = flags
  BY DEF Jump
<1>. HIDE DEF at
<1>3. RegisterFile(x')
  BY <1>2, LinkedTyped, TypedFile
<1>. QED  BY <1>1, <1>2, <1>3, TypedStep, DataTyped

LEMMA RegJumpTyped == ASSUME TypeOK, NEW op, RegJump(op) PROVE TypeOK'
<1>. DEFINE taken == CheckCond(CondOf(Word))
            r     == Field(Word, 17, 5)
            xs    == IF taken /\ op = "blx" THEN Linked ELSE x
            at    == IF taken THEN ReadFrom(xs, r) - 4 ELSE pc
<1>1. RegisterFile(xs)
  BY LinkedTyped, TypedFile
<1>2. x' = xs /\ Next4(at) /\ mem' = mem /\ flags' = flags
  BY DEF RegJump
<1>. HIDE DEF xs, r
<1>3. at \in Int
  BY <1>1, ReadOfFile, ModulusFacts, FieldsAreNumbers
<1>. HIDE DEF at
<1>. QED  BY <1>1, <1>2, <1>3, TypedStep, DataTyped

LEMMA AdrpTyped == ASSUME TypeOK, Adrp PROVE TypeOK'
<1>1. Field(Word, 0, 20) \in Nat /\ PageBytes \in Nat
  BY FieldsAreNumbers, CpuAssumption
<1>2. Field(Word, 0, 20) * PageBytes \in Int
  BY <1>1
<1>3. Wrap(Field(Word, 0, 20) * PageBytes) \in Words
  BY <1>2, WrapFacts
<1>4. Set(X1(Word), Wrap(Field(Word, 0, 20) * PageBytes)) /\ Next4(pc) /\ mem' = mem /\ flags' = flags
  BY DEF Adrp
<1>. QED  BY <1>3, <1>4, SetTyped, TypedStep, DataTyped, FieldsAreNumbers

LEMMA SwiTyped == ASSUME TypeOK, Swi PROVE TypeOK'
<1>. DEFINE reply == SysCall(ReadReg(NR), ReadReg(0), ReadReg(1), ReadReg(2), ReadReg(3), ReadReg(4))
<1>1. reply \in {"done", "refused", "faulted"}
  <2>1. ASSUME NEW id, NEW a0, NEW a1, NEW a2, NEW a3, NEW a4
        PROVE  SysCall(id, a0, a1, a2, a3, a4) \in {"done", "refused", "faulted"}
    <3>1. CASE id = SysCalls.print  BY <3>1, CpuAssumption DEF SysCall
    <3>2. CASE id = SysCalls.assertr  BY <3>2, CpuAssumption DEF SysCall
    <3>3. CASE id = SysCalls.assertm  BY <3>3, CpuAssumption DEF SysCall
    <3>4. CASE id = SysCalls.assertp  BY <3>4, CpuAssumption DEF SysCall
    <3>5. CASE id \notin {SysCalls.print, SysCalls.assertr, SysCalls.assertm, SysCalls.assertp}
      BY <3>5 DEF SysCall
    <3>. QED  BY <3>1, <3>2, <3>3, <3>4, <3>5
  <2>. QED  BY <2>1
<1>2. ((Throw(reply) /\ reply # "done") \/ Next4(pc)) /\ UNCHANGED Data
  BY DEF Swi
<1>. HIDE DEF reply
<1>. QED  BY <1>1, <1>2, TypedStep, DataTyped, FieldsAreNumbers DEF Data, Ends

LEMMA QuietTyped == ASSUME TypeOK, Hlt \/ Nop \/ BadMode \/ Wild PROVE TypeOK'
<1>1. UNCHANGED Data /\ (Throw("halted") \/ Throw("refused") \/ Throw("wild") \/ Next4(pc))
  BY DEF Hlt, Nop, BadMode, Wild
<1>2. {"halted", "refused", "wild"} \subseteq Ends
  BY DEF Ends
<1>. QED  BY <1>1, <1>2, TypedStep, DataTyped, FieldsAreNumbers DEF Data

LEMMA TurnTyped == TypeOK /\ Turn => TypeOK'
<1>. SUFFICES ASSUME TypeOK, Turn PROVE TypeOK'
  OBVIOUS
<1>1. ASSUME NEW op, AddSub(op) PROVE TypeOK'      BY <1>1, AddSubTyped
<1>2. ASSUME NEW op, LongMul(op) PROVE TypeOK'     BY <1>2, LongMulTyped
<1>3. ASSUME NEW op, Jump(op) PROVE TypeOK'        BY <1>3, JumpTyped
<1>4. ASSUME NEW op, RegJump(op) PROVE TypeOK'     BY <1>4, RegJumpTyped
<1>. QED  BY <1>1, <1>2, <1>3, <1>4, QuietTyped, MulTyped, AdrpTyped, SwiTyped, LogicTyped, ShiftTyped,
             CompareTyped, MoveTyped, LoadTyped, StoreTyped, SwapTyped DEF Turn

LEMMA InitTyped == Init => TypeOK
<1>. SUFFICES ASSUME Init PROVE TypeOK
  OBVIOUS
<1>1. PICK start \in Starts :
        /\ mem = start.mem /\ flags = start.flags
        /\ x = [r \in Regs |-> [ResetRegs[r] EXCEPT !.val = start.regs[r]]]
  BY DEF Init
<1>2. RegisterFile(x)
  BY <1>1, RegistersAtRest
<1>3. mem \in [0 .. RamBytes - 1 -> Bytes] /\ flags \in FlagSet
  BY <1>1, StartsAssumption, SMTT(30)
<1>4. pc \in Words /\ status \in Ends /\ left \in 0 .. MaxRun
  <2>1. 0 \in Words /\ 0 \in 0 .. MaxRun
    BY ModulusFacts, CpuAssumption
  <2>2. pc = 0 /\ status \in Ends /\ left = 0
    BY Zenon DEF Init, Ends
  <2>. QED  BY <2>1, <2>2
<1>. QED  BY <1>2, <1>3, <1>4, TypedFile

LEMMA RunTyped == ASSUME TypeOK, NEW n \in 0 .. MaxRun, Run(n) PROVE TypeOK'
<1>1. MaxRun \in Nat
  BY CpuAssumption
<1>. QED  BY <1>1 DEF Run, TypeOK, Forever

LEMMA ResetTyped == TypeOK /\ Reset => TypeOK'
<1>. SUFFICES ASSUME TypeOK, Reset PROVE TypeOK'
  OBVIOUS
<1>1. mem' \in [0 .. RamBytes - 1 -> Bytes]
  <2>. DEFINE cleared(a) == a < RamBytes - PageBytes
  <2>1. mem' = [a \in DOMAIN mem |-> IF cleared(a) THEN 0 ELSE mem[a]]
    BY DEF Reset
  <2>. HIDE DEF cleared
  <2>. QED  BY <2>1, ByteFacts DEF TypeOK
<1>2. RegisterFile(x') /\ flags' \in FlagSet
  BY RegistersAtRest, FlagsAreFlags DEF Reset
<1>3. pc' \in Words /\ status' \in Ends /\ left' = left
  BY ModulusFacts DEF Reset, Ends
<1>. QED  BY <1>1, <1>2, <1>3 DEF TypeOK, RegisterFile

(* Whatever the program and however wide a word: registers hold words and keep their masks,
   so that the zero register reads as 0; memory holds bytes; the program counter wraps. *)
THEOREM CpuTypeCorrect == Spec => []TypeOK
<1>1. Init => TypeOK
  BY InitTyped
<1>2. TypeOK /\ [Next]_vars => TypeOK'
  <2>1. TypeOK /\ UNCHANGED vars => TypeOK'
    BY DEF vars, TypeOK
  <2>. QED  BY <2>1, TurnTyped, ResetTyped, RunTyped DEF Next
<1>. QED  BY <1>1, <1>2, PTL DEF Spec

-----------------------------------------------------------------------------
(* Comparing. *)

LEMMA OpcodesDiffer ==
    /\ \A o, q \in DOMAIN Opcode : Opcode[o] = Opcode[q] => o = q
    /\ \A o \in DOMAIN Opcode : Opcode[o] \in 0 .. 63
    /\ \A o \in DOMAIN Opcode \ {"hlt"} : Opcode[o] \notin {0} \cup 51 .. 62
    /\ \A o \in DOMAIN Opcode \ {"nop", "vabs", "vmov"} : Opcode[o] \notin {63} \cup 10 .. 21
BY DEF Opcode

\* Only one action answers to an opcode.
LEMMA CompareAlone ==
    ASSUME TypeOK, Turn, Fetched("cmp")
    PROVE  Compare("cmp")
<1>1. Running /\ pc < RamBytes /\ OpOf(Word) = 30
  BY DEF Fetched, Opcode
<1>2. \A op : Fetched(op) => Opcode[op] = 30
  BY <1>1 DEF Fetched
<1>3. ~Hlt /\ ~Nop /\ ~Wild
  BY <1>1, FieldsAreNumbers, CpuAssumption, ModulusFacts DEF Hlt, Nop, Wild
<1>4. ~Mul /\ ~Adrp /\ ~Swi /\ ~BadMode
  BY <1>1, <1>2 DEF Mul, Adrp, Swi, BadMode, Opcode, Loads, Stores
<1>5. /\ \A op \in Adders \cup Subbers : ~AddSub(op)
      /\ \A op \in LongMuls : ~LongMul(op)
      /\ \A op \in Logicals : ~Logic(op)
      /\ \A op \in Shifts : ~Shift(op)
      /\ \A op \in Moves : ~Move(op)
  <2>1. \A op \in Adders \cup Subbers \cup LongMuls \cup Logicals \cup Shifts \cup Moves : ~Fetched(op)
    BY <1>2 DEF Opcode, Adders, Subbers, LongMuls, Logicals, Shifts, Moves
  <2>. QED  BY <2>1 DEF AddSub, LongMul, Logic, Shift, Move
<1>6. /\ \A op \in Loads : ~Load(op)
      /\ \A op \in Stores : ~Store(op)
      /\ \A op \in Swaps : ~Swap(op)
      /\ \A op \in Jumps : ~Jump(op)
      /\ \A op \in RegJumps : ~RegJump(op)
  <2>1. \A op \in Loads \cup Stores \cup Swaps \cup Jumps \cup RegJumps : ~Fetched(op)
    BY <1>2 DEF Opcode, Loads, Stores, Swaps, Jumps, RegJumps
  <2>. QED  BY <2>1 DEF Load, Store, Swap, Jump, RegJump
<1>7. \A op \in Compares : Compare(op) => op = "cmp"
  <2>1. \A op \in Compares : Fetched(op) => op = "cmp"
    BY <1>2 DEF Opcode, Compares
  <2>. QED  BY <2>1 DEF Compare
<1>. QED  BY <1>3, <1>4, <1>5, <1>6, <1>7 DEF Turn

\* What the flag formulas on bits say of the numbers.
LEMMA DifferenceDecides ==
    ASSUME NEW n \in Words, NEW m \in Words
    PROVE  LET f == SubFlags(n, m, 0)
               a == Signed(n)
               b == Signed(m)
           IN  /\ f.Z <=> a = b
               /\ f.N = f.V <=> a >= b
               /\ f.C <=> n < m
               /\ Wrap(a) = n /\ Wrap(b) = m
<1>. DEFINE h == Pow2[WordBits - 1]
            d == Wrap(n - m)
<1>1. h \in Nat \ {0} /\ Modulus = 2 * h /\ Modulus \div 2 = h
  BY ModulusFacts
<1>2. n \in 0 .. 2 * h - 1 /\ m \in 0 .. 2 * h - 1 /\ n - m \in Int
  BY <1>1, ModulusFacts
<1>3. \A v : Top(v) <=> v >= h
  BY <1>1 DEF Top
<1>4. Signed(n) = (IF n >= h THEN n - 2 * h ELSE n) /\ Signed(m) = (IF m >= h THEN m - 2 * h ELSE m)
  BY <1>1, <1>3 DEF Signed
<1>5. d = IF n - m < 0 THEN n - m + 2 * h ELSE n - m
  <2>1. CASE n - m < 0
    <3>1. -Modulus <= n - m
      BY <1>1, <1>2
    <3>. QED  BY <1>1, <1>2, <2>1, <3>1, WrapFacts
  <2>2. CASE n - m >= 0
    <3>1. n - m \in Words
      BY <1>2, <1>1, <2>2, ModulusFacts
    <3>. QED  BY <2>2, <3>1, <1>2, WrapFacts
  <2>. QED  BY <1>2, <2>1, <2>2
<1>6. Wrap(n - m - 0) = d /\ Wrap(n - 0) = n
  <2>1. n - m - 0 = n - m /\ n - 0 = n
    BY <1>2
  <2>. QED  BY <2>1, WrapFacts
<1>7. Wrap(Signed(n)) = n /\ Wrap(Signed(m)) = m
  <2>1. \A v \in Words : Wrap(Signed(v)) = v
    <3>. SUFFICES ASSUME NEW v \in Words PROVE Wrap(Signed(v)) = v
      OBVIOUS
    <3>1. v \in 0 .. Modulus - 1 /\ Modulus \in Nat
      BY ModulusFacts
    <3>2. CASE Top(v)
      <4>1. Signed(v) = v - Modulus /\ v - Modulus \in Int /\ v - Modulus < 0 /\ -Modulus <= v - Modulus
        BY <3>1, <3>2 DEF Signed
      <4>2. Wrap(v - Modulus) = (v - Modulus) + Modulus
        BY <4>1, WrapFacts
      <4>. QED  BY <3>1, <4>1, <4>2
    <3>3. CASE ~Top(v)
      BY <3>3, WrapFacts DEF Signed
    <3>. QED  BY <3>2, <3>3
  <2>. QED  BY <2>1
<1>. HIDE DEF d, h
<1>8. /\ SubFlags(n, m, 0).Z <=> d = 0
      /\ SubFlags(n, m, 0).N <=> Top(d)
      /\ SubFlags(n, m, 0).C <=> CFlagSub(n, m) \/ CFlagSub(n, 0)
      /\ SubFlags(n, m, 0).V <=> VFlagSub(n, m) \/ VFlagSub(n, 0)
  BY <1>6, Zenon DEF SubFlags
<1>9. Wrap(n - 0) = n /\ ~(0 >= h)
  BY <1>1, <1>6
<1>10. SubFlags(n, m, 0).C <=> n < m
  <2>1. CFlagSub(n, m) <=> \/ ~(n >= h) /\ m >= h
                           \/ d >= h /\ (~(n >= h) \/ m >= h)
    BY <1>3, Zenon DEF CFlagSub, d
  <2>2. ~CFlagSub(n, 0)
    BY <1>3, <1>9, Zenon DEF CFlagSub
  <2>. QED  BY <1>1, <1>2, <1>5, <1>8, <2>1, <2>2
<1>11. SubFlags(n, m, 0).V <=> (n >= h) # (m >= h) /\ (n >= h) # (d >= h)
  <2>1. VFlagSub(n, m) <=> Top(n) # Top(m) /\ Top(n) # Top(d)
    BY DEF VFlagSub, d
  <2>2. ~VFlagSub(n, 0)
    BY <1>9 DEF VFlagSub
  <2>3. Top(n) = (n >= h) /\ Top(m) = (m >= h) /\ Top(d) = (d >= h)
    BY <1>1 DEF Top
  <2>. QED  BY <1>8, <2>1, <2>2, <2>3
<1>12. d \in Int
  BY <1>1, <1>2, <1>5
<1>13. SubFlags(n, m, 0).N \in BOOLEAN /\ SubFlags(n, m, 0).V \in BOOLEAN
  BY FlagsAreFlags DEF FlagSet
<1>14. SubFlags(n, m, 0).N = SubFlags(n, m, 0).V <=> Signed(n) >= Signed(m)
  <2>1. SubFlags(n, m, 0).N <=> d >= h
    BY <1>3, <1>8
  <2>2. (SubFlags(n, m, 0).N <=> SubFlags(n, m, 0).V) <=> Signed(n) >= Signed(m)
    BY <1>1, <1>2, <1>4, <1>5, <1>11, <1>12, <2>1
  <2>. QED  BY <1>13, <2>2
<1>15. SubFlags(n, m, 0).Z <=> Signed(n) = Signed(m)
  BY <1>1, <1>2, <1>4, <1>5, <1>8
<1>. QED  BY <1>7, <1>10, <1>14, <1>15

LEMMA TurnDecides ==
    ASSUME TypeOK, Turn, Fetched("cmp")
    PROVE  \E arg \in GetArg(Word) : Decided(ReadReg(X2(Word)), arg)
<1>1. PICK arg \in GetArg(Word) : flags' = SubFlags(ReadReg(X2(Word)), arg, 0)
  BY CompareAlone DEF Compare
<1>. DEFINE n == ReadReg(X2(Word))
            a == Signed(n)
            b == Signed(arg)
<1>2. n \in Words /\ arg \in Words
  BY ReadsAreWords, ArgsAreWords
<1>3. /\ flags'.Z <=> a = b
      /\ flags'.N = flags'.V <=> a >= b
      /\ flags'.C <=> n < arg
      /\ Wrap(a) = n /\ Wrap(b) = arg
  <2>. HIDE DEF n
  <2>. QED  BY <1>1, <1>2, DifferenceDecides DEF n
<1>4. a \in Int /\ b \in Int /\ n \in Int /\ arg \in Int
  BY <1>2, DivPowFacts, ModulusFacts
<1>5. /\ CheckCond("eq")' <=> flags'.Z
      /\ CheckCond("ne")' <=> ~flags'.Z
      /\ CheckCond("ge")' <=> flags'.N = flags'.V
      /\ CheckCond("lt")' <=> flags'.N # flags'.V
      /\ CheckCond("gt")' <=> ~flags'.Z /\ flags'.N = flags'.V
      /\ CheckCond("le")' <=> flags'.Z \/ flags'.N # flags'.V
      /\ CheckCond("cs")' <=> flags'.C
      /\ CheckCond("cc")' <=> ~flags'.C
      /\ CheckCond("hi")' <=> flags'.C /\ ~flags'.Z
      /\ CheckCond("ls")' <=> ~flags'.C \/ flags'.Z
  BY DEF CheckCond
<1>. HIDE DEF a, b, n
\* Of two equal operands neither is lower, so that Z adds nothing to the borrow.
<1>6. n < arg => a # b
  BY <1>3, <1>4
<1>7. /\ CheckCond("eq")' <=> (a = b)
      /\ CheckCond("ne")' <=> (a # b)
      /\ CheckCond("ge")' <=> (a >= b)
      /\ CheckCond("lt")' <=> (a < b)
      /\ CheckCond("gt")' <=> (a > b)
      /\ CheckCond("le")' <=> (a <= b)
      /\ CheckCond("cs")' <=> (n < arg)
      /\ CheckCond("hi")' <=> (n < arg)
      /\ CheckCond("cc")' <=> (n >= arg)
      /\ CheckCond("ls")' <=> (n >= arg)
  BY <1>3, <1>4, <1>5, <1>6
<1>. QED  BY <1>7 DEF Decided, a, b, n

(* After cmp each ordering condition decides one relation of the two operands, for words of
   every width and every two operands: the borrows of the subtraction, which look at three
   sign bits, decide the order of the numbers.  The signed conditions, eq and ne are the
   relations they are named for; hi, ls, cs and cc are the opposite of what
   emulator32bit.h:105 names them for. *)
THEOREM ComparisonsDecide == Spec => CompareDecides
<1>1. TypeOK /\ [Next]_vars =>
        [Fetched("cmp") => \E arg \in GetArg(Word) : Decided(ReadReg(X2(Word)), arg)]_vars
  <2>1. Fetched("cmp") => ~Reset /\ \A n : ~Run(n)
    BY DEF Fetched, Reset, Run
  <2>. QED  BY <2>1, TurnDecides DEF Next
<1>. QED  BY <1>1, CpuTypeCorrect, PTL DEF Spec, CompareDecides

-----------------------------------------------------------------------------
(* The encoding of instructions. *)

Parts == Seq(Nat \X Int)

\* The word that joins the parts numbered in s, for every s.
JoinTable(g, parts) ==
    g = [s \in SUBSET DOMAIN parts |->
           IF s = {} THEN {}
           ELSE {b + parts[Max(s)][1] : b \in g[s \ {Max(s)}]}
                  \cup BitsOf(parts[Max(s)][2], parts[Max(s)][1])]

LEMMA JoinTableExists ==
    ASSUME NEW parts \in Parts
    PROVE  \E g : JoinTable(g, parts)
<1>. DEFINE n == Len(parts)
            S == DOMAIN parts
            after(i, w) == {b + parts[i][1] : b \in w} \cup BitsOf(parts[i][2], parts[i][1])
            step == [iw \in S \X SUBSET Nat |-> after(iw[1], iw[2])]
            pick == [s \in SUBSET S |-> Max(s)]
            R == [s \in SUBSET S |-> SUBSET Nat]
<1>1. n \in Nat /\ S = 1 .. n /\ \A i \in S : parts[i][1] \in Nat /\ parts[i][2] \in Int
  BY DEF Parts
<1>2. IsFiniteSet(S)
  BY <1>1, FS_Interval
<1>3. \A s \in SUBSET S : s # {} => pick[s] = Max(s) /\ Max(s) \in s
  <2>. SUFFICES ASSUME NEW s \in SUBSET S, s # {} PROVE pick[s] = Max(s) /\ Max(s) \in s
    OBVIOUS
  <2>1. s \in SUBSET (0 .. n)
    BY <1>1
  <2>. HIDE DEF n, S
  <2>2. Max(s) \in s
    BY <1>1, <2>1, MaxNat
  <2>. QED  BY <2>2
<1>4. \A i \in S : \A w \in SUBSET Nat : after(i, w) \in SUBSET Nat
  <2>. SUFFICES ASSUME NEW i \in S, NEW w \in SUBSET Nat PROVE after(i, w) \in SUBSET Nat
    OBVIOUS
  <2>1. parts[i][1] \in Nat
    BY <1>1
  <2>2. BitsOf(parts[i][2], parts[i][1]) \subseteq Nat
    BY <2>1 DEF BitsOf
  <2>. QED  BY <2>1, <2>2
<1>5. \A i \in S : \A w \in SUBSET Nat : step[<<i, w>>] = after(i, w)
  <2>. HIDE DEF after, S
  <2>. QED  OBVIOUS
<1>6. FoldWithin(S, R, {}, pick, step)
  <2>1. {} \in R[{}]
    BY Zenon
  <2>2. ASSUME NEW s \in SUBSET S, s # {}, NEW w \in R[s \ {pick[s]}]
        PROVE  pick[s] \in s /\ step[<<pick[s], w>>] \in R[s]
    <3>1. pick[s] \in s /\ pick[s] \in S /\ w \in SUBSET Nat
      BY <1>3, <2>2
    <3>. HIDE DEF pick, step, after
    <3>. QED  BY <1>4, <1>5, <3>1
  <2>3. ASSUME NEW s \in SUBSET S, s # {} PROVE pick[s] \in s
    BY <1>3, <2>3
  <2>. HIDE DEF pick, step, R, S
  <2>. QED  BY <2>1, <2>2, <2>3 DEF FoldWithin
<1>. HIDE DEF pick, step, R, after, S
<1>7. PICK g : FoldOf(g, S, {}, pick, step) /\ \A s \in SUBSET S : g[s] \in R[s]
  BY <1>2, <1>6, FoldExists
<1>8. ASSUME NEW s \in SUBSET S, s # {}
      PROVE  step[<<pick[s], g[s \ {pick[s]}]>>] = after(Max(s), g[s \ {Max(s)}])
  <2>1. pick[s] = Max(s) /\ Max(s) \in S
    BY <1>3, <1>8
  <2>2. s \ {Max(s)} \in SUBSET S
    OBVIOUS
  <2>3. g[s \ {Max(s)}] \in SUBSET Nat
    BY <1>7, <2>2 DEF R
  <2>. QED  BY <1>5, <2>1, <2>3
<1>9. g = [s \in SUBSET S |-> IF s = {} THEN {} ELSE after(Max(s), g[s \ {Max(s)}])]
  BY <1>7, <1>8 DEF FoldOf
<1>10. JoinTable(g, parts)
  BY <1>9 DEF JoinTable, after, S
<1>. QED  BY <1>10

LEMMA JoinIsTable ==
    ASSUME NEW parts \in Parts
    PROVE  \E g : JoinTable(g, parts) /\ Join(parts) = g[DOMAIN parts]
<1>. DEFINE g == CHOOSE h : JoinTable(h, parts)
<1>1. Join(parts) = g[DOMAIN parts]
  BY DEF Join, FoldLeft, MapThenFoldSet, JoinTable
<1>2. JoinTable(g, parts)
  BY JoinTableExists
<1>. QED  BY <1>1, <1>2

\* E[k] is where part k ends, counted from the most significant bit.
EndsOf(E, parts) ==
    /\ E \in [1 .. Len(parts) -> Nat]
    /\ \A k \in 1 .. Len(parts) : E[k] = parts[k][1] + IF k = 1 THEN 0 ELSE E[k - 1]

LEMMA JoinStep ==
    ASSUME NEW parts \in Parts, NEW g, JoinTable(g, parts), NEW m \in 0 .. Len(parts) - 1
    PROVE  g[1 .. m + 1] = {b + parts[m + 1][1] : b \in g[1 .. m]}
                             \cup BitsOf(parts[m + 1][2], parts[m + 1][1])
<1>1. Max(1 .. m + 1) = m + 1
  <2>. DEFINE S == 1 .. m + 1
  <2>1. m + 1 \in Nat /\ S \in SUBSET (0 .. m + 1) /\ S # {} /\ m + 1 \in S /\ \A y \in S : y <= m + 1
    OBVIOUS
  <2>2. \A y \in S : y \in Int
    OBVIOUS
  <2>. HIDE DEF S
  <2>3. Max(S) \in S /\ m + 1 <= Max(S)
    BY <2>1, MaxNat
  <2>4. Max(S) <= m + 1 /\ Max(S) \in Int
    BY <2>1, <2>2, <2>3
  <2>5. Max(S) = m + 1
    BY <2>1, <2>3, <2>4
  <2>. QED  BY <2>5 DEF S
<1>2. (1 .. m + 1) \ {m + 1} = 1 .. m
  OBVIOUS
<1>3. 1 .. m + 1 \subseteq DOMAIN parts /\ 1 .. m + 1 # {}
  <2>1. DOMAIN parts = 1 .. Len(parts) /\ Len(parts) \in Nat
    BY DEF Parts
  <2>2. m + 1 \in 1 .. m + 1 /\ m + 1 <= Len(parts)
    BY <2>1
  <2>3. \A y \in 1 .. m + 1 : y \in 1 .. Len(parts)
    BY <2>1, <2>2
  <2>4. 1 .. m + 1 # {}
    BY <2>2
  <2>. QED  BY <2>1, <2>3, <2>4, Zenon
<1>. DEFINE S == 1 .. m + 1
            D == 1 .. m
<1>. HIDE DEF S, D
<1>4. S \in SUBSET DOMAIN parts /\ S # {} /\ Max(S) = m + 1 /\ S \ {m + 1} = D
  BY <1>1, <1>2, <1>3 DEF S, D
<1>5. g[S] = {b + parts[Max(S)][1] : b \in g[S \ {Max(S)}]}
               \cup BitsOf(parts[Max(S)][2], parts[Max(S)][1])
  BY <1>4 DEF JoinTable
<1>6. g[S] = {b + parts[m + 1][1] : b \in g[D]} \cup BitsOf(parts[m + 1][2], parts[m + 1][1])
  BY <1>4, <1>5
<1>. QED  BY <1>6 DEF S, D

\* L is K moved up by w places, with B below.
Above(L, K, B, w) == \A p : p \in L <=> (\E b \in K : p = b + w) \/ p \in B

LEMMA MovedBits ==
    ASSUME NEW w \in Nat, NEW a \in Nat, NEW K \in SUBSET (0 .. a - 1), NEW B \in SUBSET (0 .. w - 1),
           NEW L, Above(L, K, B, w)
    PROVE  /\ \A p \in L : p \in 0 .. a + w - 1
           /\ \A q \in Nat : q + w \in L <=> q \in K
           /\ \A j \in 0 .. w - 1 : j \in L <=> j \in B
<1>. \A p : p \in L <=> (\E b \in K : p = b + w) \/ p \in B
  BY DEF Above
<1>1. ASSUME NEW p \in L PROVE p \in 0 .. a + w - 1
  <2>1. CASE p \in B
    BY <2>1
  <2>2. ASSUME NEW b \in K, p = b + w PROVE p \in 0 .. a + w - 1
    <3>1. b \in 0 .. a - 1
      OBVIOUS
    <3>. QED  BY <2>2, <3>1
  <2>. QED  BY <2>1, <2>2
<1>2. ASSUME NEW q \in Nat PROVE q + w \in L <=> q \in K
  <2>1. q + w \notin B
    OBVIOUS
  <2>2. \A b \in K : q + w = b + w => q = b
    OBVIOUS
  <2>. QED  BY <2>1, <2>2
<1>3. ASSUME NEW j \in 0 .. w - 1 PROVE j \in L <=> j \in B
  <2>1. \A b \in K : j # b + w
    OBVIOUS
  <2>. QED  BY <2>1
<1>. QED  BY <1>1, <1>2, <1>3

\* Word w holds the first m parts, of which part k ends at A[k].
Laid(w, A, parts, m) ==
    /\ \A p \in w : p \in 0 .. A[m] - 1
    /\ \A k \in 1 .. m : A[k] <= A[m]
    /\ \A k \in 1 .. m : \A j \in 0 .. parts[k][1] - 1 :
          A[m] - A[k] + j \in w <=> j \in BitsOf(parts[k][2], parts[k][1])

LEMMA LaidStep ==
    ASSUME NEW parts, NEW m \in Nat, NEW A,
           \A k \in 0 .. m + 1 : A[k] \in Nat,
           \A k \in 1 .. m + 1 : parts[k][1] \in Nat,
           A[m + 1] = A[m] + parts[m + 1][1],
           NEW K, Laid(K, A, parts, m),
           NEW L, Above(L, K, BitsOf(parts[m + 1][2], parts[m + 1][1]), parts[m + 1][1])
    PROVE  Laid(L, A, parts, m + 1)
<1>. DEFINE w == parts[m + 1][1]
            B == BitsOf(parts[m + 1][2], w)
            a == A[m]
<1>1. w \in Nat /\ a \in Nat /\ A[m + 1] = a + w
  OBVIOUS
<1>2. K \in SUBSET (0 .. a - 1) /\ B \in SUBSET (0 .. w - 1) /\ Above(L, K, B, w)
  BY DEF Laid, BitsOf
<1>. HIDE DEF w, B, a
<1>3. /\ \A p \in L : p \in 0 .. a + w - 1
      /\ \A q \in Nat : q + w \in L <=> q \in K
      /\ \A j \in 0 .. w - 1 : j \in L <=> j \in B
  BY <1>1, <1>2, MovedBits
<1>4. \A p \in L : p \in 0 .. A[m + 1] - 1
  BY <1>1, <1>3
<1>5. \A k \in 1 .. m + 1 : A[k] <= A[m + 1]
  <2>. SUFFICES ASSUME NEW k \in 1 .. m + 1 PROVE A[k] <= A[m + 1]
    OBVIOUS
  <2>1. CASE k = m + 1
    BY <1>1, <2>1
  <2>2. CASE k \in 1 .. m
    <3>1. A[k] <= a /\ A[k] \in Nat
      BY <2>2 DEF Laid, a
    <3>. QED  BY <1>1, <3>1
  <2>. QED  BY <2>1, <2>2
<1>6. ASSUME NEW k \in 1 .. m + 1, NEW j \in 0 .. parts[k][1] - 1
      PROVE  A[m + 1] - A[k] + j \in L <=> j \in BitsOf(parts[k][2], parts[k][1])
  <2>1. CASE k = m + 1
    <3>1. A[m + 1] - A[k] + j = j /\ j \in 0 .. w - 1
      BY <1>1, <1>6, <2>1 DEF w
    <3>. QED  BY <1>3, <2>1, <3>1 DEF w, B
  <2>2. CASE k \in 1 .. m
    <3>. DEFINE q == a - A[k] + j
    <3>1. A[k] \in Nat /\ A[k] <= a /\ j \in Nat
      BY <1>6, <2>2 DEF Laid, a
    <3>2. q \in Nat /\ A[m + 1] - A[k] + j = q + w
      BY <1>1, <3>1
    <3>3. q \in K <=> j \in BitsOf(parts[k][2], parts[k][1])
      BY <2>2 DEF Laid, a
    <3>. HIDE DEF q
    <3>4. q + w \in L <=> q \in K
      BY <1>3, <3>2
    <3>. QED  BY <3>2, <3>3, <3>4
  <2>. QED  BY <2>1, <2>2
<1>. QED  BY <1>4, <1>5, <1>6 DEF Laid

LEMMA JoinLayout ==
    ASSUME NEW parts \in Parts, NEW n \in Nat \ {0}, n = Len(parts), NEW E, EndsOf(E, parts)
    PROVE  Laid(Join(parts), E, parts, n)
<1>1. PICK g : JoinTable(g, parts) /\ Join(parts) = g[DOMAIN parts]
  BY JoinIsTable
<1>. DEFINE A == [k \in 0 .. n |-> IF k = 0 THEN 0 ELSE E[k]]
            T == {m \in 0 .. n : Laid(g[1 .. m], A, parts, m)}
<1>2. /\ DOMAIN parts = 1 .. n
      /\ \A k \in 1 .. n : parts[k][1] \in Nat
      /\ A \in [0 .. n -> Nat] /\ A[0] = 0 /\ \A k \in 1 .. n : A[k] = E[k]
  BY DEF Parts, EndsOf
<1>3. \A k \in 0 .. n - 1 : A[k + 1] = A[k] + parts[k + 1][1]
  <2>. SUFFICES ASSUME NEW k \in 0 .. n - 1 PROVE A[k + 1] = A[k] + parts[k + 1][1]
    OBVIOUS
  <2>1. A[k + 1] = E[k + 1] /\ k + 1 \in 1 .. n
    BY <1>2
  <2>2. E[k + 1] = parts[k + 1][1] + IF k + 1 = 1 THEN 0 ELSE E[(k + 1) - 1]
    BY <2>1 DEF EndsOf
  <2>3. A[k] = IF k + 1 = 1 THEN 0 ELSE E[(k + 1) - 1]
    <3>1. CASE k = 0  BY <1>2, <3>1
    <3>2. CASE k # 0
      <4>1. (k + 1) - 1 = k /\ k \in 1 .. n
        BY <3>2
      <4>. QED  BY <1>2, <3>2, <4>1
    <3>. QED  BY <3>1, <3>2
  <2>. QED  BY <1>2, <2>1, <2>2, <2>3
<1>. HIDE DEF A
<1>4. 0 \in T
  <2>1. 1 .. 0 = {} /\ g[1 .. 0] = {}
    <3>1. 1 .. 0 = {}
      OBVIOUS
    <3>2. {} \in SUBSET DOMAIN parts
      OBVIOUS
    <3>. QED  BY <1>1, <3>1, <3>2 DEF JoinTable
  <2>2. Laid({}, A, parts, 0)
    BY DEF Laid
  <2>3. Laid(g[1 .. 0], A, parts, 0)
    BY <2>1, <2>2, Zenon
  <2>. QED  BY <2>3
<1>5. ASSUME NEW m \in 0 .. n - 1, m \in T PROVE m + 1 \in T
  <2>. DEFINE K == g[1 .. m]
              L == g[1 .. m + 1]
              B == BitsOf(parts[m + 1][2], parts[m + 1][1])
  <2>1. L = {b + parts[m + 1][1] : b \in K} \cup B
    BY <1>1, JoinStep
  <2>2. Above(L, K, B, parts[m + 1][1])
    <3>. HIDE DEF K, L, B
    <3>. QED  BY <2>1 DEF Above
  <2>3. Laid(K, A, parts, m) /\ m \in Nat
    BY <1>5
  <2>4. \A k \in 0 .. m + 1 : A[k] \in Nat
    BY <1>2
  <2>5. \A k \in 1 .. m + 1 : parts[k][1] \in Nat
    BY <1>2
  <2>6. A[m + 1] = A[m] + parts[m + 1][1]
    BY <1>3
  <2>. HIDE DEF K, L
  <2>7. Laid(L, A, parts, m + 1)
    BY <2>2, <2>3, <2>4, <2>5, <2>6, LaidStep
  <2>. QED  BY <2>7 DEF L
<1>6. n \in T
  <2>1. n \in 0 .. n
    OBVIOUS
  <2>2. \A k \in 0 .. n - 1 : k \in T => k + 1 \in T
    BY <1>5
  <2>. HIDE DEF T
  <2>. QED  BY <1>4, <2>1, <2>2, NatInduct
<1>7. Laid(Join(parts), A, parts, n)
  BY <1>1, <1>2, <1>6
<1>8. A[n] = E[n] /\ \A k \in 1 .. n : A[k] = E[k]
  BY <1>2
<1>. QED  BY <1>7, <1>8 DEF Laid

\* A field that is read where a part was put holds the number of the part, cut to the field.
LEMMA PartFields ==
    ASSUME NEW parts \in Parts, NEW n \in Nat \ {0}, n = Len(parts), NEW E, EndsOf(E, parts),
           NEW k \in 1 .. n, parts[k][2] \in Nat, NEW len \in Nat, len <= parts[k][1]
    PROVE  Field(Join(parts), E[n] - E[k], len) = parts[k][2] % Pow2[len]
<1>. DEFINE w == Join(parts)
            lo == E[n] - E[k]
            v == parts[k][2]
            b == parts[k][1]
<1>1. b \in Nat
  BY DEF Parts
<1>2. \A j \in 0 .. len - 1 : lo + j \in w <=> j \in BitsOf(v, b)
  <2>1. \A j \in 0 .. len - 1 : j \in 0 .. b - 1
    BY <1>1
  <2>2. Laid(w, E, parts, n)
    BY JoinLayout
  <2>. QED  BY <2>1, <2>2 DEF Laid
<1>. HIDE DEF lo, w
<1>3. {j \in 0 .. len - 1 : lo + j \in w} = BitsOf(v, len)
  <2>1. \A j \in 0 .. len - 1 : j \in BitsOf(v, b) <=> (v \div Pow2[j]) % 2 = 1
    <3>1. \A j \in 0 .. len - 1 : j \in 0 .. b - 1
      BY <1>1
    <3>. HIDE DEF b, v
    <3>. QED  BY <3>1 DEF BitsOf
  <2>. HIDE DEF b, v
  <2>. QED  BY <1>2, <2>1 DEF BitsOf
<1>4. Field(w, lo, len) = v % Pow2[len]
  BY <1>3, BitsValue DEF Field
<1>. QED  BY <1>4 DEF w, lo

(* Tuples joined: what \o makes of them. *)

Catenate(a, b, c) == a \o b = c

LEMMA Tuples3And1 ==
    ASSUME NEW a1, NEW a2, NEW a3, NEW a4
    PROVE  Catenate(<<a1, a2, a3>>, <<a4>>, <<a1, a2, a3, a4>>)
<1>. DEFINE S == {a1, a2, a3, a4}
<1>1. <<a1, a2, a3>> \in Seq(S) /\ <<a4>> \in Seq(S) /\ <<a1, a2, a3, a4>> \in Seq(S)
  OBVIOUS
<1>2. <<a1, a2, a3>> \o <<a4>> \in Seq(S) /\ Len(<<a1, a2, a3>> \o <<a4>>) = 4 /\ Len(<<a1, a2, a3, a4>>) = 4
  OBVIOUS
<1>3. \A k \in 1 .. 4 : (<<a1, a2, a3>> \o <<a4>>)[k] = <<a1, a2, a3, a4>>[k]
  OBVIOUS
<1>. HIDE DEF S
<1>. QED  BY <1>1, <1>2, <1>3, SeqEqual DEF Catenate

LEMMA Tuples4And2 ==
    ASSUME NEW a1, NEW a2, NEW a3, NEW a4, NEW a5, NEW a6
    PROVE  Catenate(<<a1, a2, a3, a4>>, <<a5, a6>>, <<a1, a2, a3, a4, a5, a6>>)
<1>. DEFINE S == {a1, a2, a3, a4, a5, a6}
<1>1. <<a1, a2, a3, a4>> \in Seq(S) /\ <<a5, a6>> \in Seq(S) /\ <<a1, a2, a3, a4, a5, a6>> \in Seq(S)
  OBVIOUS
<1>2. <<a1, a2, a3, a4>> \o <<a5, a6>> \in Seq(S) /\ Len(<<a1, a2, a3, a4>> \o <<a5, a6>>) = 6 /\ Len(<<a1, a2, a3, a4, a5, a6>>) = 6
  OBVIOUS
<1>3. \A k \in 1 .. 6 : (<<a1, a2, a3, a4>> \o <<a5, a6>>)[k] = <<a1, a2, a3, a4, a5, a6>>[k]
  OBVIOUS
<1>. HIDE DEF S
<1>. QED  BY <1>1, <1>2, <1>3, SeqEqual DEF Catenate

LEMMA Tuples4And5 ==
    ASSUME NEW a1, NEW a2, NEW a3, NEW a4, NEW a5, NEW a6, NEW a7, NEW a8, NEW a9
    PROVE  Catenate(<<a1, a2, a3, a4>>, <<a5, a6, a7, a8, a9>>, <<a1, a2, a3, a4, a5, a6, a7, a8, a9>>)
<1>. DEFINE S == {a1, a2, a3, a4, a5, a6, a7, a8, a9}
<1>1. <<a1, a2, a3, a4>> \in Seq(S) /\ <<a5, a6, a7, a8, a9>> \in Seq(S) /\ <<a1, a2, a3, a4, a5, a6, a7, a8, a9>> \in Seq(S)
  OBVIOUS
<1>2. <<a1, a2, a3, a4>> \o <<a5, a6, a7, a8, a9>> \in Seq(S) /\ Len(<<a1, a2, a3, a4>> \o <<a5, a6, a7, a8, a9>>) = 9 /\ Len(<<a1, a2, a3, a4, a5, a6, a7, a8, a9>>) = 9
  OBVIOUS
<1>3. \A k \in 1 .. 9 : (<<a1, a2, a3, a4>> \o <<a5, a6, a7, a8, a9>>)[k] = <<a1, a2, a3, a4, a5, a6, a7, a8, a9>>[k]
  OBVIOUS
<1>. HIDE DEF S
<1>. QED  BY <1>1, <1>2, <1>3, SeqEqual DEF Catenate

LEMMA Tuples3And6 ==
    ASSUME NEW a1, NEW a2, NEW a3, NEW a4, NEW a5, NEW a6, NEW a7, NEW a8, NEW a9
    PROVE  Catenate(<<a1, a2, a3>>, <<a4, a5, a6, a7, a8, a9>>, <<a1, a2, a3, a4, a5, a6, a7, a8, a9>>)
<1>. DEFINE S == {a1, a2, a3, a4, a5, a6, a7, a8, a9}
<1>1. <<a1, a2, a3>> \in Seq(S) /\ <<a4, a5, a6, a7, a8, a9>> \in Seq(S) /\ <<a1, a2, a3, a4, a5, a6, a7, a8, a9>> \in Seq(S)
  OBVIOUS
<1>2. <<a1, a2, a3>> \o <<a4, a5, a6, a7, a8, a9>> \in Seq(S) /\ Len(<<a1, a2, a3>> \o <<a4, a5, a6, a7, a8, a9>>) = 9 /\ Len(<<a1, a2, a3, a4, a5, a6, a7, a8, a9>>) = 9
  OBVIOUS
<1>3. \A k \in 1 .. 9 : (<<a1, a2, a3>> \o <<a4, a5, a6, a7, a8, a9>>)[k] = <<a1, a2, a3, a4, a5, a6, a7, a8, a9>>[k]
  OBVIOUS
<1>. HIDE DEF S
<1>. QED  BY <1>1, <1>2, <1>3, SeqEqual DEF Catenate

LEMMA Tuples3And5 ==
    ASSUME NEW a1, NEW a2, NEW a3, NEW a4, NEW a5, NEW a6, NEW a7, NEW a8
    PROVE  Catenate(<<a1, a2, a3>>, <<a4, a5, a6, a7, a8>>, <<a1, a2, a3, a4, a5, a6, a7, a8>>)
<1>. DEFINE S == {a1, a2, a3, a4, a5, a6, a7, a8}
<1>1. <<a1, a2, a3>> \in Seq(S) /\ <<a4, a5, a6, a7, a8>> \in Seq(S) /\ <<a1, a2, a3, a4, a5, a6, a7, a8>> \in Seq(S)
  OBVIOUS
<1>2. <<a1, a2, a3>> \o <<a4, a5, a6, a7, a8>> \in Seq(S) /\ Len(<<a1, a2, a3>> \o <<a4, a5, a6, a7, a8>>) = 8 /\ Len(<<a1, a2, a3, a4, a5, a6, a7, a8>>) = 8
  OBVIOUS
<1>3. \A k \in 1 .. 8 : (<<a1, a2, a3>> \o <<a4, a5, a6, a7, a8>>)[k] = <<a1, a2, a3, a4, a5, a6, a7, a8>>[k]
  OBVIOUS
<1>. HIDE DEF S
<1>. QED  BY <1>1, <1>2, <1>3, SeqEqual DEF Catenate

LEMMA Tuples3And2 ==
    ASSUME NEW a1, NEW a2, NEW a3, NEW a4, NEW a5
    PROVE  Catenate(<<a1, a2, a3>>, <<a4, a5>>, <<a1, a2, a3, a4, a5>>)
<1>. DEFINE S == {a1, a2, a3, a4, a5}
<1>1. <<a1, a2, a3>> \in Seq(S) /\ <<a4, a5>> \in Seq(S) /\ <<a1, a2, a3, a4, a5>> \in Seq(S)
  OBVIOUS
<1>2. <<a1, a2, a3>> \o <<a4, a5>> \in Seq(S) /\ Len(<<a1, a2, a3>> \o <<a4, a5>>) = 5 /\ Len(<<a1, a2, a3, a4, a5>>) = 5
  OBVIOUS
<1>3. \A k \in 1 .. 5 : (<<a1, a2, a3>> \o <<a4, a5>>)[k] = <<a1, a2, a3, a4, a5>>[k]
  OBVIOUS
<1>. HIDE DEF S
<1>. QED  BY <1>1, <1>2, <1>3, SeqEqual DEF Catenate

LEMMA Tuples6And1 ==
    ASSUME NEW a1, NEW a2, NEW a3, NEW a4, NEW a5, NEW a6, NEW a7
    PROVE  Catenate(<<a1, a2, a3, a4, a5, a6>>, <<a7>>, <<a1, a2, a3, a4, a5, a6, a7>>)
<1>. DEFINE S == {a1, a2, a3, a4, a5, a6, a7}
<1>1. <<a1, a2, a3, a4, a5, a6>> \in Seq(S) /\ <<a7>> \in Seq(S) /\ <<a1, a2, a3, a4, a5, a6, a7>> \in Seq(S)
  OBVIOUS
<1>2. <<a1, a2, a3, a4, a5, a6>> \o <<a7>> \in Seq(S) /\ Len(<<a1, a2, a3, a4, a5, a6>> \o <<a7>>) = 7 /\ Len(<<a1, a2, a3, a4, a5, a6, a7>>) = 7
  OBVIOUS
<1>3. \A k \in 1 .. 7 : (<<a1, a2, a3, a4, a5, a6>> \o <<a7>>)[k] = <<a1, a2, a3, a4, a5, a6, a7>>[k]
  OBVIOUS
<1>. HIDE DEF S
<1>. QED  BY <1>1, <1>2, <1>3, SeqEqual DEF Catenate

LEMMA Tuples4And4 ==
    ASSUME NEW a1, NEW a2, NEW a3, NEW a4, NEW a5, NEW a6, NEW a7, NEW a8
    PROVE  Catenate(<<a1, a2, a3, a4>>, <<a5, a6, a7, a8>>, <<a1, a2, a3, a4, a5, a6, a7, a8>>)
<1>. DEFINE S == {a1, a2, a3, a4, a5, a6, a7, a8}
<1>1. <<a1, a2, a3, a4>> \in Seq(S) /\ <<a5, a6, a7, a8>> \in Seq(S) /\ <<a1, a2, a3, a4, a5, a6, a7, a8>> \in Seq(S)
  OBVIOUS
<1>2. <<a1, a2, a3, a4>> \o <<a5, a6, a7, a8>> \in Seq(S) /\ Len(<<a1, a2, a3, a4>> \o <<a5, a6, a7, a8>>) = 8 /\ Len(<<a1, a2, a3, a4, a5, a6, a7, a8>>) = 8
  OBVIOUS
<1>3. \A k \in 1 .. 8 : (<<a1, a2, a3, a4>> \o <<a5, a6, a7, a8>>)[k] = <<a1, a2, a3, a4, a5, a6, a7, a8>>[k]
  OBVIOUS
<1>. HIDE DEF S
<1>. QED  BY <1>1, <1>2, <1>3, SeqEqual DEF Catenate

LEMMA Tuples8And1 ==
    ASSUME NEW a1, NEW a2, NEW a3, NEW a4, NEW a5, NEW a6, NEW a7, NEW a8, NEW a9
    PROVE  Catenate(<<a1, a2, a3, a4, a5, a6, a7, a8>>, <<a9>>, <<a1, a2, a3, a4, a5, a6, a7, a8, a9>>)
<1>. DEFINE S == {a1, a2, a3, a4, a5, a6, a7, a8, a9}
<1>1. <<a1, a2, a3, a4, a5, a6, a7, a8>> \in Seq(S) /\ <<a9>> \in Seq(S) /\ <<a1, a2, a3, a4, a5, a6, a7, a8, a9>> \in Seq(S)
  OBVIOUS
<1>2. <<a1, a2, a3, a4, a5, a6, a7, a8>> \o <<a9>> \in Seq(S) /\ Len(<<a1, a2, a3, a4, a5, a6, a7, a8>> \o <<a9>>) = 9 /\ Len(<<a1, a2, a3, a4, a5, a6, a7, a8, a9>>) = 9
  OBVIOUS
<1>3. \A k \in 1 .. 9 : (<<a1, a2, a3, a4, a5, a6, a7, a8>> \o <<a9>>)[k] = <<a1, a2, a3, a4, a5, a6, a7, a8, a9>>[k]
  OBVIOUS
<1>. HIDE DEF S
<1>. QED  BY <1>1, <1>2, <1>3, SeqEqual DEF Catenate

LEMMA Tuples3And4 ==
    ASSUME NEW a1, NEW a2, NEW a3, NEW a4, NEW a5, NEW a6, NEW a7
    PROVE  Catenate(<<a1, a2, a3>>, <<a4, a5, a6, a7>>, <<a1, a2, a3, a4, a5, a6, a7>>)
<1>. DEFINE S == {a1, a2, a3, a4, a5, a6, a7}
<1>1. <<a1, a2, a3>> \in Seq(S) /\ <<a4, a5, a6, a7>> \in Seq(S) /\ <<a1, a2, a3, a4, a5, a6, a7>> \in Seq(S)
  OBVIOUS
<1>2. <<a1, a2, a3>> \o <<a4, a5, a6, a7>> \in Seq(S) /\ Len(<<a1, a2, a3>> \o <<a4, a5, a6, a7>>) = 7 /\ Len(<<a1, a2, a3, a4, a5, a6, a7>>) = 7
  OBVIOUS
<1>3. \A k \in 1 .. 7 : (<<a1, a2, a3>> \o <<a4, a5, a6, a7>>)[k] = <<a1, a2, a3, a4, a5, a6, a7>>[k]
  OBVIOUS
<1>. HIDE DEF S
<1>. QED  BY <1>1, <1>2, <1>3, SeqEqual DEF Catenate

LEMMA TopOfPart ==
    ASSUME NEW b \in Nat, NEW v \in 0 .. Pow2[b + 1] - 1
    PROVE  b \in BitsOf(v, b + 1) <=> v >= Pow2[b]
<1>. DEFINE P == Pow2[b]
<1>1. P \in Nat \ {0} /\ Pow2[b + 1] = 2 * P
  BY PowFacts
<1>2. b \in BitsOf(v, b + 1) <=> (v \div P) % 2 = 1
  BY DEF BitsOf
<1>. HIDE DEF P
<1>3. v \in Nat /\ v < 2 * P
  BY <1>1
<1>4. CASE v < P
  <2>1. v \div P = 0
    <3>1. v \in 0 .. P - 1
      BY <1>1, <1>3, <1>4
    <3>. QED  BY <1>1, <3>1, SmallMod
  <2>. QED  BY <1>1, <1>2, <1>3, <1>4, <2>1 DEF P
<1>5. CASE v >= P
  <2>1. v \div P = 1
    <3>1. v = 1 * P + (v - P) /\ v - P \in 0 .. P - 1 /\ v \in Int /\ 1 \in Int
      BY <1>1, <1>3, <1>5
    <3>. QED  BY <1>1, <3>1, ModUnique
  <2>. QED  BY <1>2, <1>5, <2>1 DEF P
<1>. QED  BY <1>1, <1>3, <1>4, <1>5

\* The number that b bits stand for when the first one is a sign.
SignedPart(v, b) == IF v < Pow2[b - 1] THEN v ELSE v - Pow2[b]

\* Reading the parts back, when every part fits its width.
LEMMA PartsRead ==
    ASSUME NEW parts \in Parts, NEW n \in Nat \ {0}, n = Len(parts), NEW E, EndsOf(E, parts),
           \A k \in 1 .. n : parts[k][2] \in 0 .. Pow2[parts[k][1]] - 1
    PROVE  /\ \A k \in 1 .. n : Field(Join(parts), E[n] - E[k], parts[k][1]) = parts[k][2]
           /\ \A k \in 1 .. n : parts[k][1] = 1 =>
                 (E[n] - E[k] \in Join(parts) <=> parts[k][2] = 1)
           /\ \A k \in 1 .. n : parts[k][1] # 0 =>
                 SignedField(Join(parts), E[n] - E[k], parts[k][1]) = SignedPart(parts[k][2], parts[k][1])
<1>. SUFFICES ASSUME NEW k \in 1 .. n
              PROVE  /\ Field(Join(parts), E[n] - E[k], parts[k][1]) = parts[k][2]
                     /\ parts[k][1] = 1 => (E[n] - E[k] \in Join(parts) <=> parts[k][2] = 1)
                     /\ parts[k][1] # 0 =>
                           SignedField(Join(parts), E[n] - E[k], parts[k][1])
                             = SignedPart(parts[k][2], parts[k][1])
  OBVIOUS
<1>. DEFINE b == parts[k][1]
            v == parts[k][2]
            P == Pow2[b]
<1>1. b \in Nat /\ v \in Nat /\ P \in Nat \ {0} /\ v \in 0 .. P - 1
  <2>1. b \in Nat
    BY DEF Parts
  <2>2. P \in Nat \ {0} /\ v \in 0 .. P - 1
    BY <2>1, PowFacts
  <2>. QED  BY <2>1, <2>2
<1>2. Field(Join(parts), E[n] - E[k], b) = v % P
  <2>1. b \in Nat /\ b <= parts[k][1] /\ parts[k][2] \in Nat
    BY <1>1
  <2>. HIDE DEF b
  <2>. QED  BY <2>1, PartFields
<1>3. v % P = v
  BY <1>1, SmallMod
<1>4. ASSUME b = 1 PROVE E[n] - E[k] \in Join(parts) <=> v = 1
  <2>1. E[n] - E[k] + 0 \in Join(parts) <=> 0 \in BitsOf(v, b)
    <3>1. 0 \in 0 .. b - 1
      BY <1>4
    <3>. QED  BY <3>1, JoinLayout DEF Laid
  <2>2. E[n] - E[k] + 0 = E[n] - E[k]
    <3>1. E[n] \in Int /\ E[k] \in Int
      BY DEF EndsOf
    <3>. QED  BY <3>1
  <2>3. v = 0 \/ v = 1
    <3>1. P = 2
      BY <1>4, SmallPowers
    <3>. HIDE DEF P
    <3>. QED  BY <1>1, <3>1
  <2>4. 0 \in BitsOf(v, b) <=> v = 1
    <3>1. 0 \in BitsOf(v, b) <=> (v \div Pow2[0]) % 2 = 1
      BY <1>4 DEF BitsOf
    <3>2. Pow2[0] = 1
      BY PowFacts
    <3>. HIDE DEF v
    <3>. QED  BY <2>3, <3>1, <3>2
  <2>. QED  BY <2>1, <2>2, <2>4
<1>5. ASSUME b # 0 PROVE SignedField(Join(parts), E[n] - E[k], b) = SignedPart(v, b)
  <2>. DEFINE c == b - 1
              lo == E[n] - E[k]
  <2>1. c \in Nat /\ b = c + 1
    <3>1. b \in Nat /\ b # 0
      BY <1>1, <1>5
    <3>. HIDE DEF b, P, lo
    <3>. QED  BY <3>1
  <2>2. v \in 0 .. Pow2[c + 1] - 1
    BY <1>1, <2>1
  <2>3. lo + c \in Join(parts) <=> c \in BitsOf(v, b)
    <3>1. c \in 0 .. b - 1
      BY <2>1
    <3>. QED  BY <3>1, JoinLayout DEF Laid
  <2>4. lo + b - 1 = lo + c
    <3>1. E[n] \in Int /\ E[k] \in Int
      BY DEF EndsOf
    <3>. QED  BY <1>1, <3>1
  <2>5. c \in BitsOf(v, b) <=> v >= Pow2[c]
    BY <2>1, <2>2, TopOfPart
  <2>6. Field(Join(parts), lo, b) = v
    BY <1>2, <1>3
  <2>7. Pow2[c] \in Nat /\ v \in Nat /\ Pow2[b] \in Nat
    BY <1>1, <2>1, PowFacts
  <2>. HIDE DEF lo, v, b, P
  <2>8. SignedField(Join(parts), lo, b) = v - (IF v >= Pow2[c] THEN Pow2[b] ELSE 0)
    BY <2>3, <2>4, <2>5, <2>6 DEF SignedField
  <2>. QED  BY <2>7, <2>8 DEF SignedPart, lo
<1>. HIDE DEF P
<1>. QED  BY <1>2, <1>3, <1>4, <1>5

LEMMA Widths ==
    /\ Pow2[0] = 1 /\ Pow2[1] = 2 /\ Pow2[2] = 4 /\ Pow2[4] = 16 /\ Pow2[5] = 32 /\ Pow2[6] = 64
    /\ \A n \in Nat : Pow2[n] \in Nat \ {0}
<1>1. Pow2[5 + 1] = 2 * Pow2[5] /\ \A n \in Nat : Pow2[n] \in Nat \ {0}
  BY PowFacts
<1>. QED  BY <1>1, SmallPowers, PowFacts

\* The word of hlt is 0, like memory that nothing was written to.
LEMMA WordOfHlt == Join(<<<<6, 0>>, <<26, 0>>>>) = {}
<1>. DEFINE parts == <<<<6, 0>>, <<26, 0>>>>
            E == <<6, 32>>
            w == Join(parts)
            n == 2
<1>1. parts \in Parts /\ EndsOf(E, parts) /\ n = Len(parts) /\ n \in Nat \ {0}
  BY Widths DEF Parts, EndsOf
<1>2. Laid(w, E, parts, n)
  <2>. HIDE DEF parts, E, n
  <2>. QED  BY <1>1, JoinLayout
<1>. HIDE DEF w
<1>3. \A b \in Nat : BitsOf(0, b) = {}
  <2>. SUFFICES ASSUME NEW b \in Nat, NEW i \in 0 .. b - 1, (0 \div Pow2[i]) % 2 = 1 PROVE FALSE
    BY DEF BitsOf
  <2>1. 0 \div Pow2[i] = 0
    <3>1. Pow2[i] \in Nat \ {0}
      BY PowFacts
    <3>2. 0 \in 0 .. Pow2[i] - 1
      BY <3>1
    <3>. QED  BY <3>1, <3>2, SmallMod
  <2>. QED  BY <2>1
<1>4. ASSUME NEW p \in w PROVE FALSE
  <2>1. p \in 0 .. 31
    BY <1>2 DEF Laid
  <2>2. \A j \in 0 .. 25 : 0 + j \in w <=> j \in BitsOf(0, 26)
    BY <1>2 DEF Laid
  <2>3. \A j \in 0 .. 5 : 26 + j \in w <=> j \in BitsOf(0, 6)
    BY <1>2 DEF Laid
  <2>4. BitsOf(0, 26) = {} /\ BitsOf(0, 6) = {}
    BY <1>3
  <2>5. CASE p \in 0 .. 25
    BY <2>2, <2>4, <2>5
  <2>6. CASE p \in 26 .. 31
    <3>1. p - 26 \in 0 .. 5 /\ 26 + (p - 26) = p
      BY <2>6
    <3>2. 26 + (p - 26) \in w <=> p - 26 \in BitsOf(0, 6)
      BY <2>3, <3>1
    <3>. QED  BY <2>4, <3>1, <3>2
  <2>. QED  BY <2>1, <2>5, <2>6
<1>5. w = {}
  BY <1>4
<1>. QED  BY <1>5 DEF w

-----------------------------------------------------------------------------
(* What the processor reads in the word of an instruction. *)

AluOps == Adders \cup Subbers \cup Logicals \cup Compares \cup {"mul"}

\* The instructions by format.
LEMMA Kinds ==
    ASSUME NEW i \in Instructions
    PROVE  /\ i.op \in AluOps =>
                i \in [op : AluOps, s : BOOLEAN, d : Five, n : Five, arg : AnyOperand(0 .. Pow2[14] - 1)]
           /\ i.op \in Shifts =>
                i \in [op : Shifts, s : BOOLEAN, d : Five, n : Five, arg : AnyOperand(Five)]
           /\ i.op \in LongMuls =>
                i \in [op : LongMuls, s : BOOLEAN, d : Five, n : Five, m1 : Five, m2 : Five]
           /\ i.op \in Moves => i \in [op : Moves, s : BOOLEAN, d : Five, arg : AnyOperand(0 .. Pow2[14] - 1)]
           /\ i.op \in Loads \cup Stores =>
                i \in [op : Loads \cup Stores, s : BOOLEAN, d : Five, n : Five,
                       arg : AnyOperand(-Pow2[11] .. Pow2[12] - 1), mode : DOMAIN AddrType]
           /\ i.op \in Swaps => i \in [op : Swaps, s : BOOLEAN, d : Five, n : Five, m1 : Five]
           /\ i.op = "adrp" => i \in [op : {"adrp"}, s : BOOLEAN, d : Five, page : 0 .. Pow2[20] - 1]
           /\ i.op \in Jumps \cup {"swi"} =>
                i \in [op : Jumps \cup {"swi"}, cond : Range(Conds), offset : -Pow2[21] .. Pow2[21] - 1]
           /\ i.op \in RegJumps => i \in [op : RegJumps, cond : Range(Conds), d : Five]
           /\ \/ i.op \in AluOps \cup Shifts \cup LongMuls \cup Moves \cup Loads \cup Stores \cup Swaps
                            \cup {"adrp"} \cup Jumps \cup {"swi"} \cup RegJumps
              \/ i.op \in {"hlt", "nop"}
<1>1. /\ AluOps = {"add", "adc", "sub", "sbc", "rsb", "rsc", "and", "orr", "eor", "bic",
                   "cmp", "cmn", "tst", "teq", "mul"}
      /\ Shifts = {"lsl", "lsr", "asr", "ror"} /\ LongMuls = {"umull", "smull"} /\ Moves = {"mov", "mvn"}
      /\ Loads \cup Stores = {"ldr", "ldrb", "ldrh", "str", "strb", "strh"}
      /\ Swaps = {"swp", "swpb", "swph"} /\ Jumps \cup {"swi"} = {"b", "bl", "swi"}
      /\ RegJumps = {"bx", "blx"}
  BY DEF AluOps, Adders, Subbers, Logicals, Compares, Shifts, LongMuls, Moves, Loads, Stores, Swaps, Jumps,
         RegJumps
<1>2. \/ i \in [op : AluOps, s : BOOLEAN, d : Five, n : Five, arg : AnyOperand(0 .. Pow2[14] - 1)]
      \/ i \in [op : Shifts, s : BOOLEAN, d : Five, n : Five, arg : AnyOperand(Five)]
      \/ i \in [op : LongMuls, s : BOOLEAN, d : Five, n : Five, m1 : Five, m2 : Five]
      \/ i \in [op : Moves, s : BOOLEAN, d : Five, arg : AnyOperand(0 .. Pow2[14] - 1)]
      \/ i \in [op : Loads \cup Stores, s : BOOLEAN, d : Five, n : Five,
                arg : AnyOperand(-Pow2[11] .. Pow2[12] - 1), mode : DOMAIN AddrType]
      \/ i \in [op : Swaps, s : BOOLEAN, d : Five, n : Five, m1 : Five]
      \/ i \in [op : {"adrp"}, s : BOOLEAN, d : Five, page : 0 .. Pow2[20] - 1]
      \/ i \in [op : Jumps \cup {"swi"}, cond : Range(Conds), offset : -Pow2[21] .. Pow2[21] - 1]
      \/ i \in [op : RegJumps, cond : Range(Conds), d : Five]
      \/ i \in [op : {"hlt", "nop"}]
  <2>1. /\ Operands(0 .. Pow2[14] - 1) \subseteq AnyOperand(0 .. Pow2[14] - 1)
        /\ Operands(-Pow2[11] .. Pow2[12] - 1) \subseteq AnyOperand(-Pow2[11] .. Pow2[12] - 1)
        /\ ShiftOperands \subseteq AnyOperand(Five) /\ MoveOperands \subseteq AnyOperand(0 .. Pow2[14] - 1)
    BY Zenon DEF Operands, ShiftOperands, MoveOperands
  <2>2. \A S, T, O : S \subseteq T =>
          /\ [op : O, s : BOOLEAN, d : Five, n : Five, arg : S] \subseteq [op : O, s : BOOLEAN, d : Five, n : Five, arg : T]
          /\ [op : O, s : BOOLEAN, d : Five, arg : S] \subseteq [op : O, s : BOOLEAN, d : Five, arg : T]
          /\ [op : O, s : BOOLEAN, d : Five, n : Five, arg : S, mode : DOMAIN AddrType]
               \subseteq [op : O, s : BOOLEAN, d : Five, n : Five, arg : T, mode : DOMAIN AddrType]
    OBVIOUS
  <2>3. \/ i \in [op : AluOps, s : BOOLEAN, d : Five, n : Five, arg : Operands(0 .. Pow2[14] - 1)]
        \/ i \in [op : Shifts, s : BOOLEAN, d : Five, n : Five, arg : ShiftOperands]
        \/ i \in [op : LongMuls, s : BOOLEAN, d : Five, n : Five, m1 : Five, m2 : Five]
        \/ i \in [op : Moves, s : BOOLEAN, d : Five, arg : MoveOperands]
        \/ i \in [op : Loads \cup Stores, s : BOOLEAN, d : Five, n : Five,
                  arg : Operands(-Pow2[11] .. Pow2[12] - 1), mode : DOMAIN AddrType]
        \/ i \in [op : Swaps, s : BOOLEAN, d : Five, n : Five, m1 : Five]
        \/ i \in [op : {"adrp"}, s : BOOLEAN, d : Five, page : 0 .. Pow2[20] - 1]
        \/ i \in [op : Jumps \cup {"swi"}, cond : Range(Conds), offset : -Pow2[21] .. Pow2[21] - 1]
        \/ i \in [op : RegJumps, cond : Range(Conds), d : Five]
        \/ i \in [op : {"hlt", "nop"}]
    BY Zenon DEF Instructions, AluOps
  <2>. QED  BY <2>1, <2>2, <2>3, ZenonT(60)
<1>. QED  BY <1>1, <1>2

LEMMA OpcodeRange ==
    \A op \in AluOps \cup Shifts \cup LongMuls \cup Moves \cup Loads \cup Stores \cup Swaps \cup {"adrp"}
                \cup Jumps \cup {"swi"} \cup RegJumps \cup {"hlt", "nop"} : Opcode[op] \in 0 .. 63
BY DEF Opcode, AluOps, Adders, Subbers, Logicals, Compares, Shifts, LongMuls, Moves, Loads, Stores, Swaps, Jumps,
       RegJumps

LEMMA FlagFacts == \A b \in BOOLEAN : Flag(b) \in {0, 1} /\ (Flag(b) = 1 <=> b)
BY DEF Flag

LEMMA OperandFacts ==
    ASSUME NEW S, NEW a \in AnyOperand(S)
    PROVE  /\ a.imm \in BOOLEAN /\ a.val \in S /\ a.m \in Five /\ a.by \in Five
           /\ ShiftType[a.sh] \in 0 .. 3 /\ a.sh \in Shifts
<1>1. a.imm \in BOOLEAN /\ a.val \in S /\ a.m \in Five /\ a.by \in Five /\ a.sh \in Shifts
  BY DEF AnyOperand
<1>. QED  BY <1>1 DEF Shifts, ShiftType

\* The last operand, as the processor reads it: a number of n bits, or a register with its shift.
OperandIn(w, a) ==
    IF a.imm THEN 14 \in w /\ Field(w, 0, 14) = a.val
    ELSE /\ 14 \notin w /\ X3(w) = a.m
         /\ Field(w, 7, 2) = ShiftType[a.sh] /\ Field(w, 2, 5) = a.by /\ Field(w, 2, 2) = a.by % 4

AluIn(w, i) ==
    /\ OpOf(w) = Opcode[i.op] /\ (SetsFlags(w) <=> i.s) /\ X1(w) = i.d /\ X2(w) = i.n
    /\ OperandIn(w, i.arg)
ShiftIn(w, i) ==
    /\ OpOf(w) = Opcode[i.op] /\ X1(w) = i.d /\ X2(w) = i.n
    /\ 14 \in w <=> i.arg.imm
    /\ X3(w) = i.arg.m /\ Field(w, 2, 5) = i.arg.val
LongMulIn(w, i) ==
    /\ OpOf(w) = Opcode[i.op] /\ (SetsFlags(w) <=> i.s) /\ X1(w) = i.d /\ X2(w) = i.n
    /\ X3(w) = i.m1 /\ X4(w) = i.m2
\* A move from a register is a bit short: the opcodes of the moves, 34 and 35, are read as 17.
MoveIn(w, i) ==
    IF i.arg.imm
      THEN /\ OpOf(w) = Opcode[i.op] /\ (SetsFlags(w) <=> i.s) /\ X1(w) = i.d
           /\ 19 \in w /\ Field(w, 0, 19) = i.arg.val
    ELSE OpOf(w) = 17
MemoryIn(w, i) ==
    /\ OpOf(w) = Opcode[i.op] /\ (SetsFlags(w) <=> i.s) /\ X1(w) = i.d /\ X2(w) = i.n
    /\ Mode(w) = AddrType[i.mode]
    /\ IF i.arg.imm
         THEN 14 \in w /\ SignedField(w, 2, 12) = SignedPart(i.arg.val % Pow2[12], 12)
       ELSE OperandIn(w, i.arg)
SwapIn(w, i) == OpOf(w) = Opcode[i.op] /\ X1(w) = i.d /\ X2(w) = i.n /\ X3(w) = i.m1
AdrpIn(w, i) == OpOf(w) = Opcode[i.op] /\ X1(w) = i.d /\ Field(w, 0, 20) = i.page
JumpIn(w, i) ==
    /\ OpOf(w) = Opcode[i.op] /\ CondOf(w) = i.cond /\ SignedField(w, 0, 22) = i.offset
RegJumpIn(w, i) == OpOf(w) = Opcode[i.op] /\ CondOf(w) = i.cond /\ Field(w, 17, 5) = i.d
BareIn(w, i) == OpOf(w) = Opcode[i.op]

LEMMA EncodeAlu ==
    ASSUME NEW i \in Instructions, i.op \in AluOps
    PROVE  AluIn(Encode(i), i)
<1>. DEFINE o == Opcode[i.op]
            s == Flag(i.s)
            d == i.d
            m == i.n
            v == i.arg.val
            r == i.arg.m
            t == ShiftType[i.arg.sh]
            by == i.arg.by
<1>1. /\ o \in 0 .. 63 /\ s \in {0, 1} /\ d \in Five /\ m \in Five /\ (s = 1 <=> i.s)
      /\ v \in 0 .. Pow2[14] - 1 /\ r \in Five /\ t \in 0 .. 3 /\ by \in Five
  <2>1. i \in [op : AluOps, s : BOOLEAN, d : Five, n : Five, arg : AnyOperand(0 .. Pow2[14] - 1)]
    BY Kinds
  <2>2. i.arg \in AnyOperand(0 .. Pow2[14] - 1) /\ i.s \in BOOLEAN /\ i.d \in Five /\ i.n \in Five
    BY <2>1
  <2>. QED  BY <2>2, OpcodeRange, FlagFacts, OperandFacts
<1>. HIDE DEF o, s, d, m, v, r, t, by
<1>2. Encode(i) = Join(FormatO(i))
  BY DEF Encode, AluOps, Adders, Subbers, Logicals, Compares, Shifts, LongMuls, Moves, Loads, Stores, Swaps, Jumps,
         RegJumps
<1>3. CASE i.arg.imm
  <2>. DEFINE p1 == <<6, o>>
              p2 == <<1, s>>
              p3 == <<5, d>>
              p4 == <<5, m>>
              p5 == <<1, 1>>
              p6 == <<14, v>>
  <2>. HIDE DEF p1, p2, p3, p4, p5, p6
  <2>1. FormatO(i) = <<p1, p2, p3, p4, p5, p6>>
    <3>1. Catenate(<<p1, p2, p3>>, <<p4>>, <<p1, p2, p3, p4>>)
      BY Tuples3And1
    <3>2. Catenate(<<p1, p2, p3, p4>>, <<p5, p6>>, <<p1, p2, p3, p4, p5, p6>>)
      BY Tuples4And2
    <3>3. FormatO(i) = (<<p1, p2, p3>> \o <<p4>>) \o <<p5, p6>>
      BY <1>3, Zenon DEF FormatO, Head3, o, s, d, m, v, r, t, by, p1, p2, p3, p4, p5, p6
    <3>. QED  BY <3>1, <3>2, <3>3, Zenon DEF Catenate
  <2>. USE DEF p1, p2, p3, p4, p5, p6
  <2>. DEFINE parts == <<p1, p2, p3, p4, p5, p6>>
              E == <<6, 7, 12, 17, 18, 32>>
              n == 6
              w == Join(parts)
  <2>2. parts \in Parts /\ EndsOf(E, parts) /\ n = Len(parts) /\ n \in Nat \ {0}
    BY <1>1, <1>3, Widths DEF Parts, EndsOf, Five
  <2>3. \A k \in 1 .. n : parts[k][2] \in 0 .. Pow2[parts[k][1]] - 1
    BY <1>1, <1>3, Widths DEF Five
  <2>4. /\ \A k \in 1 .. n : Field(w, E[n] - E[k], parts[k][1]) = parts[k][2]
        /\ \A k \in 1 .. n : parts[k][1] = 1 => (E[n] - E[k] \in w <=> parts[k][2] = 1)
        /\ \A k \in 1 .. n : parts[k][1] # 0 =>
              SignedField(w, E[n] - E[k], parts[k][1]) = SignedPart(parts[k][2], parts[k][1])
    <3>. HIDE DEF parts, E, n
    <3>. QED  BY <2>2, <2>3, PartsRead
  <2>. HIDE DEF w
  <2>5. /\ Field(w, 26, 6) = o
        /\ 25 \in w <=> s = 1
        /\ Field(w, 20, 5) = d
        /\ Field(w, 15, 5) = m
        /\ 14 \in w
        /\ Field(w, 0, 14) = v
    BY <2>4
  <2>6. Encode(i) = w
    BY <1>2, <2>1 DEF w
  <2>. QED  BY <1>1, <1>3, <2>5, <2>6 DEF AluIn, OperandIn, OpOf, SetsFlags, X1, X2, X3, Mode, o, s, d, m, v, r, t, by
<1>4. CASE ~i.arg.imm
  <2>. DEFINE p1 == <<6, o>>
              p2 == <<1, s>>
              p3 == <<5, d>>
              p4 == <<5, m>>
              p5 == <<1, 0>>
              p6 == <<5, r>>
              p7 == <<2, t>>
              p8 == <<5, by>>
              p9 == <<2, 0>>
  <2>. HIDE DEF p1, p2, p3, p4, p5, p6, p7, p8, p9
  <2>1. FormatO(i) = <<p1, p2, p3, p4, p5, p6, p7, p8, p9>>
    <3>1. Catenate(<<p1, p2, p3>>, <<p4>>, <<p1, p2, p3, p4>>)
      BY Tuples3And1
    <3>2. Catenate(<<p1, p2, p3, p4>>, <<p5, p6, p7, p8, p9>>, <<p1, p2, p3, p4, p5, p6, p7, p8, p9>>)
      BY Tuples4And5
    <3>3. FormatO(i) = (<<p1, p2, p3>> \o <<p4>>) \o <<p5, p6, p7, p8, p9>>
      BY <1>4, Zenon DEF FormatO, Head3, o, s, d, m, v, r, t, by, p1, p2, p3, p4, p5, p6, p7, p8, p9
    <3>. QED  BY <3>1, <3>2, <3>3, Zenon DEF Catenate
  <2>. USE DEF p1, p2, p3, p4, p5, p6, p7, p8, p9
  <2>. DEFINE parts == <<p1, p2, p3, p4, p5, p6, p7, p8, p9>>
              E == <<6, 7, 12, 17, 18, 23, 25, 30, 32>>
              n == 9
              w == Join(parts)
  <2>2. parts \in Parts /\ EndsOf(E, parts) /\ n = Len(parts) /\ n \in Nat \ {0}
    BY <1>1, <1>4, Widths DEF Parts, EndsOf, Five
  <2>3. \A k \in 1 .. n : parts[k][2] \in 0 .. Pow2[parts[k][1]] - 1
    BY <1>1, <1>4, Widths DEF Five
  <2>4. /\ \A k \in 1 .. n : Field(w, E[n] - E[k], parts[k][1]) = parts[k][2]
        /\ \A k \in 1 .. n : parts[k][1] = 1 => (E[n] - E[k] \in w <=> parts[k][2] = 1)
        /\ \A k \in 1 .. n : parts[k][1] # 0 =>
              SignedField(w, E[n] - E[k], parts[k][1]) = SignedPart(parts[k][2], parts[k][1])
    <3>. HIDE DEF parts, E, n
    <3>. QED  BY <2>2, <2>3, PartsRead
  <2>5. Field(w, 2, 2) = by % 4
    <3>. DEFINE k == 8
                len == 2
    <3>1. k \in 1 .. n /\ parts[k][2] \in Nat /\ len \in Nat /\ len <= parts[k][1] /\ E[n] - E[k] = 2
          /\ parts[k][2] = by
      BY <1>1 DEF Five
    <3>. HIDE DEF parts, E, n, k
    <3>2. Field(w, E[n] - E[k], len) = by % Pow2[len]
      <4>. HIDE DEF len
      <4>. QED  BY <2>2, <3>1, PartFields
    <3>. QED  BY <3>1, <3>2, SmallPowers
  <2>. HIDE DEF w
  <2>6. /\ Field(w, 26, 6) = o
        /\ 25 \in w <=> s = 1
        /\ Field(w, 20, 5) = d
        /\ Field(w, 15, 5) = m
        /\ 14 \notin w
        /\ Field(w, 9, 5) = r
        /\ Field(w, 7, 2) = t
        /\ Field(w, 2, 5) = by
    BY <2>4
  <2>7. Encode(i) = w
    BY <1>2, <2>1 DEF w
  <2>. QED  BY <1>1, <1>4, <2>5, <2>6, <2>7 DEF AluIn, OperandIn, OpOf, SetsFlags, X1, X2, X3, Mode, o, s, d, m, v, r, t, by
<1>. QED  BY <1>3, <1>4

LEMMA EncodeShift ==
    ASSUME NEW i \in Instructions, i.op \in Shifts
    PROVE  ShiftIn(Encode(i), i)
<1>. DEFINE o == Opcode[i.op]
            s == Flag(i.s)
            d == i.d
            m == i.n
            b == Flag(i.arg.imm)
            r == i.arg.m
            v == i.arg.val
<1>1. /\ o \in 0 .. 63 /\ s \in {0, 1} /\ d \in Five /\ m \in Five /\ v \in Five /\ r \in Five
      /\ b \in {0, 1} /\ (b = 1 <=> i.arg.imm)
  <2>1. i \in [op : Shifts, s : BOOLEAN, d : Five, n : Five, arg : AnyOperand(Five)]
    BY Kinds
  <2>2. i.arg \in AnyOperand(Five) /\ i.s \in BOOLEAN /\ i.d \in Five /\ i.n \in Five
    BY <2>1
  <2>. QED  BY <2>2, OpcodeRange, FlagFacts, OperandFacts
<1>. HIDE DEF o, s, d, m, b, r, v
<1>2. Encode(i) = Join(FormatO1(i))
  BY DEF Encode, AluOps, Adders, Subbers, Logicals, Compares, Shifts, LongMuls, Moves, Loads, Stores, Swaps, Jumps,
         RegJumps
<1>. DEFINE p1 == <<6, o>>
            p2 == <<1, s>>
            p3 == <<5, d>>
            p4 == <<5, m>>
            p5 == <<1, b>>
            p6 == <<5, r>>
            p7 == <<2, 0>>
            p8 == <<5, v>>
            p9 == <<2, 0>>
<1>. HIDE DEF p1, p2, p3, p4, p5, p6, p7, p8, p9
<1>3. FormatO1(i) = <<p1, p2, p3, p4, p5, p6, p7, p8, p9>>
  <2>1. Catenate(<<p1, p2, p3>>, <<p4, p5, p6, p7, p8, p9>>, <<p1, p2, p3, p4, p5, p6, p7, p8, p9>>)
    BY Tuples3And6
  <2>2. FormatO1(i) = <<p1, p2, p3>> \o <<p4, p5, p6, p7, p8, p9>>
    BY Zenon DEF FormatO1, Head3, o, s, d, m, b, r, v, p1, p2, p3, p4, p5, p6, p7, p8, p9
  <2>. QED  BY <2>1, <2>2, Zenon DEF Catenate
<1>. USE DEF p1, p2, p3, p4, p5, p6, p7, p8, p9
<1>. DEFINE parts == <<p1, p2, p3, p4, p5, p6, p7, p8, p9>>
            E == <<6, 7, 12, 17, 18, 23, 25, 30, 32>>
            n == 9
            w == Join(parts)
<1>4. parts \in Parts /\ EndsOf(E, parts) /\ n = Len(parts) /\ n \in Nat \ {0}
  BY <1>1, Widths DEF Parts, EndsOf, Five
<1>5. \A k \in 1 .. n : parts[k][2] \in 0 .. Pow2[parts[k][1]] - 1
  BY <1>1, Widths DEF Five
<1>6. /\ \A k \in 1 .. n : Field(w, E[n] - E[k], parts[k][1]) = parts[k][2]
      /\ \A k \in 1 .. n : parts[k][1] = 1 => (E[n] - E[k] \in w <=> parts[k][2] = 1)
      /\ \A k \in 1 .. n : parts[k][1] # 0 =>
            SignedField(w, E[n] - E[k], parts[k][1]) = SignedPart(parts[k][2], parts[k][1])
  <2>. HIDE DEF parts, E, n
  <2>. QED  BY <1>4, <1>5, PartsRead, SMTT(30)
<1>. HIDE DEF w
<1>7. /\ Field(w, 26, 6) = o
      /\ 25 \in w <=> s = 1
      /\ Field(w, 20, 5) = d
      /\ Field(w, 15, 5) = m
      /\ 14 \in w <=> b = 1
      /\ Field(w, 9, 5) = r
      /\ Field(w, 2, 5) = v
  BY <1>6
<1>8. Encode(i) = w
  BY <1>2, <1>3 DEF w
<1>. QED  BY <1>1, <1>7, <1>8 DEF ShiftIn, OpOf, X1, X2, X3, o, s, d, m, b, r, v

LEMMA EncodeLongMul ==
    ASSUME NEW i \in Instructions, i.op \in LongMuls
    PROVE  LongMulIn(Encode(i), i)
<1>. DEFINE o == Opcode[i.op]
            s == Flag(i.s)
            d == i.d
            m == i.n
            r == i.m1
            q == i.m2
<1>1. /\ o \in 0 .. 63 /\ s \in {0, 1} /\ d \in Five /\ m \in Five /\ r \in Five /\ q \in Five
      /\ (s = 1 <=> i.s)
  <2>1. i \in [op : LongMuls, s : BOOLEAN, d : Five, n : Five, m1 : Five, m2 : Five]
    BY Kinds
  <2>. QED  BY <2>1, OpcodeRange, FlagFacts
<1>. HIDE DEF o, s, d, m, r, q
<1>2. Encode(i) = Join(FormatO2(i))
  BY DEF Encode, AluOps, Adders, Subbers, Logicals, Compares, Shifts, LongMuls, Moves, Loads, Stores, Swaps, Jumps,
         RegJumps
<1>. DEFINE p1 == <<6, o>>
            p2 == <<1, s>>
            p3 == <<5, d>>
            p4 == <<5, m>>
            p5 == <<1, 0>>
            p6 == <<5, r>>
            p7 == <<5, q>>
            p8 == <<4, 0>>
<1>. HIDE DEF p1, p2, p3, p4, p5, p6, p7, p8
<1>3. FormatO2(i) = <<p1, p2, p3, p4, p5, p6, p7, p8>>
  <2>1. Catenate(<<p1, p2, p3>>, <<p4, p5, p6, p7, p8>>, <<p1, p2, p3, p4, p5, p6, p7, p8>>)
    BY Tuples3And5
  <2>2. FormatO2(i) = <<p1, p2, p3>> \o <<p4, p5, p6, p7, p8>>
    BY Zenon DEF FormatO2, Head3, o, s, d, m, r, q, p1, p2, p3, p4, p5, p6, p7, p8
  <2>. QED  BY <2>1, <2>2, Zenon DEF Catenate
<1>. USE DEF p1, p2, p3, p4, p5, p6, p7, p8
<1>. DEFINE parts == <<p1, p2, p3, p4, p5, p6, p7, p8>>
            E == <<6, 7, 12, 17, 18, 23, 28, 32>>
            n == 8
            w == Join(parts)
<1>4. parts \in Parts /\ EndsOf(E, parts) /\ n = Len(parts) /\ n \in Nat \ {0}
  BY <1>1, Widths DEF Parts, EndsOf, Five
<1>5. \A k \in 1 .. n : parts[k][2] \in 0 .. Pow2[parts[k][1]] - 1
  BY <1>1, Widths DEF Five
<1>6. /\ \A k \in 1 .. n : Field(w, E[n] - E[k], parts[k][1]) = parts[k][2]
      /\ \A k \in 1 .. n : parts[k][1] = 1 => (E[n] - E[k] \in w <=> parts[k][2] = 1)
      /\ \A k \in 1 .. n : parts[k][1] # 0 =>
            SignedField(w, E[n] - E[k], parts[k][1]) = SignedPart(parts[k][2], parts[k][1])
  <2>. HIDE DEF parts, E, n
  <2>. QED  BY <1>4, <1>5, PartsRead, SMTT(30)
<1>. HIDE DEF w
<1>7. /\ Field(w, 26, 6) = o
      /\ 25 \in w <=> s = 1
      /\ Field(w, 20, 5) = d
      /\ Field(w, 15, 5) = m
      /\ Field(w, 9, 5) = r
      /\ Field(w, 4, 5) = q
  BY <1>6
<1>8. Encode(i) = w
  BY <1>2, <1>3 DEF w
<1>. QED  BY <1>1, <1>7, <1>8 DEF LongMulIn, OpOf, SetsFlags, X1, X2, X3, X4, o, s, d, m, r, q

LEMMA EncodeMove ==
    ASSUME NEW i \in Instructions, i.op \in Moves, i.arg.imm
    PROVE  MoveIn(Encode(i), i)
<1>. DEFINE o == Opcode[i.op]
            s == Flag(i.s)
            d == i.d
            v == i.arg.val
            r == i.arg.m
<1>1. /\ o \in {34, 35} /\ s \in {0, 1} /\ d \in Five /\ (s = 1 <=> i.s)
      /\ v \in 0 .. Pow2[14] - 1 /\ v \in 0 .. Pow2[19] - 1 /\ r \in Five
  <2>1. i \in [op : Moves, s : BOOLEAN, d : Five, arg : AnyOperand(0 .. Pow2[14] - 1)]
    BY Kinds
  <2>2. i.arg \in AnyOperand(0 .. Pow2[14] - 1) /\ i.s \in BOOLEAN /\ i.d \in Five
    BY <2>1
  <2>3. o \in {34, 35}
    BY DEF Moves, Opcode
  <2>4. Pow2[14] <= Pow2[19] /\ Pow2[14] \in Nat /\ Pow2[19] \in Nat
    <3>1. \A a, b \in Nat : a <= b => Pow2[a] <= Pow2[b]
      BY PowMonotone
    <3>2. \A a \in Nat : Pow2[a] \in Nat
      BY PowFacts
    <3>3. 14 \in Nat /\ 19 \in Nat /\ 14 <= 19
      OBVIOUS
    <3>. QED  BY <3>1, <3>2, <3>3
  <2>5. v \in 0 .. Pow2[14] - 1 /\ r \in Five
    <3>. DEFINE S == 0 .. Pow2[14] - 1
    <3>. HIDE DEF S
    <3>1. i.arg \in AnyOperand(S)
      BY <2>2 DEF S
    <3>2. v \in S /\ r \in Five
      BY <3>1, OperandFacts
    <3>. QED  BY <3>2 DEF S
  <2>. QED  BY <2>2, <2>3, <2>4, <2>5, FlagFacts
<1>. HIDE DEF o, s, d, v, r
<1>2. Encode(i) = Join(FormatO3(i))
  BY DEF Encode, AluOps, Adders, Subbers, Logicals, Compares, Shifts, LongMuls, Moves, Loads, Stores, Swaps, Jumps,
         RegJumps
<1>. DEFINE p1 == <<6, o>>
            p2 == <<1, s>>
            p3 == <<5, d>>
            p4 == <<1, 1>>
            p5 == <<19, v>>
<1>. HIDE DEF p1, p2, p3, p4, p5
<1>3. FormatO3(i) = <<p1, p2, p3, p4, p5>>
  <2>1. Catenate(<<p1, p2, p3>>, <<p4, p5>>, <<p1, p2, p3, p4, p5>>)
    BY Tuples3And2
  <2>2. FormatO3(i) = <<p1, p2, p3>> \o <<p4, p5>>
    BY Zenon DEF FormatO3, Head3, o, s, d, v, r, p1, p2, p3, p4, p5
  <2>. QED  BY <2>1, <2>2, Zenon DEF Catenate
<1>. USE DEF p1, p2, p3, p4, p5
<1>. DEFINE parts == <<p1, p2, p3, p4, p5>>
            E == <<6, 7, 12, 13, 32>>
            n == 5
            w == Join(parts)
<1>4. parts \in Parts /\ EndsOf(E, parts) /\ n = Len(parts) /\ n \in Nat \ {0}
  BY <1>1, Widths DEF Parts, EndsOf, Five
<1>5. \A k \in 1 .. n : parts[k][2] \in 0 .. Pow2[parts[k][1]] - 1
  BY <1>1, Widths DEF Five
<1>6. /\ \A k \in 1 .. n : Field(w, E[n] - E[k], parts[k][1]) = parts[k][2]
      /\ \A k \in 1 .. n : parts[k][1] = 1 => (E[n] - E[k] \in w <=> parts[k][2] = 1)
      /\ \A k \in 1 .. n : parts[k][1] # 0 =>
            SignedField(w, E[n] - E[k], parts[k][1]) = SignedPart(parts[k][2], parts[k][1])
  <2>. HIDE DEF parts, E, n
  <2>. QED  BY <1>4, <1>5, PartsRead, SMTT(30)
<1>. HIDE DEF w
<1>7. /\ Field(w, 26, 6) = o
      /\ 25 \in w <=> s = 1
      /\ Field(w, 20, 5) = d
      /\ 19 \in w
      /\ Field(w, 0, 19) = v
  BY <1>6
<1>8. Encode(i) = w
  BY <1>2, <1>3 DEF w
<1>. QED  BY <1>1, <1>7, <1>8 DEF MoveIn, OpOf, SetsFlags, X1, o, s, d, v, r

LEMMA EncodeMemory ==
    ASSUME NEW i \in Instructions, i.op \in Loads \cup Stores
    PROVE  MemoryIn(Encode(i), i)
<1>. DEFINE o == Opcode[i.op]
            s == Flag(i.s)
            d == i.d
            m == i.n
            v == i.arg.val % Pow2[12]
            r == i.arg.m
            t == ShiftType[i.arg.sh]
            by == i.arg.by
            z == AddrType[i.mode]
<1>1. /\ o \in 0 .. 63 /\ s \in {0, 1} /\ (s = 1 <=> i.s) /\ d \in Five /\ m \in Five /\ z \in 0 .. 3
      /\ v \in 0 .. Pow2[12] - 1 /\ r \in Five /\ t \in 0 .. 3 /\ by \in Five
  <2>. DEFINE S == -Pow2[11] .. Pow2[12] - 1
  <2>1. i \in [op : Loads \cup Stores, s : BOOLEAN, d : Five, n : Five, arg : AnyOperand(S), mode : DOMAIN AddrType]
    BY Kinds
  <2>2. Pow2[12] \in Nat \ {0} /\ Pow2[11] \in Nat
    BY PowFacts
  <2>3. \A u \in S : u \in Int
    BY <2>2
  <2>. HIDE DEF S
  <2>4. /\ i.arg \in AnyOperand(S) /\ i.s \in BOOLEAN /\ i.d \in Five /\ i.n \in Five
        /\ i.mode \in DOMAIN AddrType
    BY <2>1
  <2>5. i.arg.val \in Int /\ r \in Five /\ t \in 0 .. 3 /\ by \in Five
    BY <2>3, <2>4, OperandFacts
  <2>6. v \in 0 .. Pow2[12] - 1
    BY <2>2, <2>5
  <2>7. z \in 0 .. 3
    BY <2>4 DEF AddrType
  <2>. QED  BY <2>4, <2>5, <2>6, <2>7, OpcodeRange, FlagFacts
<1>. HIDE DEF o, s, d, m, v, r, t, by, z
<1>2. Encode(i) = Join(FormatM(i))
  BY DEF Encode, AluOps, Adders, Subbers, Logicals, Compares, Shifts, LongMuls, Moves, Loads, Stores, Swaps, Jumps,
         RegJumps
<1>3. CASE i.arg.imm
  <2>. DEFINE p1 == <<6, o>>
              p2 == <<1, s>>
              p3 == <<5, d>>
              p4 == <<5, m>>
              p5 == <<1, 1>>
              p6 == <<12, v>>
              p7 == <<2, z>>
  <2>. HIDE DEF p1, p2, p3, p4, p5, p6, p7
  <2>1. FormatM(i) = <<p1, p2, p3, p4, p5, p6, p7>>
    <3>1. Catenate(<<p1, p2, p3>>, <<p4>>, <<p1, p2, p3, p4>>)
      BY Tuples3And1
    <3>2. Catenate(<<p1, p2, p3, p4>>, <<p5, p6>>, <<p1, p2, p3, p4, p5, p6>>)
      BY Tuples4And2
    <3>3. Catenate(<<p1, p2, p3, p4, p5, p6>>, <<p7>>, <<p1, p2, p3, p4, p5, p6, p7>>)
      BY Tuples6And1
    <3>4. FormatM(i) = ((<<p1, p2, p3>> \o <<p4>>) \o <<p5, p6>>) \o <<p7>>
      BY <1>3, Zenon DEF FormatM, Head3, o, s, d, m, v, r, t, by, z, p1, p2, p3, p4, p5, p6, p7
    <3>. QED  BY <3>1, <3>2, <3>3, <3>4, Zenon DEF Catenate
  <2>. USE DEF p1, p2, p3, p4, p5, p6, p7
  <2>. DEFINE parts == <<p1, p2, p3, p4, p5, p6, p7>>
              E == <<6, 7, 12, 17, 18, 30, 32>>
              n == 7
              w == Join(parts)
  <2>2. parts \in Parts /\ EndsOf(E, parts) /\ n = Len(parts) /\ n \in Nat \ {0}
    BY <1>1, <1>3, Widths DEF Parts, EndsOf, Five
  <2>3. \A k \in 1 .. n : parts[k][2] \in 0 .. Pow2[parts[k][1]] - 1
    BY <1>1, <1>3, Widths DEF Five
  <2>4. /\ \A k \in 1 .. n : Field(w, E[n] - E[k], parts[k][1]) = parts[k][2]
        /\ \A k \in 1 .. n : parts[k][1] = 1 => (E[n] - E[k] \in w <=> parts[k][2] = 1)
        /\ \A k \in 1 .. n : parts[k][1] # 0 =>
              SignedField(w, E[n] - E[k], parts[k][1]) = SignedPart(parts[k][2], parts[k][1])
    <3>. HIDE DEF parts, E, n
    <3>. QED  BY <2>2, <2>3, PartsRead
  <2>. HIDE DEF w
  <2>5. /\ Field(w, 26, 6) = o
        /\ 25 \in w <=> s = 1
        /\ Field(w, 20, 5) = d
        /\ Field(w, 15, 5) = m
        /\ 14 \in w
        /\ SignedField(w, 2, 12) = SignedPart(v, 12)
        /\ Field(w, 0, 2) = z
    BY <2>4
  <2>6. Encode(i) = w
    BY <1>2, <2>1 DEF w
  <2>. QED  BY <1>1, <1>3, <2>5, <2>6 DEF MemoryIn, OperandIn, OpOf, SetsFlags, X1, X2, X3, Mode, o, s, d, m, v, r, t, by, z
<1>4. CASE ~i.arg.imm
  <2>. DEFINE p1 == <<6, o>>
              p2 == <<1, s>>
              p3 == <<5, d>>
              p4 == <<5, m>>
              p5 == <<1, 0>>
              p6 == <<5, r>>
              p7 == <<2, t>>
              p8 == <<5, by>>
              p9 == <<2, z>>
  <2>. HIDE DEF p1, p2, p3, p4, p5, p6, p7, p8, p9
  <2>1. FormatM(i) = <<p1, p2, p3, p4, p5, p6, p7, p8, p9>>
    <3>1. Catenate(<<p1, p2, p3>>, <<p4>>, <<p1, p2, p3, p4>>)
      BY Tuples3And1
    <3>2. Catenate(<<p1, p2, p3, p4>>, <<p5, p6, p7, p8>>, <<p1, p2, p3, p4, p5, p6, p7, p8>>)
      BY Tuples4And4
    <3>3. Catenate(<<p1, p2, p3, p4, p5, p6, p7, p8>>, <<p9>>, <<p1, p2, p3, p4, p5, p6, p7, p8, p9>>)
      BY Tuples8And1
    <3>4. FormatM(i) = ((<<p1, p2, p3>> \o <<p4>>) \o <<p5, p6, p7, p8>>) \o <<p9>>
      BY <1>4, Zenon DEF FormatM, Head3, o, s, d, m, v, r, t, by, z, p1, p2, p3, p4, p5, p6, p7, p8, p9
    <3>. QED  BY <3>1, <3>2, <3>3, <3>4, Zenon DEF Catenate
  <2>. USE DEF p1, p2, p3, p4, p5, p6, p7, p8, p9
  <2>. DEFINE parts == <<p1, p2, p3, p4, p5, p6, p7, p8, p9>>
              E == <<6, 7, 12, 17, 18, 23, 25, 30, 32>>
              n == 9
              w == Join(parts)
  <2>2. parts \in Parts /\ EndsOf(E, parts) /\ n = Len(parts) /\ n \in Nat \ {0}
    BY <1>1, <1>4, Widths DEF Parts, EndsOf, Five
  <2>3. \A k \in 1 .. n : parts[k][2] \in 0 .. Pow2[parts[k][1]] - 1
    BY <1>1, <1>4, Widths DEF Five
  <2>4. /\ \A k \in 1 .. n : Field(w, E[n] - E[k], parts[k][1]) = parts[k][2]
        /\ \A k \in 1 .. n : parts[k][1] = 1 => (E[n] - E[k] \in w <=> parts[k][2] = 1)
        /\ \A k \in 1 .. n : parts[k][1] # 0 =>
              SignedField(w, E[n] - E[k], parts[k][1]) = SignedPart(parts[k][2], parts[k][1])
    <3>. HIDE DEF parts, E, n
    <3>. QED  BY <2>2, <2>3, PartsRead
  <2>5. Field(w, 2, 2) = by % 4
    <3>. DEFINE k == 8
                len == 2
    <3>1. k \in 1 .. n /\ parts[k][2] \in Nat /\ len \in Nat /\ len <= parts[k][1] /\ E[n] - E[k] = 2
          /\ parts[k][2] = by
      BY <1>1 DEF Five
    <3>. HIDE DEF parts, E, n, k
    <3>2. Field(w, E[n] - E[k], len) = by % Pow2[len]
      <4>. HIDE DEF len
      <4>. QED  BY <2>2, <3>1, PartFields
    <3>. QED  BY <3>1, <3>2, SmallPowers
  <2>. HIDE DEF w
  <2>6. /\ Field(w, 26, 6) = o
        /\ 25 \in w <=> s = 1
        /\ Field(w, 20, 5) = d
        /\ Field(w, 15, 5) = m
        /\ 14 \notin w
        /\ Field(w, 9, 5) = r
        /\ Field(w, 7, 2) = t
        /\ Field(w, 2, 5) = by
        /\ Field(w, 0, 2) = z
    BY <2>4
  <2>7. Encode(i) = w
    BY <1>2, <2>1 DEF w
  <2>. QED  BY <1>1, <1>4, <2>5, <2>6, <2>7 DEF MemoryIn, OperandIn, OpOf, SetsFlags, X1, X2, X3, Mode, o, s, d, m, v, r, t, by, z
<1>. QED  BY <1>3, <1>4

LEMMA EncodeSwap ==
    ASSUME NEW i \in Instructions, i.op \in Swaps
    PROVE  SwapIn(Encode(i), i)
<1>. DEFINE o == Opcode[i.op]
            s == Flag(i.s)
            d == i.d
            m == i.n
            r == i.m1
<1>1. /\ o \in 0 .. 63 /\ s \in {0, 1} /\ d \in Five /\ m \in Five /\ r \in Five
  <2>1. i \in [op : Swaps, s : BOOLEAN, d : Five, n : Five, m1 : Five]
    BY Kinds
  <2>. QED  BY <2>1, OpcodeRange, FlagFacts
<1>. HIDE DEF o, s, d, m, r
<1>2. Encode(i) = Join(FormatM1(i))
  BY DEF Encode, AluOps, Adders, Subbers, Logicals, Compares, Shifts, LongMuls, Moves, Loads, Stores, Swaps, Jumps,
         RegJumps
<1>. DEFINE p1 == <<6, o>>
            p2 == <<1, s>>
            p3 == <<5, d>>
            p4 == <<5, m>>
            p5 == <<1, 0>>
            p6 == <<5, r>>
            p7 == <<9, 0>>
<1>. HIDE DEF p1, p2, p3, p4, p5, p6, p7
<1>3. FormatM1(i) = <<p1, p2, p3, p4, p5, p6, p7>>
  <2>1. Catenate(<<p1, p2, p3>>, <<p4, p5, p6, p7>>, <<p1, p2, p3, p4, p5, p6, p7>>)
    BY Tuples3And4
  <2>2. FormatM1(i) = <<p1, p2, p3>> \o <<p4, p5, p6, p7>>
    BY Zenon DEF FormatM1, Head3, o, s, d, m, r, p1, p2, p3, p4, p5, p6, p7
  <2>. QED  BY <2>1, <2>2, Zenon DEF Catenate
<1>. USE DEF p1, p2, p3, p4, p5, p6, p7
<1>. DEFINE parts == <<p1, p2, p3, p4, p5, p6, p7>>
            E == <<6, 7, 12, 17, 18, 23, 32>>
            n == 7
            w == Join(parts)
<1>4. parts \in Parts /\ EndsOf(E, parts) /\ n = Len(parts) /\ n \in Nat \ {0}
  BY <1>1, Widths DEF Parts, EndsOf, Five
<1>5. \A k \in 1 .. n : parts[k][2] \in 0 .. Pow2[parts[k][1]] - 1
  BY <1>1, Widths DEF Five
<1>6. /\ \A k \in 1 .. n : Field(w, E[n] - E[k], parts[k][1]) = parts[k][2]
      /\ \A k \in 1 .. n : parts[k][1] = 1 => (E[n] - E[k] \in w <=> parts[k][2] = 1)
      /\ \A k \in 1 .. n : parts[k][1] # 0 =>
            SignedField(w, E[n] - E[k], parts[k][1]) = SignedPart(parts[k][2], parts[k][1])
  <2>. HIDE DEF parts, E, n
  <2>. QED  BY <1>4, <1>5, PartsRead, SMTT(30)
<1>. HIDE DEF w
<1>7. /\ Field(w, 26, 6) = o
      /\ 25 \in w <=> s = 1
      /\ Field(w, 20, 5) = d
      /\ Field(w, 15, 5) = m
      /\ Field(w, 9, 5) = r
  BY <1>6
<1>8. Encode(i) = w
  BY <1>2, <1>3 DEF w
<1>. QED  BY <1>1, <1>7, <1>8 DEF SwapIn, OpOf, X1, X2, X3, o, s, d, m, r

\* A field with a sign, of b bits: what becomes of a number on its way through it.
LEMMA SignedWay ==
    ASSUME NEW b \in Nat \ {0}, NEW v \in -Pow2[b - 1] .. Pow2[b] - 1
    PROVE  /\ v % Pow2[b] \in 0 .. Pow2[b] - 1
           /\ SignedPart(v % Pow2[b], b) = IF v < Pow2[b - 1] THEN v ELSE v - Pow2[b]
<1>. DEFINE q == Pow2[b - 1]
            p == Pow2[b]
<1>1. q \in Nat \ {0} /\ p = 2 * q
  <2>1. b - 1 \in Nat /\ (b - 1) + 1 = b
    OBVIOUS
  <2>. QED  BY <2>1, PowFacts
<1>. HIDE DEF q, p
<1>2. v \in Int /\ -q <= v /\ v <= p - 1
  BY <1>1 DEF q, p
<1>3. CASE v >= 0
  <2>1. v % p = v
    <3>1. v \in 0 .. p - 1 /\ p \in Nat \ {0}
      BY <1>1, <1>2, <1>3
    <3>. QED  BY <3>1, SmallMod
  <2>. QED  BY <1>1, <1>2, <1>3, <2>1 DEF SignedPart, q, p
<1>4. CASE v < 0
  <2>1. v % p = v + p
    <3>1. v = (-1) * p + (v + p) /\ v + p \in 0 .. p - 1 /\ p \in Nat \ {0} /\ -1 \in Int
      BY <1>1, <1>2, <1>4
    <3>. QED  BY <1>2, <3>1, ModUnique
  <2>2. v + p \in 0 .. p - 1 /\ ~(v + p < q) /\ v < q /\ (v + p) - p = v
    BY <1>1, <1>2, <1>4
  <2>. QED  BY <2>1, <2>2 DEF SignedPart, q, p
<1>. QED  BY <1>2, <1>3, <1>4

LEMMA CondFacts ==
    ASSUME NEW c \in Range(Conds)
    PROVE  CondCode(c) \in 0 .. 15 /\ Conds[CondCode(c) + 1] = c
<1>1. PICK k \in 1 .. 16 : Conds[k] = c
  <2>1. DOMAIN Conds = 1 .. 16
    BY DEF Conds
  <2>. QED  BY <2>1 DEF Range
<1>. DEFINE j == CHOOSE h \in 1 .. 16 : Conds[h] = c
<1>2. j \in 1 .. 16 /\ Conds[j] = c
  BY <1>1
<1>3. CondCode(c) = j - 1
  BY DEF CondCode
<1>. HIDE DEF j
<1>4. (j - 1) + 1 = j /\ j - 1 \in 0 .. 15
  BY <1>2
<1>. QED  BY <1>2, <1>3, <1>4

LEMMA EncodeAdrp ==
    ASSUME NEW i \in Instructions, i.op = "adrp"
    PROVE  AdrpIn(Encode(i), i)
<1>. DEFINE o == Opcode[i.op]
            s == Flag(i.s)
            d == i.d
            v == i.page
<1>1. /\ o \in 0 .. 63 /\ s \in {0, 1} /\ d \in Five /\ v \in 0 .. Pow2[20] - 1
  <2>1. i \in [op : {"adrp"}, s : BOOLEAN, d : Five, page : 0 .. Pow2[20] - 1]
    BY Kinds
  <2>. QED  BY <2>1, OpcodeRange, FlagFacts
<1>. HIDE DEF o, s, d, v
<1>2. Encode(i) = Join(FormatM2(i))
  BY DEF Encode, AluOps, Adders, Subbers, Logicals, Compares, Shifts, LongMuls, Moves, Loads, Stores, Swaps, Jumps,
         RegJumps
<1>. DEFINE p1 == <<6, o>>
            p2 == <<1, s>>
            p3 == <<5, d>>
            p4 == <<20, v>>
<1>. HIDE DEF p1, p2, p3, p4
<1>3. FormatM2(i) = <<p1, p2, p3, p4>>
  <2>1. Catenate(<<p1, p2, p3>>, <<p4>>, <<p1, p2, p3, p4>>)
    BY Tuples3And1
  <2>2. FormatM2(i) = <<p1, p2, p3>> \o <<p4>>
    BY Zenon DEF FormatM2, Head3, o, s, d, v, p1, p2, p3, p4
  <2>. QED  BY <2>1, <2>2, Zenon DEF Catenate
<1>. USE DEF p1, p2, p3, p4
<1>. DEFINE parts == <<p1, p2, p3, p4>>
            E == <<6, 7, 12, 32>>
            n == 4
            w == Join(parts)
<1>4. parts \in Parts /\ EndsOf(E, parts) /\ n = Len(parts) /\ n \in Nat \ {0}
  BY <1>1, Widths DEF Parts, EndsOf, Five
<1>5. \A k \in 1 .. n : parts[k][2] \in 0 .. Pow2[parts[k][1]] - 1
  BY <1>1, Widths DEF Five
<1>6. /\ \A k \in 1 .. n : Field(w, E[n] - E[k], parts[k][1]) = parts[k][2]
      /\ \A k \in 1 .. n : parts[k][1] = 1 => (E[n] - E[k] \in w <=> parts[k][2] = 1)
      /\ \A k \in 1 .. n : parts[k][1] # 0 =>
            SignedField(w, E[n] - E[k], parts[k][1]) = SignedPart(parts[k][2], parts[k][1])
  <2>. HIDE DEF parts, E, n
  <2>. QED  BY <1>4, <1>5, PartsRead, SMTT(30)
<1>. HIDE DEF w
<1>7. /\ Field(w, 26, 6) = o
      /\ Field(w, 20, 5) = d
      /\ Field(w, 0, 20) = v
  BY <1>6
<1>8. Encode(i) = w
  BY <1>2, <1>3 DEF w
<1>. QED  BY <1>1, <1>7, <1>8 DEF AdrpIn, OpOf, X1, o, s, d, v

LEMMA EncodeJump ==
    ASSUME NEW i \in Instructions, i.op \in Jumps \cup {"swi"}
    PROVE  JumpIn(Encode(i), i)
<1>. DEFINE o == Opcode[i.op]
            c == CondCode(i.cond)
            v == i.offset % Pow2[22]
<1>1. /\ o \in 0 .. 63 /\ c \in 0 .. 15 /\ v \in 0 .. Pow2[22] - 1
      /\ Conds[c + 1] = i.cond /\ SignedPart(v, 22) = i.offset
  <2>1. i \in [op : Jumps \cup {"swi"}, cond : Range(Conds), offset : -Pow2[21] .. Pow2[21] - 1]
    BY Kinds
  <2>2. c \in 0 .. 15 /\ Conds[c + 1] = i.cond
    BY <2>1, CondFacts
  <2>3. v \in 0 .. Pow2[22] - 1 /\ SignedPart(v, 22) = i.offset
    <3>. DEFINE b == 22
    <3>1. b \in Nat \ {0} /\ b - 1 = 21
      OBVIOUS
    <3>2. Pow2[21] \in Nat /\ Pow2[22] = 2 * Pow2[21]
      BY PowFacts
    <3>3. i.offset \in -Pow2[21] .. Pow2[22] - 1 /\ i.offset < Pow2[21]
      BY <2>1, <3>2
    <3>. HIDE DEF b
    <3>4. i.offset \in -Pow2[b - 1] .. Pow2[b] - 1 /\ i.offset < Pow2[b - 1]
      BY <3>1, <3>3 DEF b
    <3>5. i.offset % Pow2[b] \in 0 .. Pow2[b] - 1 /\ SignedPart(i.offset % Pow2[b], b) = i.offset
      BY <3>1, <3>4, SignedWay
    <3>. QED  BY <3>5 DEF b
  <2>. QED  BY <2>1, <2>2, <2>3, OpcodeRange
<1>. HIDE DEF o, c, v
<1>2. Encode(i) = Join(FormatB1(i))
  BY DEF Encode, AluOps, Adders, Subbers, Logicals, Compares, Shifts, LongMuls, Moves, Loads, Stores, Swaps, Jumps,
         RegJumps
<1>. DEFINE p1 == <<6, o>>
            p2 == <<4, c>>
            p3 == <<22, v>>
<1>. HIDE DEF p1, p2, p3
<1>3. FormatB1(i) = <<p1, p2, p3>>
  <2>1. FormatB1(i) = <<p1, p2, p3>>
    BY Zenon DEF FormatB1, o, c, v, p1, p2, p3
  <2>. QED  BY <2>1, Zenon DEF Catenate
<1>. USE DEF p1, p2, p3
<1>. DEFINE parts == <<p1, p2, p3>>
            E == <<6, 10, 32>>
            n == 3
            w == Join(parts)
<1>4. parts \in Parts /\ EndsOf(E, parts) /\ n = Len(parts) /\ n \in Nat \ {0}
  BY <1>1, Widths DEF Parts, EndsOf, Five
<1>5. \A k \in 1 .. n : parts[k][2] \in 0 .. Pow2[parts[k][1]] - 1
  BY <1>1, Widths DEF Five
<1>6. /\ \A k \in 1 .. n : Field(w, E[n] - E[k], parts[k][1]) = parts[k][2]
      /\ \A k \in 1 .. n : parts[k][1] = 1 => (E[n] - E[k] \in w <=> parts[k][2] = 1)
      /\ \A k \in 1 .. n : parts[k][1] # 0 =>
            SignedField(w, E[n] - E[k], parts[k][1]) = SignedPart(parts[k][2], parts[k][1])
  <2>. HIDE DEF parts, E, n
  <2>. QED  BY <1>4, <1>5, PartsRead, SMTT(30)
<1>. HIDE DEF w
<1>7. /\ Field(w, 26, 6) = o
      /\ Field(w, 22, 4) = c
      /\ SignedField(w, 0, 22) = SignedPart(v, 22)
  BY <1>6
<1>8. Encode(i) = w
  BY <1>2, <1>3 DEF w
<1>. QED  BY <1>1, <1>7, <1>8 DEF JumpIn, OpOf, CondOf, o, c, v

LEMMA EncodeRegJump ==
    ASSUME NEW i \in Instructions, i.op \in RegJumps
    PROVE  RegJumpIn(Encode(i), i)
<1>. DEFINE o == Opcode[i.op]
            c == CondCode(i.cond)
            d == i.d
<1>1. /\ o \in 0 .. 63 /\ c \in 0 .. 15 /\ d \in Five /\ Conds[c + 1] = i.cond
  <2>1. i \in [op : RegJumps, cond : Range(Conds), d : Five]
    BY Kinds
  <2>2. c \in 0 .. 15 /\ Conds[c + 1] = i.cond
    BY <2>1, CondFacts
  <2>. QED  BY <2>1, <2>2, OpcodeRange
<1>. HIDE DEF o, c, d
<1>2. Encode(i) = Join(FormatB2(i))
  BY DEF Encode, AluOps, Adders, Subbers, Logicals, Compares, Shifts, LongMuls, Moves, Loads, Stores, Swaps, Jumps,
         RegJumps
<1>. DEFINE p1 == <<6, o>>
            p2 == <<4, c>>
            p3 == <<5, d>>
            p4 == <<17, 0>>
<1>. HIDE DEF p1, p2, p3, p4
<1>3. FormatB2(i) = <<p1, p2, p3, p4>>
  <2>1. FormatB2(i) = <<p1, p2, p3, p4>>
    BY Zenon DEF FormatB2, o, c, d, p1, p2, p3, p4
  <2>. QED  BY <2>1, Zenon DEF Catenate
<1>. USE DEF p1, p2, p3, p4
<1>. DEFINE parts == <<p1, p2, p3, p4>>
            E == <<6, 10, 15, 32>>
            n == 4
            w == Join(parts)
<1>4. parts \in Parts /\ EndsOf(E, parts) /\ n = Len(parts) /\ n \in Nat \ {0}
  BY <1>1, Widths DEF Parts, EndsOf, Five
<1>5. \A k \in 1 .. n : parts[k][2] \in 0 .. Pow2[parts[k][1]] - 1
  BY <1>1, Widths DEF Five
<1>6. /\ \A k \in 1 .. n : Field(w, E[n] - E[k], parts[k][1]) = parts[k][2]
      /\ \A k \in 1 .. n : parts[k][1] = 1 => (E[n] - E[k] \in w <=> parts[k][2] = 1)
      /\ \A k \in 1 .. n : parts[k][1] # 0 =>
            SignedField(w, E[n] - E[k], parts[k][1]) = SignedPart(parts[k][2], parts[k][1])
  <2>. HIDE DEF parts, E, n
  <2>. QED  BY <1>4, <1>5, PartsRead, SMTT(30)
<1>. HIDE DEF w
<1>7. /\ Field(w, 26, 6) = o
      /\ Field(w, 22, 4) = c
      /\ Field(w, 17, 5) = d
  BY <1>6
<1>8. Encode(i) = w
  BY <1>2, <1>3 DEF w
<1>. QED  BY <1>1, <1>7, <1>8 DEF RegJumpIn, OpOf, CondOf, o, c, d

LEMMA EncodeBare ==
    ASSUME NEW i \in Instructions, i.op \in {"hlt", "nop"}
    PROVE  BareIn(Encode(i), i)
<1>. DEFINE o == Opcode[i.op]
<1>1. o \in 0 .. 63
  BY OpcodeRange
<1>. HIDE DEF o
<1>2. Encode(i) = Join(Bare(i))
  BY DEF Encode, AluOps, Adders, Subbers, Logicals, Compares, Shifts, LongMuls, Moves, Loads, Stores, Swaps, Jumps,
         RegJumps
<1>. DEFINE p1 == <<6, o>>
            p2 == <<26, 0>>
<1>. HIDE DEF p1, p2
<1>3. Bare(i) = <<p1, p2>>
  <2>1. Bare(i) = <<p1, p2>>
    BY Zenon DEF Bare, o, p1, p2
  <2>. QED  BY <2>1, Zenon DEF Catenate
<1>. USE DEF p1, p2
<1>. DEFINE parts == <<p1, p2>>
            E == <<6, 32>>
            n == 2
            w == Join(parts)
<1>4. parts \in Parts /\ EndsOf(E, parts) /\ n = Len(parts) /\ n \in Nat \ {0}
  BY <1>1, Widths DEF Parts, EndsOf, Five
<1>5. \A k \in 1 .. n : parts[k][2] \in 0 .. Pow2[parts[k][1]] - 1
  BY <1>1, Widths DEF Five
<1>6. /\ \A k \in 1 .. n : Field(w, E[n] - E[k], parts[k][1]) = parts[k][2]
      /\ \A k \in 1 .. n : parts[k][1] = 1 => (E[n] - E[k] \in w <=> parts[k][2] = 1)
      /\ \A k \in 1 .. n : parts[k][1] # 0 =>
            SignedField(w, E[n] - E[k], parts[k][1]) = SignedPart(parts[k][2], parts[k][1])
  <2>. HIDE DEF parts, E, n
  <2>. QED  BY <1>4, <1>5, PartsRead, SMTT(30)
<1>. HIDE DEF w
<1>7. /\ Field(w, 26, 6) = o
  BY <1>6
<1>8. Encode(i) = w
  BY <1>2, <1>3 DEF w
<1>. QED  BY <1>1, <1>7, <1>8 DEF BareIn, OpOf, o

\* Format O3 with a register is a bit short: the opcodes of the moves, 34 and 35, are read
\* as 17.
LEMMA WordShort ==
    ASSUME NEW o \in {34, 35}, NEW s \in {0, 1}, NEW d \in Five, NEW r \in Five, NEW v \in Int
    PROVE  OpOf(Join(<<<<6, o>>, <<1, s>>, <<5, d>>, <<5, r>>, <<14, v>>>>)) = 17
<1>. DEFINE parts == <<<<6, o>>, <<1, s>>, <<5, d>>, <<5, r>>, <<14, v>>>>
            E == <<6, 7, 12, 17, 31>>
            w == Join(parts)
            n == 5
<1>1. parts \in Parts /\ EndsOf(E, parts) /\ n = Len(parts) /\ n \in Nat \ {0}
  BY Widths DEF Parts, EndsOf, Five
<1>2. Laid(w, E, parts, n)
  <2>. HIDE DEF parts, E, n
  <2>. QED  BY <1>1, JoinLayout
<1>. HIDE DEF w
<1>3. \A j \in 0 .. 5 : 25 + j \in w <=> j \in BitsOf(o, 6)
  BY <1>2 DEF Laid
<1>4. 31 \notin w
  BY <1>2 DEF Laid
<1>5. \A j \in 0 .. 5 : 26 + j \in w <=> j = 0 \/ j = 4
  <2>1. Pow2[1] = 2 /\ Pow2[2] = 4 /\ Pow2[3] = 8 /\ Pow2[4] = 16 /\ Pow2[5] = 32
    BY SmallPowers
  <2>2. \A j \in 1 .. 5 : j \in BitsOf(o, 6) <=> (o \div Pow2[j]) % 2 = 1
    BY DEF BitsOf
  <2>3. /\ 1 \in BitsOf(o, 6) /\ 2 \notin BitsOf(o, 6) /\ 3 \notin BitsOf(o, 6)
        /\ 4 \notin BitsOf(o, 6) /\ 5 \in BitsOf(o, 6)
    BY <2>1, <2>2
  <2>4. /\ 25 + 1 \in w /\ 25 + 2 \notin w /\ 25 + 3 \notin w /\ 25 + 4 \notin w /\ 25 + 5 \in w
    BY <1>3, <2>3
  <2>. QED  BY <1>4, <2>4
<1>6. {j \in 0 .. 6 - 1 : 26 + j \in w} = {0, 4}
  BY <1>5
<1>7. ValueOf({0, 4}) = 17
  <2>1. {0, 4} \in SUBSET (0 .. 6 - 1) /\ {4} \in SUBSET (0 .. 6 - 1) /\ {} \in SUBSET (0 .. 6 - 1)
    OBVIOUS
  <2>2. {0, 4} \ {0} = {4} /\ {4} \ {4} = {} /\ 6 \in Nat
    OBVIOUS
  <2>3. ValueOf({0, 4}) = Pow2[0] + ValueOf({4}) /\ ValueOf({4}) = Pow2[4] + ValueOf({})
    <3>0. \A n6 \in Nat : \A t \in SUBSET (0 .. n6 - 1) : \A e \in t : ValueOf(t) = Pow2[e] + ValueOf(t \ {e})
      BY ValueFacts, Zenon
    <3>1. \A e \in {0, 4} : ValueOf({0, 4}) = Pow2[e] + ValueOf({0, 4} \ {e})
      BY <2>1, <2>2, <3>0, Zenon
    <3>2. \A e \in {4} : ValueOf({4}) = Pow2[e] + ValueOf({4} \ {e})
      BY <2>1, <2>2, <3>0, Zenon
    <3>. QED  BY <2>2, <3>1, <3>2, Zenon
  <2>4. ValueOf({}) = 0
    BY <2>1, <2>2, ValueFacts
  <2>. QED  BY <2>3, <2>4, Widths
<1>. QED  BY <1>6, <1>7 DEF OpOf, Field, w

LEMMA EncodeShort ==
    ASSUME NEW i \in Instructions, i.op \in Moves, ~i.arg.imm
    PROVE  MoveIn(Encode(i), i)
<1>. DEFINE p1 == <<6, Opcode[i.op]>>
            p2 == <<1, Flag(i.s)>>
            p3 == <<5, i.d>>
            p4 == <<5, i.arg.m>>
            p5 == <<14, i.arg.val>>
<1>. HIDE DEF p1, p2, p3, p4, p5
<1>1. i \in [op : Moves, s : BOOLEAN, d : Five, arg : AnyOperand(0 .. Pow2[14] - 1)]
  BY Kinds
<1>2. Opcode[i.op] \in {34, 35}
  BY DEF Moves, Opcode
<1>3. Flag(i.s) \in {0, 1} /\ i.d \in Five
  BY <1>1, FlagFacts
<1>4. i.arg.m \in Five /\ i.arg.val \in Int
  <2>. DEFINE S == 0 .. Pow2[14] - 1
  <2>1. Pow2[14] \in Nat /\ i.arg \in AnyOperand(S)
    BY <1>1, PowFacts
  <2>2. \A u \in S : u \in Int
    BY <2>1
  <2>. HIDE DEF S
  <2>. QED  BY <2>1, <2>2, OperandFacts
<1>5. Encode(i) = Join(FormatO3(i))
  BY DEF Encode, AluOps, Adders, Subbers, Logicals, Compares, Shifts, LongMuls, Moves, Loads, Stores, Swaps, Jumps,
         RegJumps
<1>6. FormatO3(i) = <<p1, p2, p3>> \o <<p4, p5>>
  BY Zenon DEF FormatO3, Head3, p1, p2, p3, p4, p5
<1>7. Catenate(<<p1, p2, p3>>, <<p4, p5>>, <<p1, p2, p3, p4, p5>>)
  BY Tuples3And2
<1>8. Encode(i) = Join(<<p1, p2, p3, p4, p5>>)
  BY <1>5, <1>6, <1>7, Zenon DEF Catenate
<1>9. OpOf(Join(<<p1, p2, p3, p4, p5>>)) = 17
  BY <1>2, <1>3, <1>4, WordShort, Zenon DEF p1, p2, p3, p4, p5
<1>. QED  BY <1>8, <1>9 DEF MoveIn

(* Every instruction the assembler makes is read back by the processor as it was written:
   Encode joins the fields of its format, and the processor's own shifts and masks find each
   of them again.  A move from a register is the exception, whose word is one bit short, so
   that its opcode is read as 17. *)
THEOREM EncodingIsRead ==
    \A i \in Instructions :
      /\ i.op \in AluOps => AluIn(Encode(i), i)
      /\ i.op \in Shifts => ShiftIn(Encode(i), i)
      /\ i.op \in LongMuls => LongMulIn(Encode(i), i)
      /\ i.op \in Moves => MoveIn(Encode(i), i)
      /\ i.op \in Loads \cup Stores => MemoryIn(Encode(i), i)
      /\ i.op \in Swaps => SwapIn(Encode(i), i)
      /\ i.op = "adrp" => AdrpIn(Encode(i), i)
      /\ i.op \in Jumps \cup {"swi"} => JumpIn(Encode(i), i)
      /\ i.op \in RegJumps => RegJumpIn(Encode(i), i)
      /\ i.op \in {"hlt", "nop"} => BareIn(Encode(i), i)
BY EncodeAlu, EncodeShift, EncodeLongMul, EncodeMove, EncodeShort, EncodeMemory, EncodeSwap, EncodeAdrp, EncodeJump,
   EncodeRegJump, EncodeBare

-----------------------------------------------------------------------------
(* The processor implements ISA. *)

\* ISA speaks of words with operators of its own, which are the same.
LEMMA SameWords ==
    /\ Abstract!Pow2 = Pow2 /\ Abstract!Modulus = Modulus /\ Abstract!ByteBits = ByteBits
    /\ Abstract!Words = Words
    /\ \A v : Abstract!Signed(v) = Signed(v)
    /\ \A f, S : Abstract!Total(f, S) = Total(f, S)
    /\ \A bits : Abstract!ValueOf(bits) = ValueOf(bits)
<1>1. Abstract!Pow2 = Pow2
  BY DEF Abstract!Pow2, Pow2
<1>2. Abstract!Modulus = Modulus
  BY <1>1 DEF Abstract!Modulus, Modulus
<1>3. Abstract!ByteBits = ByteBits
  BY DEF Abstract!ByteBits, ByteBits
<1>4. Abstract!Words = Words
  BY <1>2 DEF Abstract!Words, Words
<1>5. \A v : Abstract!Signed(v) = Signed(v)
  BY <1>2 DEF Abstract!Signed, Signed, Abstract!Top, Top
<1>6. \A f, S : Abstract!Total(f, S) = Total(f, S)
  BY DEF Abstract!Total, Total, Abstract!MapThenSumSet, MapThenSumSet, Abstract!MapThenFoldSet, MapThenFoldSet
<1>7. \A bits : Abstract!ValueOf(bits) = ValueOf(bits)
  BY <1>1, <1>6 DEF Abstract!ValueOf, ValueOf
<1>. QED  BY <1>1, <1>2, <1>3, <1>4, <1>5, <1>6, <1>7

LEMMA SameNames == Abstract!XZR = XZR /\ Abstract!LINKR = LINKR /\ Abstract!NR = NR
BY DEF Abstract!XZR, XZR, Abstract!LINKR, LINKR, Abstract!NR, NR

\* The registers of ISA: what programs read in those of the processor.
Seen(xs) == [r \in Regs |-> ReadFrom(xs, r)]

LEMMA SeenReads == \A r : Abstract!Reads(r) = ReadReg(r)
<1>. SUFFICES ASSUME NEW r PROVE Abstract!Reads(r) = ReadReg(r)
  OBVIOUS
<1>1. CASE r \in Regs  BY <1>1 DEF Abstract!Reads
<1>2. CASE r \notin Regs  BY <1>2 DEF Abstract!Reads, ReadReg, ReadFrom
<1>. QED  BY <1>1, <1>2

\* A write to a register, seen by programs: none to the zero register.
LEMMA SeenWrite ==
    ASSUME NEW xs, RegisterFile(xs), NEW r, NEW v \in Int
    PROVE  Seen(WriteReg(xs, r, Wrap(v))) = Abstract!Put(Seen(xs), r, v)
<1>. DEFINE ys == WriteReg(xs, r, Wrap(v))
<1>1. Wrap(v) \in Words /\ Wrap(v) = v % Abstract!Modulus
  BY WrapFacts, SameWords DEF Wrap
<1>2. RegisterFile(ys)
  BY <1>1, WriteKeepsFile
<1>3. \A s \in Regs : ReadFrom(xs, s) = IF s = XZR THEN 0 ELSE xs[s].val
  BY ReadOfFile
<1>4. \A s \in Regs : ReadFrom(ys, s) = IF s = XZR THEN 0 ELSE ys[s].val
  <2>. HIDE DEF ys
  <2>. QED  BY <1>2, ReadOfFile
<1>5. \A s \in Regs : ys[s].val = IF s = r THEN Wrap(v) ELSE xs[s].val
  BY DEF RegisterFile, WriteReg
<1>. HIDE DEF ys
<1>6. CASE r = XZR
  <2>1. \A s \in Regs : ReadFrom(ys, s) = ReadFrom(xs, s)
    BY <1>3, <1>4, <1>5, <1>6
  <2>2. Seen(ys) = Seen(xs)
    BY <2>1 DEF Seen
  <2>. QED  BY <1>6, <2>2, SameNames DEF Abstract!Put, ys
<1>7. CASE r # XZR
  <2>1. \A s \in Regs : ReadFrom(ys, s) = IF s = r THEN Wrap(v) ELSE ReadFrom(xs, s)
    BY <1>3, <1>4, <1>5, <1>7
  <2>2. Seen(ys) = [Seen(xs) EXCEPT ![r] = Wrap(v)]
    BY <2>1 DEF Seen
  <2>. QED  BY <1>1, <1>7, <2>2, SameNames DEF Abstract!Put, ys
<1>. QED  BY <1>6, <1>7

\* The registers through which CPU refers to ISA.
LEMMA Shown == [r \in Regs |-> ReadReg(r)] = Seen(x)
BY DEF Seen, ReadReg

\* What a turn of ISA makes of the machine, for an instruction that comes to outcome o.
Comes(o) ==
    /\ Seen(x') = o.x /\ mem' = o.mem /\ flags' = o.flags
    /\ pc' = o.pc % Modulus
    /\ left' = IF o.ends = "no" /\ left > 0 THEN left - 1 ELSE left
    /\ status' = IF o.ends # "no" THEN o.ends
                 ELSE IF left = 1 THEN "counted" ELSE "running"

\* A processor that works keeps what the proofs need of it.
Working == TypeOK /\ Running /\ left # 0

\* The counting of turns agrees, since a run never waits with nothing left to run.
LEMMA NextComes ==
    ASSUME Working, NEW at \in Int, Next4(at),
           NEW xx, NEW m, NEW f, Seen(x') = xx, mem' = m, flags' = f
    PROVE  Comes(Abstract!Outcome(xx, m, f, at + 4, "no"))
<1>1. left \in {-1} \cup 0 .. MaxRun /\ MaxRun \in Nat /\ left # 0
  BY CpuAssumption DEF Working, TypeOK, Forever
<1>2. left' = IF left > 0 THEN left - 1 ELSE left
  BY <1>1 DEF Next4, Forever
<1>3. status' = IF left = 1 THEN "counted" ELSE "running"
  BY <1>1 DEF Next4, Forever
<1>4. pc' = (at + 4) % Modulus
  BY DEF Next4, Wrap
<1>. QED  BY <1>2, <1>3, <1>4 DEF Comes, Abstract!Outcome

LEMMA DoesComes ==
    ASSUME Working, Next4(pc), NEW xx, NEW m, NEW f, Seen(x') = xx, mem' = m, flags' = f
    PROVE  Comes(Abstract!Does(xx, m, f))
<1>1. pc \in Int
  BY FieldsAreNumbers DEF Working
<1>. QED  BY <1>1, NextComes DEF Abstract!Does

LEMMA ThrowComes ==
    ASSUME Working, NEW why, why # "no", Throw(why),
           NEW xx, NEW m, NEW f, Seen(x') = xx, mem' = m, flags' = f
    PROVE  Comes(Abstract!Outcome(xx, m, f, pc, why))
<1>1. pc' = pc % Modulus
  BY WrapFacts DEF Throw, Working, TypeOK, Wrap
<1>2. left' = left /\ status' = why
  BY DEF Throw
<1>. QED  BY <1>1, <1>2 DEF Comes, Abstract!Outcome

LEMMA SameComes ==
    ASSUME Working, UNCHANGED Data
    PROVE  /\ Next4(pc) => Comes(Abstract!Same)
           /\ \A why : why # "no" /\ Throw(why) => Comes(Abstract!Ends(why))
<1>1. Seen(x') = Seen(x) /\ mem' = mem /\ flags' = flags
  BY DEF Data
<1>2. ASSUME Next4(pc) PROVE Comes(Abstract!Same)
  <2>1. Comes(Abstract!Does(Seen(x), mem, flags))
    BY <1>1, <1>2, DoesComes
  <2>. QED  BY <2>1, Shown DEF Abstract!Same
<1>3. ASSUME NEW why, why # "no", Throw(why) PROVE Comes(Abstract!Ends(why))
  <2>1. Comes(Abstract!Outcome(Seen(x), mem, flags, pc, why))
    BY <1>1, <1>3, ThrowComes
  <2>. QED  BY <2>1, Shown DEF Abstract!Ends
<1>. QED  BY <1>2, <1>3

\* A register set to what is left of a number in a word.
LEMMA SetComes ==
    ASSUME TypeOK, NEW r, NEW v \in Int, Set(r, Wrap(v))
    PROVE  Seen(x') = Abstract!Put(Seen(x), r, v)
<1>1. RegisterFile(x) /\ x' = WriteReg(x, r, Wrap(v))
  BY TypedFile DEF Set
<1>. QED  BY <1>1, SeenWrite

-----------------------------------------------------------------------------
(* Operands. *)

LEMMA ArgComes ==
    ASSUME TypeOK, NEW w, NEW S, S \subseteq Int, NEW a \in AnyOperand(S), OperandIn(w, a),
           NEW arg \in GetArg(w)
    PROVE  arg \in Abstract!Args(a)
<1>. DEFINE v == ReadReg(a.m)
            by == a.by % 4
<1>1. v \in Words /\ a.sh \in Shifts /\ a.by \in 0 .. 31 /\ a.imm \in BOOLEAN /\ Modulus \in Nat \ {0}
  BY ReadsAreWords, OperandFacts, ModulusFacts DEF Five
<1>2. by \in 0 .. 3 /\ Modulus = Abstract!Modulus /\ Pow2 = Abstract!Pow2
  BY <1>1, SameWords
<1>3. Abstract!Reads(a.m) = v
  BY SeenReads
<1>4. CASE a.imm
  BY <1>2, <1>4 DEF OperandIn, GetArg, Abstract!Args, Wrap
<1>5. CASE ~a.imm
  <2>1. arg \in CalcShift(v, ShiftType[a.sh], by)
    BY <1>5 DEF OperandIn, GetArg
  <2>2. Abstract!Args(a) = {Abstract!ShiftedBy(v, a.sh, by) % Modulus}
                             \cup (IF a.sh = "ror" /\ by = 0 THEN {0} ELSE {})
    BY <1>2, <1>3, <1>5 DEF Abstract!Args
  <2>. HIDE DEF v, by
  <2>3. \A u \in Words : u % Modulus = u
    BY WrapFacts DEF Wrap
  <2>4. CASE a.sh = "lsl"
    <3>1. arg = LeftBy(v, by)
      BY <2>1, <2>4 DEF CalcShift, ShiftType
    <3>. QED  BY <1>2, <2>2, <2>4, <3>1 DEF Abstract!ShiftedBy, LeftBy, Wrap
  <2>5. CASE a.sh = "lsr"
    <3>1. arg = RightBy(v, by)
      BY <2>1, <2>5 DEF CalcShift, ShiftType
    <3>2. RightBy(v, by) \in Words
      BY <1>1, <1>2, DivPowFacts
    <3>3. Abstract!ShiftedBy(v, a.sh, by) = RightBy(v, by)
      BY <1>2, <2>5 DEF Abstract!ShiftedBy, RightBy
    <3>. QED  BY <2>2, <2>3, <3>1, <3>2, <3>3
  <2>6. CASE a.sh = "asr"
    <3>1. arg = SignedRightBy(v, by)
      BY <2>1, <2>6 DEF CalcShift, ShiftType
    <3>2. Abstract!ShiftedBy(v, a.sh, by) = Signed(v) \div Pow2[by]
      BY <1>2, <2>6, SameWords DEF Abstract!ShiftedBy
    <3>. QED  BY <2>2, <3>1, <3>2 DEF SignedRightBy, Wrap
  <2>7. CASE a.sh = "ror"
    <3>. DEFINE u == (v \div Pow2[by]) + (v % Pow2[by]) * Pow2[WordBits - by]
    <3>1. by \in Nat /\ by <= WordBits
      BY <1>2, ModulusFacts
    <3>2. Or(RightBy(v, by), LeftBy(v, WordBits - by)) = u /\ u \in Words
      BY <1>1, <3>1, RotateFacts
    <3>3. Abstract!ShiftedBy(v, a.sh, by) = u
      BY <1>2, <2>7 DEF Abstract!ShiftedBy
    <3>4. arg \in IF by = 0 THEN {v, 0} ELSE {u}
      BY <2>1, <2>7, <3>2 DEF CalcShift, ShiftType
    <3>5. by = 0 => u = v
      <4>1. Pow2[0] = 1 /\ v \in Int /\ Pow2[WordBits - 0] \in Int
        <5>1. WordBits - 0 \in Nat
          BY ModulusFacts
        <5>2. v \in Int
          BY <1>1, ModulusFacts
        <5>. QED  BY <5>1, <5>2, PowFacts
      <4>2. v \div 1 = v /\ v % 1 = 0
        BY <4>1
      <4>. QED  BY <4>1, <4>2
    <3>. HIDE DEF u
    <3>. QED  BY <2>2, <2>3, <2>7, <3>2, <3>3, <3>4, <3>5
  <2>. QED  BY <1>1, <2>4, <2>5, <2>6, <2>7 DEF Shifts
<1>. QED  BY <1>4, <1>5

-----------------------------------------------------------------------------
(* Flags. *)

LEMMA SameTruth == \A p, q \in BOOLEAN : (p <=> q) => p = q
OBVIOUS

\* The sign bit of the word a number becomes.
LEMMA SignBits ==
    ASSUME NEW v \in Int
    PROVE  /\ Abstract!Negative(v) = Top(Wrap(v))
           /\ Abstract!Negative(v) \in BOOLEAN /\ Top(Wrap(v)) \in BOOLEAN
<1>. DEFINE u == Wrap(v)
<1>1. u \in 0 .. Modulus - 1 /\ Modulus \in Nat
  BY WrapFacts, ModulusFacts
<1>2. Abstract!Negative(v) = (Signed(u) < 0)
  BY SameWords DEF Abstract!Negative, Wrap
<1>. HIDE DEF u
<1>3. Signed(u) < 0 <=> Top(u)
  BY <1>1, ModulusFacts DEF Signed, Top
<1>4. Top(u) \in BOOLEAN /\ (Signed(u) < 0) \in BOOLEAN
  BY DEF Top
<1>5. (Signed(u) < 0) = Top(u)
  BY <1>3, <1>4, SameTruth
<1>. QED  BY <1>2, <1>4, <1>5 DEF u

LEMMA MarkedComes ==
    ASSUME NEW v \in Int
    PROVE  NZ(Wrap(v)) = Abstract!Marked(v)
<1>1. Wrap(v) = v % Abstract!Modulus
  BY SameWords DEF Wrap
<1>. QED  BY <1>1, SignBits, Zenon DEF NZ, Abstract!Marked

\* Wrap on the sums and differences of two words and a carry.
LEMMA WrapNear ==
    ASSUME NEW v \in Int, -Modulus <= v, v < 2 * Modulus
    PROVE  Wrap(v) = IF v < 0 THEN v + Modulus ELSE IF v < Modulus THEN v ELSE v - Modulus
<1>1. Modulus \in Nat
  BY ModulusFacts
<1>2. CASE v < 0
  BY <1>2, WrapFacts
<1>3. CASE 0 <= v /\ v < Modulus
  <2>1. v \in Words
    BY <1>1, <1>3, ModulusFacts
  <2>. QED  BY <1>1, <1>3, <2>1, WrapFacts
<1>4. CASE Modulus <= v
  BY <1>1, <1>4, WrapFacts
<1>. QED  BY <1>1, <1>2, <1>3, <1>4

\* The carry and the overflow of two words added, as numbers.
LEMMA SumBits ==
    ASSUME NEW a \in Words, NEW b \in Words
    PROVE  /\ CFlagAdd(a, b) <=> a + b >= Modulus
           /\ VFlagAdd(a, b) <=> ~Abstract!Fits(Signed(a) + Signed(b))
           /\ ~VFlagAdd(a, b) => Signed(Wrap(a + b)) = Signed(a) + Signed(b)
<1>. DEFINE h == Pow2[WordBits - 1]
            u == Wrap(a + b)
<1>1. h \in Nat \ {0} /\ Modulus = 2 * h /\ Modulus \div 2 = h
  BY ModulusFacts
<1>. HIDE DEF h
<1>2. a \in 0 .. 2 * h - 1 /\ b \in 0 .. 2 * h - 1
  BY <1>1, ModulusFacts
<1>3. \A v : Top(v) = (v >= h)
  BY <1>1 DEF Top
<1>4. u = IF a + b < 2 * h THEN a + b ELSE a + b - 2 * h
  <2>1. a + b \in Int /\ -Modulus <= a + b /\ a + b < 2 * Modulus /\ ~(a + b < 0)
    BY <1>1, <1>2
  <2>. DEFINE t == a + b
  <2>. HIDE DEF t
  <2>2. Wrap(t) = IF t < 0 THEN t + Modulus ELSE IF t < Modulus THEN t ELSE t - Modulus
    BY <2>1, WrapNear DEF t
  <2>3. u = IF a + b < 0 THEN a + b + Modulus ELSE IF a + b < Modulus THEN a + b ELSE (a + b) - Modulus
    BY <2>2, Zenon DEF t
  <2>. HIDE DEF u
  <2>. QED  BY <1>1, <1>2, <2>1, <2>3
<1>5. CFlagAdd(a, b) <=> u < a
  BY DEF CFlagAdd
<1>6. VFlagAdd(a, b) <=> Top(a) = Top(b) /\ Top(a) # Top(u)
  BY DEF VFlagAdd
<1>. HIDE DEF u
<1>7. /\ Signed(a) = IF a >= h THEN a - 2 * h ELSE a
      /\ Signed(b) = IF b >= h THEN b - 2 * h ELSE b
      /\ Signed(u) = IF u >= h THEN u - 2 * h ELSE u
  BY <1>1, <1>3 DEF Signed
<1>8. VFlagAdd(a, b) <=> (a >= h) = (b >= h) /\ (a >= h) # (u >= h)
  BY <1>3, <1>6
<1>9. CFlagAdd(a, b) <=> a + b >= Modulus
  BY <1>1, <1>2, <1>4, <1>5
<1>10. Abstract!Fits(Signed(a) + Signed(b)) <=>
          -(2 * h) <= 2 * (Signed(a) + Signed(b)) /\ 2 * (Signed(a) + Signed(b)) < 2 * h
  BY <1>1, SameWords DEF Abstract!Fits
<1>11. VFlagAdd(a, b) <=> ~Abstract!Fits(Signed(a) + Signed(b))
  BY <1>1, <1>2, <1>4, <1>7, <1>8, <1>10
<1>12. ~VFlagAdd(a, b) => Signed(u) = Signed(a) + Signed(b)
  BY <1>1, <1>2, <1>4, <1>7, <1>8
<1>. QED  BY <1>9, <1>11, <1>12 DEF u

\* The same of two words subtracted.
LEMMA DifferenceBits ==
    ASSUME NEW a \in Words, NEW b \in Words
    PROVE  /\ CFlagSub(a, b) <=> a < b
           /\ VFlagSub(a, b) <=> ~Abstract!Fits(Signed(a) - Signed(b))
           /\ ~VFlagSub(a, b) => Signed(Wrap(a - b)) = Signed(a) - Signed(b)
<1>. DEFINE h == Pow2[WordBits - 1]
            u == Wrap(a - b)
<1>1. h \in Nat \ {0} /\ Modulus = 2 * h /\ Modulus \div 2 = h
  BY ModulusFacts
<1>. HIDE DEF h
<1>2. a \in 0 .. 2 * h - 1 /\ b \in 0 .. 2 * h - 1
  BY <1>1, ModulusFacts
<1>3. \A v : Top(v) = (v >= h)
  BY <1>1 DEF Top
<1>4. u = IF a - b < 0 THEN a - b + 2 * h ELSE a - b
  <2>1. a - b \in Int /\ -Modulus <= a - b /\ a - b < 2 * Modulus /\ a - b < Modulus
    BY <1>1, <1>2
  <2>. QED  BY <1>1, <2>1, WrapNear
<1>5. CFlagSub(a, b) <=> \/ ~Top(a) /\ Top(b)
                         \/ Top(u) /\ (~Top(a) \/ Top(b))
  BY DEF CFlagSub
<1>6. VFlagSub(a, b) <=> Top(a) # Top(b) /\ Top(a) # Top(u)
  BY DEF VFlagSub
<1>. HIDE DEF u
<1>7. /\ Signed(a) = IF a >= h THEN a - 2 * h ELSE a
      /\ Signed(b) = IF b >= h THEN b - 2 * h ELSE b
      /\ Signed(u) = IF u >= h THEN u - 2 * h ELSE u
  BY <1>1, <1>3 DEF Signed
<1>8. VFlagSub(a, b) <=> (a >= h) # (b >= h) /\ (a >= h) # (u >= h)
  BY <1>3, <1>6
<1>9. CFlagSub(a, b) <=> a < b
  <2>1. CFlagSub(a, b) <=> \/ ~(a >= h) /\ b >= h
                           \/ u >= h /\ (~(a >= h) \/ b >= h)
    BY <1>3, <1>5, Zenon
  <2>. QED  BY <1>1, <1>2, <1>4, <2>1
<1>10. Abstract!Fits(Signed(a) - Signed(b)) <=>
          -(2 * h) <= 2 * (Signed(a) - Signed(b)) /\ 2 * (Signed(a) - Signed(b)) < 2 * h
  BY <1>1, SameWords DEF Abstract!Fits
<1>11. VFlagSub(a, b) <=> ~Abstract!Fits(Signed(a) - Signed(b))
  BY <1>1, <1>2, <1>4, <1>7, <1>8, <1>10
<1>12. ~VFlagSub(a, b) => Signed(u) = Signed(a) - Signed(b)
  BY <1>1, <1>2, <1>4, <1>7, <1>8
<1>. QED  BY <1>9, <1>11, <1>12 DEF u

LEMMA SmallWords ==
    \A c \in {0, 1} : c \in Words /\ Signed(c) = c
<1>1. 0 \in Words /\ 1 \in Words /\ ~Top(0) /\ ~Top(1)
  BY ModulusFacts DEF Top
<1>. QED  BY <1>1 DEF Signed

LEMMA SumFlagsCome ==
    ASSUME NEW l \in Words, NEW r \in Words, NEW c \in {0, 1}
    PROVE  AddFlags(l, r, c) = Abstract!SumFlags(l, r, c)
<1>. DEFINE k == Wrap(l + c)
<1>1. Modulus \in Nat /\ Modulus >= 16 /\ l \in 0 .. Modulus - 1 /\ r \in 0 .. Modulus - 1 /\ c \in Words
  BY ModulusFacts, SmallWords
<1>2. k = IF l + c < Modulus THEN l + c ELSE (l + c) - Modulus
  <2>1. l + c \in Int /\ -Modulus <= l + c /\ l + c < 2 * Modulus /\ ~(l + c < 0)
    BY <1>1
  <2>. DEFINE t == l + c
  <2>. HIDE DEF t
  <2>2. Wrap(t) = IF t < 0 THEN t + Modulus ELSE IF t < Modulus THEN t ELSE t - Modulus
    BY <2>1, WrapNear DEF t
  <2>3. k = IF l + c < 0 THEN l + c + Modulus ELSE IF l + c < Modulus THEN l + c ELSE (l + c) - Modulus
    BY <2>2, Zenon DEF t
  <2>. HIDE DEF k
  <2>. QED  BY <2>1, <2>3
<1>3. k \in Words
  <2>1. l + c \in Int
    BY <1>1
  <2>. QED  BY <2>1, WrapFacts
<1>4. /\ CFlagAdd(l, c) <=> l + c >= Modulus
      /\ VFlagAdd(l, c) <=> ~Abstract!Fits(Signed(l) + c)
      /\ ~VFlagAdd(l, c) => Signed(k) = Signed(l) + c
  BY <1>1, SumBits, SmallWords
<1>. HIDE DEF k
<1>5. /\ CFlagAdd(k, r) <=> k + r >= Modulus
      /\ VFlagAdd(k, r) <=> ~Abstract!Fits(Signed(k) + Signed(r))
  BY <1>3, SumBits
<1>. DEFINE C1 == CFlagAdd(k, r) \/ CFlagAdd(l, c)
            C2 == l + r + c >= Abstract!Modulus
            V1 == VFlagAdd(k, r) \/ VFlagAdd(l, c)
            V2 == ~Abstract!Fits(Signed(l) + Signed(r) + c) \/ ~Abstract!Fits(Signed(l) + c)
<1>6. C1 = C2
  <2>1. C1 <=> C2
    BY <1>1, <1>2, <1>4, <1>5, SameWords
  <2>. QED  BY <2>1
<1>7. V1 = V2
  <2>1. Signed(l) \in Int /\ Signed(r) \in Int /\ c \in Int
    BY <1>1, DivPowFacts
  <2>2. (Signed(l) + c) + Signed(r) = Signed(l) + Signed(r) + c
    BY <2>1
  <2>3. V1 <=> V2
    BY <1>4, <1>5, <2>2
  <2>. QED  BY <2>3
<1>8. l + r + c \in Int
  BY <1>1
<1>9. /\ Abstract!Negative(l + r + c) = Top(Wrap(l + r + c))
      /\ (l + r + c) % Abstract!Modulus = Wrap(l + r + c)
  BY <1>8, SignBits, SameWords DEF Wrap
<1>10. AddFlags(l, r, c) = [N |-> Top(Wrap(l + r + c)), Z |-> Wrap(l + r + c) = 0, C |-> C1, V |-> V1]
  BY Zenon DEF AddFlags, k
<1>11. Abstract!SumFlags(l, r, c) =
         [N |-> Abstract!Negative(l + r + c), Z |-> (l + r + c) % Abstract!Modulus = 0, C |-> C2, V |-> V2]
  BY SameWords, Zenon DEF Abstract!SumFlags
<1>. HIDE DEF C1, C2, V1, V2
<1>. QED  BY <1>6, <1>7, <1>9, <1>10, <1>11, Zenon

LEMMA DifferenceFlagsCome ==
    ASSUME NEW l \in Words, NEW r \in Words, NEW c \in {0, 1}
    PROVE  SubFlags(l, r, c) = Abstract!DifferenceFlags(l, r, c)
<1>. DEFINE k == Wrap(l - c)
<1>1. Modulus \in Nat /\ Modulus >= 16 /\ l \in 0 .. Modulus - 1 /\ r \in 0 .. Modulus - 1 /\ c \in Words
  BY ModulusFacts, SmallWords
<1>2. k = IF l - c < 0 THEN l - c + Modulus ELSE l - c
  <2>1. l - c \in Int /\ -Modulus <= l - c /\ l - c < 2 * Modulus /\ l - c < Modulus
    BY <1>1
  <2>. QED  BY <2>1, WrapNear
<1>3. k \in Words
  <2>1. l - c \in Int
    BY <1>1
  <2>. QED  BY <2>1, WrapFacts
<1>4. /\ CFlagSub(l, c) <=> l < c
      /\ VFlagSub(l, c) <=> ~Abstract!Fits(Signed(l) - c)
      /\ ~VFlagSub(l, c) => Signed(k) = Signed(l) - c
  BY <1>1, DifferenceBits, SmallWords
<1>. HIDE DEF k
<1>5. /\ CFlagSub(k, r) <=> k < r
      /\ VFlagSub(k, r) <=> ~Abstract!Fits(Signed(k) - Signed(r))
  BY <1>3, DifferenceBits
<1>. DEFINE C1 == CFlagSub(k, r) \/ CFlagSub(l, c)
            C2 == l < r + c
            V1 == VFlagSub(k, r) \/ VFlagSub(l, c)
            V2 == ~Abstract!Fits(Signed(l) - Signed(r) - c) \/ ~Abstract!Fits(Signed(l) - c)
<1>6. C1 = C2
  <2>1. C1 <=> C2
    BY <1>1, <1>2, <1>4, <1>5
  <2>. QED  BY <2>1
<1>7. V1 = V2
  <2>1. Signed(l) \in Int /\ Signed(r) \in Int /\ c \in Int
    BY <1>1, DivPowFacts
  <2>2. (Signed(l) - c) - Signed(r) = Signed(l) - Signed(r) - c
    BY <2>1
  <2>3. V1 <=> V2
    BY <1>4, <1>5, <2>2
  <2>. QED  BY <2>3
<1>8. l - r - c \in Int
  BY <1>1
<1>9. /\ Abstract!Negative(l - r - c) = Top(Wrap(l - r - c))
      /\ (l - r - c) % Abstract!Modulus = Wrap(l - r - c)
  BY <1>8, SignBits, SameWords DEF Wrap
<1>10. SubFlags(l, r, c) = [N |-> Top(Wrap(l - r - c)), Z |-> Wrap(l - r - c) = 0, C |-> C1, V |-> V1]
  BY Zenon DEF SubFlags, k
<1>11. Abstract!DifferenceFlags(l, r, c) =
         [N |-> Abstract!Negative(l - r - c), Z |-> (l - r - c) % Abstract!Modulus = 0, C |-> C2, V |-> V2]
  BY SameWords, Zenon DEF Abstract!DifferenceFlags
<1>. HIDE DEF C1, C2, V1, V2
<1>. QED  BY <1>6, <1>7, <1>9, <1>10, <1>11, Zenon

-----------------------------------------------------------------------------
(* Arithmetic. *)

\* The operands of formats O and M.
LEMMA AluOperands ==
    ASSUME TypeOK, NEW i \in Instructions, i.op \in AluOps, AluIn(Word, i), NEW arg \in GetArg(Word)
    PROVE  /\ arg \in Abstract!Args(i.arg)
           /\ arg \in Words /\ ReadReg(i.n) \in Words
           /\ SetsFlags(Word) = i.s
           /\ X1(Word) = i.d /\ X2(Word) = i.n
<1>1. i \in [op : AluOps, s : BOOLEAN, d : Five, n : Five, arg : AnyOperand(0 .. Pow2[14] - 1)]
  BY Kinds
<1>2. arg \in Abstract!Args(i.arg)
  <2>. DEFINE S == 0 .. Pow2[14] - 1
  <2>1. i.arg \in AnyOperand(S)
    BY <1>1
  <2>2. S \subseteq Int
    BY PowFacts
  <2>. HIDE DEF S
  <2>. QED  BY <2>1, <2>2, ArgComes DEF AluIn
<1>3. SetsFlags(Word) = i.s
  <2>1. i.s \in BOOLEAN
    BY <1>1
  <2>. QED  BY <2>1 DEF AluIn, SetsFlags
<1>. QED  BY <1>2, <1>3, ArgsAreWords, ReadsAreWords DEF AluIn

LEMMA ArithmeticMade ==
    ASSUME NEW i, NEW arg \in Abstract!Args(i.arg)
    PROVE  LET l == IF i.op \in {"rsb", "rsc"} THEN arg ELSE ReadReg(i.n)
               r == IF i.op \in {"rsb", "rsc"} THEN ReadReg(i.n) ELSE arg
               c == Abstract!CarryIn(i.op)
               adds == i.op \in {"add", "adc", "cmn"}
               f == IF adds THEN Abstract!SumFlags(l, r, c) ELSE Abstract!DifferenceFlags(l, r, c)
           IN  (IF i.op \in {"cmp", "cmn"} THEN Abstract!Does(Seen(x), mem, f)
                ELSE Abstract!Does(Abstract!Put(Seen(x), i.d, IF adds THEN l + r + c ELSE l - r - c), mem,
                                   IF i.s THEN f ELSE flags)) \in Abstract!Arithmetic(i)
<1>1. Abstract!Reads(i.n) = ReadReg(i.n)
  BY SeenReads
<1>. QED  BY <1>1, Shown, Zenon DEF Abstract!Arithmetic

LEMMA AddSubComes ==
    ASSUME Working, NEW i \in Instructions, i.op \in Adders \cup Subbers, AddSub(i.op), AluIn(Word, i)
    PROVE  \E o \in Abstract!Arithmetic(i) : Comes(o)
<1>. DEFINE op == i.op
            n == ReadReg(i.n)
            c == IF op \in {"adc", "sbc", "rsc"} THEN Flag(flags.C) ELSE 0
<1>1. PICK arg \in GetArg(Word) :
        LET l == IF op \in {"rsb", "rsc"} THEN arg ELSE n
            r == IF op \in {"rsb", "rsc"} THEN n ELSE arg
        IN  /\ Set(i.d, IF op \in Adders THEN Wrap(l + r + c) ELSE Wrap(l - r - c))
            /\ SetFlagsIf(SetsFlags(Word),
                          IF op \in Adders THEN AddFlags(l, r, c) ELSE SubFlags(l, r, c))
  BY Zenon DEF AddSub, AluIn
<1>. DEFINE l == IF op \in {"rsb", "rsc"} THEN arg ELSE n
            r == IF op \in {"rsb", "rsc"} THEN n ELSE arg
            adds == op \in {"add", "adc", "cmn"}
            f == IF adds THEN Abstract!SumFlags(l, r, c) ELSE Abstract!DifferenceFlags(l, r, c)
            v == IF adds THEN l + r + c ELSE l - r - c
            o == Abstract!Does(Abstract!Put(Seen(x), i.d, v), mem, IF i.s THEN f ELSE flags)
<1>2. /\ arg \in Words /\ n \in Words /\ TypeOK
      /\ arg \in Abstract!Args(i.arg) /\ SetsFlags(Word) = i.s
  BY AluOperands DEF AluOps, Working
<1>3. c \in {0, 1} /\ c = Abstract!CarryIn(op)
  BY DEF Flag, Abstract!CarryIn
<1>5. o \in Abstract!Arithmetic(i)
  <2>1. op \notin {"cmp", "cmn"}
    BY DEF Adders, Subbers
  <2>. QED  BY <1>2, <1>3, <2>1, ArithmeticMade, Zenon
<1>6. adds <=> op \in Adders
  BY DEF Adders, Subbers
<1>7. l \in Words /\ r \in Words
  BY <1>2
<1>. HIDE DEF l, r, c, n
<1>8. v \in Int
  BY <1>3, <1>7, ModulusFacts
<1>9. Set(i.d, Wrap(v)) /\ SetFlagsIf(i.s, f)
  <2>1. f = IF op \in Adders THEN AddFlags(l, r, c) ELSE SubFlags(l, r, c)
    BY <1>3, <1>6, <1>7, SumFlagsCome, DifferenceFlagsCome
  <2>2. Wrap(v) = IF op \in Adders THEN Wrap(l + r + c) ELSE Wrap(l - r - c)
    BY <1>6, Zenon
  <2>. HIDE DEF f, v
  <2>. QED  BY <1>1, <1>2, <2>1, <2>2, Zenon DEF l, r
<1>10. Seen(x') = Abstract!Put(Seen(x), i.d, v)
  <2>. HIDE DEF v
  <2>. QED  BY <1>2, <1>8, <1>9, SetComes
<1>11. mem' = mem /\ Next4(pc) /\ flags' = IF i.s THEN f ELSE flags
  BY <1>9 DEF AddSub, SetFlagsIf
<1>12. Comes(o)
  <2>. HIDE DEF v, f
  <2>. QED  BY <1>10, <1>11, DoesComes
<1>. QED  BY <1>5, <1>12

LEMMA CompareComes ==
    ASSUME Working, NEW i \in Instructions, i.op \in {"cmp", "cmn"}, Compare(i.op), AluIn(Word, i)
    PROVE  \E o \in Abstract!Arithmetic(i) : Comes(o)
<1>. DEFINE n == ReadReg(i.n)
<1>1. PICK arg \in GetArg(Word) :
        flags' = CASE i.op = "cmp" -> SubFlags(n, arg, 0)
                   [] i.op = "cmn" -> AddFlags(n, arg, 0)
                   [] OTHER        -> NZ(LogicOf(i.op, n, arg))
  BY Zenon DEF Compare, AluIn
<1>2. /\ arg \in Words /\ n \in Words /\ TypeOK
      /\ arg \in Abstract!Args(i.arg)
  BY AluOperands DEF AluOps, Compares, Working
<1>3. Abstract!CarryIn(i.op) = 0
  BY DEF Abstract!CarryIn
<1>. DEFINE f == IF i.op = "cmn" THEN Abstract!SumFlags(n, arg, 0) ELSE Abstract!DifferenceFlags(n, arg, 0)
            o == Abstract!Does(Seen(x), mem, f)
<1>4. flags' = f
  <2>. HIDE DEF n
  <2>1. AddFlags(n, arg, 0) = Abstract!SumFlags(n, arg, 0)
        /\ SubFlags(n, arg, 0) = Abstract!DifferenceFlags(n, arg, 0)
    BY <1>2, SumFlagsCome, DifferenceFlagsCome
  <2>. QED  BY <1>1, <2>1
<1>5. o \in Abstract!Arithmetic(i)
  <2>1. i.op \notin {"rsb", "rsc"} /\ (i.op \in {"add", "adc", "cmn"} <=> i.op = "cmn")
    OBVIOUS
  <2>. QED  BY <1>2, <1>3, <2>1, ArithmeticMade, Zenon
<1>6. mem' = mem /\ Next4(pc) /\ Seen(x') = Seen(x)
  BY DEF Compare
<1>7. Comes(o)
  <2>. HIDE DEF f
  <2>. QED  BY <1>4, <1>6, DoesComes
<1>. QED  BY <1>5, <1>7

-----------------------------------------------------------------------------
(* Logic. *)

LEMMA LogicalIsLogic ==
    ASSUME NEW n \in Words, NEW arg \in Words, NEW op \in Logicals \cup {"tst", "teq"}
    PROVE  Abstract!Logical(op, n, arg) = LogicOf(op, n, arg)
<1>. DEFINE W == 0 .. WordBits - 1
            A == BitsOf(arg, WordBits)
            B == BitsOf(n, WordBits)
            a(k) == (n \div Abstract!Pow2[k]) % 2 = 1
            b(k) == (arg \div Abstract!Pow2[k]) % 2 = 1
<1>1. A = {k \in W : b(k)} /\ B = {k \in W : a(k)}
  BY SameWords DEF BitsOf
<1>2. \A k : a(k) \in BOOLEAN /\ b(k) \in BOOLEAN
  OBVIOUS
<1>3. /\ op \in {"and", "tst"} => Abstract!Logical(op, n, arg) = Abstract!ValueOf({k \in W : a(k) /\ b(k)})
      /\ op = "orr" => Abstract!Logical(op, n, arg) = Abstract!ValueOf({k \in W : a(k) \/ b(k)})
      /\ op \in {"eor", "teq"} => Abstract!Logical(op, n, arg) = Abstract!ValueOf({k \in W : a(k) # b(k)})
      /\ op = "bic" => Abstract!Logical(op, n, arg) = Abstract!ValueOf({k \in W : a(k) /\ ~b(k)})
  BY DEF Abstract!Logical, Abstract!Bitwise2
<1>4. \A bits : Abstract!ValueOf(bits) = ValueOf(bits)
  BY SameWords
<1>5. /\ And(arg, n) = ValueOf(A \cap B) /\ Or(arg, n) = ValueOf(A \cup B)
      /\ Xor(arg, n) = ValueOf((A \ B) \cup (B \ A)) /\ And(Flip(arg), n) = ValueOf(B \ A)
  BY LogicBits DEF And, Or
<1>. HIDE DEF a, b, A, B, W
<1>6. /\ {k \in W : a(k) /\ b(k)} = A \cap B
      /\ {k \in W : a(k) \/ b(k)} = A \cup B
      /\ {k \in W : a(k) # b(k)} = (A \ B) \cup (B \ A)
      /\ {k \in W : a(k) /\ ~b(k)} = B \ A
  BY <1>1, <1>2
<1>7. op \in {"and", "tst"} \/ op = "orr" \/ op \in {"eor", "teq"} \/ op = "bic"
  BY DEF Logicals
<1>. QED  BY <1>3, <1>4, <1>5, <1>6, <1>7 DEF LogicOf

LEMMA LogicMade ==
    ASSUME NEW i, NEW arg \in Abstract!Args(i.arg)
    PROVE  LET v == Abstract!Logical(i.op, ReadReg(i.n), arg)
           IN  (IF i.op \in {"tst", "teq"} THEN Abstract!Does(Seen(x), mem, Abstract!Marked(v))
                ELSE Abstract!Does(Abstract!Put(Seen(x), i.d, v), mem,
                                   IF i.s THEN Abstract!Marked(v) ELSE flags)) \in Abstract!Logic(i)
<1>1. Abstract!Reads(i.n) = ReadReg(i.n)
  BY SeenReads
<1>. QED  BY <1>1, Shown, Zenon DEF Abstract!Logic

LEMMA LogicComes ==
    ASSUME Working, NEW i \in Instructions, i.op \in Logicals, Logic(i.op), AluIn(Word, i)
    PROVE  \E o \in Abstract!Logic(i) : Comes(o)
<1>. DEFINE n == ReadReg(i.n)
<1>1. PICK arg \in GetArg(Word) :
        Set(i.d, LogicOf(i.op, n, arg)) /\ SetFlagsIf(SetsFlags(Word), NZ(LogicOf(i.op, n, arg)))
  BY Zenon DEF Logic, AluIn
<1>2. /\ arg \in Words /\ n \in Words /\ TypeOK
      /\ arg \in Abstract!Args(i.arg) /\ SetsFlags(Word) = i.s
  BY AluOperands DEF AluOps, Working
<1>. DEFINE v == Abstract!Logical(i.op, n, arg)
            f == IF i.s THEN Abstract!Marked(v) ELSE flags
            o == Abstract!Does(Abstract!Put(Seen(x), i.d, v), mem, f)
<1>3. v = LogicOf(i.op, n, arg) /\ v \in Words
  BY <1>2, LogicalIsLogic, LogicIsTyped
<1>4. o \in Abstract!Logic(i)
  <2>1. i.op \notin {"tst", "teq"}
    BY DEF Logicals
  <2>. QED  BY <1>2, <2>1, LogicMade, Zenon
<1>. HIDE DEF v
<1>5. Wrap(v) = v /\ v \in Int
  BY <1>3, WrapFacts, ModulusFacts
<1>6. Seen(x') = Abstract!Put(Seen(x), i.d, v)
  BY <1>1, <1>2, <1>3, <1>5, SetComes
<1>7. flags' = f
  BY <1>1, <1>2, <1>3, <1>5, MarkedComes DEF SetFlagsIf
<1>8. mem' = mem /\ Next4(pc)
  BY DEF Logic
<1>9. Comes(o)
  <2>. HIDE DEF f
  <2>. QED  BY <1>6, <1>7, <1>8, DoesComes
<1>. QED  BY <1>4, <1>9

LEMMA TestComes ==
    ASSUME Working, NEW i \in Instructions, i.op \in {"tst", "teq"}, Compare(i.op), AluIn(Word, i)
    PROVE  \E o \in Abstract!Logic(i) : Comes(o)
<1>. DEFINE n == ReadReg(i.n)
<1>1. PICK arg \in GetArg(Word) : flags' = NZ(LogicOf(i.op, n, arg))
  <2>1. i.op # "cmp" /\ i.op # "cmn"
    OBVIOUS
  <2>. QED  BY <2>1, Zenon DEF Compare, AluIn
<1>2. /\ arg \in Words /\ n \in Words /\ TypeOK
      /\ arg \in Abstract!Args(i.arg)
  BY AluOperands DEF AluOps, Compares, Working
<1>. DEFINE v == Abstract!Logical(i.op, n, arg)
            o == Abstract!Does(Seen(x), mem, Abstract!Marked(v))
<1>3. v = LogicOf(i.op, n, arg) /\ v \in Words
  <2>1. i.op \in Logicals \cup {"tst", "teq"}
    OBVIOUS
  <2>2. v = LogicOf(i.op, n, arg)
    BY <1>2, <2>1, LogicalIsLogic, Zenon
  <2>3. LogicOf(i.op, n, arg) \in Words
    BY <2>1, LogicIsTyped, Zenon
  <2>. QED  BY <2>2, <2>3
<1>4. o \in Abstract!Logic(i)
  BY <1>2, LogicMade, Zenon
<1>. HIDE DEF v
<1>5. Wrap(v) = v /\ v \in Int
  BY <1>3, WrapFacts, ModulusFacts
<1>6. flags' = Abstract!Marked(v)
  BY <1>1, <1>3, <1>5, MarkedComes
<1>7. mem' = mem /\ Next4(pc) /\ Seen(x') = Seen(x)
  BY DEF Compare
<1>. QED  BY <1>4, <1>6, <1>7, DoesComes

-----------------------------------------------------------------------------
(* Products, shifts and moves. *)

LEMMA IntDivMod ==
    \A M \in Nat \ {0} : \A p \in Int :
        p = (p \div M) * M + (p % M) /\ p \div M \in Int /\ p % M \in 0 .. M - 1
OBVIOUS

\* The two halves of a product cut to two words.
LEMMA Halves ==
    ASSUME NEW M \in Nat \ {0}, NEW p \in Int
    PROVE  /\ (p % (M * M)) % M = p % M
           /\ (p % (M * M)) \div M = (p \div M) % M
           /\ -(M * M) < p /\ p < M * M => (p % (M * M) = 0 <=> p = 0)
<1>. DEFINE q == p \div M
            r == p % M
            a == q \div M
            b == q % M
<1>1. p = q * M + r /\ q \in Int /\ r \in 0 .. M - 1
  BY IntDivMod
<1>2. q = a * M + b /\ a \in Int /\ b \in 0 .. M - 1
  BY <1>1, IntDivMod
<1>. HIDE DEF q, r, a, b
<1>3. M * M \in Nat \ {0}
  OBVIOUS
<1>4. b * M + r \in 0 .. M * M - 1
  BY <1>1, <1>2, DigitBound
<1>5. p = a * (M * M) + (b * M + r)
  <2>1. \A u, v, w \in Int : (u * M + v) * M + w = u * (M * M) + (v * M + w)
    OBVIOUS
  <2>. QED  BY <1>1, <1>2, <2>1
<1>6. p % (M * M) = b * M + r
  <2>. DEFINE S == M * M
              t == b * M + r
  <2>1. S \in Nat \ {0} /\ t \in 0 .. S - 1 /\ p = a * S + t
    BY <1>3, <1>4, <1>5
  <2>. HIDE DEF S, t
  <2>2. p % S = t
    BY <1>2, <2>1, ModUnique
  <2>. QED  BY <2>2 DEF S, t
<1>7. (b * M + r) % M = r /\ (b * M + r) \div M = b
  <2>1. b * M + r \in Int
    BY <1>4
  <2>. QED  BY <1>1, <1>2, <2>1, ModUnique
<1>8. ASSUME -(M * M) < p, p < M * M PROVE p % (M * M) = 0 <=> p = 0
  <2>. DEFINE S == M * M
              t == b * M + r
  <2>1. S \in Nat \ {0} /\ t \in 0 .. S - 1 /\ p = a * S + t /\ -S < p /\ p < S /\ p % S = t
    BY <1>3, <1>4, <1>5, <1>6, <1>8
  <2>. HIDE DEF S, t
  <2>2. CASE p = 0
    <3>1. 0 = 0 * S + 0 /\ 0 \in 0 .. S - 1
      BY <2>1
    <3>. QED  BY <2>1, <2>2, <3>1, ModUnique
  <2>3. CASE t = 0
    <3>1. a * S = p
      BY <1>2, <2>1, <2>3
    <3>2. a >= 1 => a * S >= S
      BY <1>2, <2>1
    <3>3. a <= -1 => a * S <= -S
      BY <1>2, <2>1
    <3>4. a = 0
      BY <1>2, <2>1, <3>1, <3>2, <3>3
    <3>. QED  BY <2>1, <3>1, <3>4
  <2>. QED  BY <2>1, <2>2, <2>3 DEF S
<1>. QED  BY <1>6, <1>7, <1>8 DEF q, r, b

LEMMA ProductBound ==
    ASSUME NEW a \in Words, NEW b \in Words
    PROVE  /\ -(Modulus * Modulus) < a * b /\ a * b < Modulus * Modulus
           /\ -(Modulus * Modulus) < Signed(a) * Signed(b) /\ Signed(a) * Signed(b) < Modulus * Modulus
<1>1. Modulus \in Nat \ {0} /\ Modulus \div 2 \in Nat /\ a \in 0 .. Modulus - 1 /\ b \in 0 .. Modulus - 1
  BY ModulusFacts
<1>2. ASSUME NEW u \in Words PROVE Signed(u) \in -(Modulus - 1) .. Modulus - 1
  <2>1. u \in 0 .. Modulus - 1 /\ Modulus \in Nat /\ (Top(u) => u # 0)
    BY ModulusFacts DEF Top
  <2>2. Signed(u) = IF Top(u) THEN u - Modulus ELSE u
    BY DEF Signed
  <2>. QED  BY <2>1, <2>2
<1>3. \A M \in Nat \ {0} : \A u, v \in -(M - 1) .. M - 1 : -(M * M) < u * v /\ u * v < M * M
  <2>. SUFFICES ASSUME NEW M \in Nat \ {0}, NEW u \in -(M - 1) .. M - 1, NEW v \in -(M - 1) .. M - 1
                PROVE  -(M * M) < u * v /\ u * v < M * M
    OBVIOUS
  <2>1. \A s, t \in 0 .. M - 1 : s * t < M * M
    <3>. SUFFICES ASSUME NEW s \in 0 .. M - 1, NEW t \in 0 .. M - 1 PROVE s * t < M * M
      OBVIOUS
    <3>1. s * t <= s * M /\ s * M < M * M
      OBVIOUS
    <3>2. s * t \in Int /\ s * M \in Int /\ M * M \in Int
      OBVIOUS
    <3>. QED  BY <3>1, <3>2
  <2>2. CASE u >= 0 /\ v >= 0
    <3>1. u * v < M * M /\ u * v >= 0 /\ M * M > 0
      BY <2>1, <2>2
    <3>2. u * v \in Int /\ M * M \in Int
      OBVIOUS
    <3>. QED  BY <3>1, <3>2
  <2>3. CASE u < 0 /\ v >= 0
    <3>1. (-u) * v < M * M /\ (-u) * v >= 0 /\ M * M > 0 /\ u * v = -((-u) * v)
      BY <2>1, <2>3
    <3>2. (-u) * v \in Int /\ M * M \in Int
      OBVIOUS
    <3>. QED  BY <3>1, <3>2
  <2>4. CASE u >= 0 /\ v < 0
    <3>1. u * (-v) < M * M /\ u * (-v) >= 0 /\ M * M > 0 /\ u * v = -(u * (-v))
      BY <2>1, <2>4
    <3>2. u * (-v) \in Int /\ M * M \in Int
      OBVIOUS
    <3>. QED  BY <3>1, <3>2
  <2>5. CASE u < 0 /\ v < 0
    <3>1. (-u) * (-v) < M * M /\ (-u) * (-v) >= 0 /\ M * M > 0 /\ u * v = (-u) * (-v)
      BY <2>1, <2>5
    <3>2. (-u) * (-v) \in Int /\ M * M \in Int
      OBVIOUS
    <3>. QED  BY <3>1, <3>2
  <2>. QED  BY <2>2, <2>3, <2>4, <2>5
<1>4. a \in -(Modulus - 1) .. Modulus - 1 /\ b \in -(Modulus - 1) .. Modulus - 1
  BY <1>1
<1>5. Signed(a) \in -(Modulus - 1) .. Modulus - 1 /\ Signed(b) \in -(Modulus - 1) .. Modulus - 1
  BY <1>1, <1>2
<1>. QED  BY <1>1, <1>3, <1>4, <1>5, Zenon

LEMMA MulComes ==
    ASSUME Working, NEW i \in Instructions, i.op = "mul", Mul, AluIn(Word, i)
    PROVE  \E o \in Abstract!Mul(i) : Comes(o)
<1>. DEFINE n == ReadReg(i.n)
<1>1. PICK arg \in GetArg(Word) :
        Set(i.d, Wrap(n * arg)) /\ SetFlagsIf(SetsFlags(Word), [NZ(Wrap(n * arg)) EXCEPT !.Z = (n * arg = 0)])
  BY Zenon DEF Mul, AluIn
<1>2. /\ arg \in Words /\ n \in Words /\ TypeOK
      /\ arg \in Abstract!Args(i.arg) /\ SetsFlags(Word) = i.s
  BY AluOperands DEF AluOps, Working
<1>. DEFINE v == n * arg
            f == IF i.s THEN [Abstract!Marked(v) EXCEPT !.Z = (v = 0)] ELSE flags
            o == Abstract!Does(Abstract!Put(Seen(x), i.d, v), mem, f)
<1>3. v \in Int
  BY <1>2, ModulusFacts
<1>4. o \in Abstract!Mul(i)
  <2>1. Abstract!Reads(i.n) = n
    BY SeenReads
  <2>. QED  BY <1>2, <2>1, Shown, Zenon DEF Abstract!Mul
<1>. HIDE DEF v
<1>5. Seen(x') = Abstract!Put(Seen(x), i.d, v)
  BY <1>1, <1>2, <1>3, SetComes DEF v
<1>6. flags' = f
  <2>1. SetFlagsIf(i.s, [NZ(Wrap(v)) EXCEPT !.Z = (v = 0)])
    BY <1>1, <1>2, Zenon DEF v
  <2>2. NZ(Wrap(v)) = Abstract!Marked(v)
    BY <1>3, MarkedComes
  <2>. QED  BY <2>1, <2>2, Zenon DEF SetFlagsIf
<1>7. mem' = mem /\ Next4(pc)
  BY DEF Mul
<1>8. Comes(o)
  <2>. HIDE DEF f
  <2>. QED  BY <1>5, <1>6, <1>7, DoesComes
<1>. QED  BY <1>4, <1>8

LEMMA LongMulComes ==
    ASSUME Working, NEW i \in Instructions, i.op \in LongMuls, LongMul(i.op), LongMulIn(Word, i)
    PROVE  \E o \in Abstract!LongMul(i) : Comes(o)
<1>. DEFINE value(r) == IF i.op = "smull" THEN Signed(ReadReg(r)) ELSE ReadReg(r)
            v  == value(i.m1) * value(i.m2)
            hi == (v \div Modulus) % Modulus
            full == v % (Modulus * Modulus)
            f == IF i.s THEN [flags EXCEPT !.N = Abstract!Negative(hi), !.Z = (v = 0)] ELSE flags
            o == Abstract!Does(Abstract!Put(Abstract!Put(Seen(x), i.d, v), i.n, hi), mem, f)
<1>1. /\ x' = WriteReg(WriteReg(x, i.d, Wrap(full)), i.n, full \div Modulus)
      /\ SetFlagsIf(SetsFlags(Word), [flags EXCEPT !.N = Top(full \div Modulus), !.Z = (full = 0)])
  BY Zenon DEF LongMul, LongMulIn
<1>2. TypeOK /\ i.s \in BOOLEAN /\ SetsFlags(Word) = i.s
  <2>1. i.s \in BOOLEAN
    BY Kinds
  <2>. QED  BY <2>1 DEF Working, LongMulIn, SetsFlags
<1>3. o \in Abstract!LongMul(i)
  <2>1. \A r : Abstract!Reads(r) = ReadReg(r)
    BY SeenReads
  <2>. QED  BY <2>1, Shown, SameWords, Zenon DEF Abstract!LongMul
<1>4. Modulus \in Nat \ {0}
  BY ModulusFacts
<1>5. v \in Int /\ -(Modulus * Modulus) < v /\ v < Modulus * Modulus
  <2>. DEFINE a == ReadReg(i.m1)
              b == ReadReg(i.m2)
  <2>1. a \in Words /\ b \in Words
    BY <1>2, ReadsAreWords
  <2>. HIDE DEF a, b
  <2>2. v = IF i.op = "smull" THEN Signed(a) * Signed(b) ELSE a * b
    BY Zenon DEF a, b
  <2>3. Signed(a) * Signed(b) \in Int /\ a * b \in Int
    <3>1. Signed(a) \in Int /\ Signed(b) \in Int
      BY <2>1, DivPowFacts
    <3>2. a \in Int /\ b \in Int
      BY <2>1, ModulusFacts
    <3>. QED  BY <3>1, <3>2
  <2>. HIDE DEF v
  <2>. QED  BY <2>1, <2>2, <2>3, ProductBound
<1>. HIDE DEF v
<1>6. full % Modulus = v % Modulus /\ full \div Modulus = hi /\ (full = 0 <=> v = 0)
  BY <1>4, <1>5, Halves
<1>7. hi \in Int /\ Wrap(hi) = hi
  <2>1. v \div Modulus \in Int
    BY <1>4, <1>5, IntDivMod
  <2>2. hi = Wrap(v \div Modulus)
    BY DEF Wrap
  <2>3. hi \in Words
    <3>. HIDE DEF hi
    <3>. QED  BY <2>1, <2>2, WrapFacts
  <2>. HIDE DEF hi
  <2>. QED  BY <2>3, WrapFacts, ModulusFacts
<1>. HIDE DEF hi, full
<1>8. Seen(x') = Abstract!Put(Abstract!Put(Seen(x), i.d, v), i.n, hi)
  <2>. DEFINE ys == WriteReg(x, i.d, Wrap(v))
  <2>1. RegisterFile(x) /\ Wrap(v) \in Words
    BY <1>2, <1>5, TypedFile, WrapFacts
  <2>2. Seen(ys) = Abstract!Put(Seen(x), i.d, v) /\ RegisterFile(ys)
    BY <1>5, <2>1, SeenWrite, WriteKeepsFile
  <2>3. Wrap(full) = Wrap(v)
    BY <1>6 DEF Wrap
  <2>4. x' = WriteReg(ys, i.n, Wrap(hi))
    BY <1>1, <1>6, <1>7, <2>3
  <2>. HIDE DEF ys
  <2>. QED  BY <1>7, <2>2, <2>4, SeenWrite
<1>9. flags' = f
  <2>1. Abstract!Negative(hi) = Top(hi)
    BY <1>7, SignBits
  <2>2. (full = 0) = (v = 0)
    BY <1>6
  <2>3. SetFlagsIf(i.s, [flags EXCEPT !.N = Top(hi), !.Z = (v = 0)])
    BY <1>1, <1>2, <1>6, <2>2, Zenon
  <2>. QED  BY <2>1, <2>3, Zenon DEF SetFlagsIf
<1>10. mem' = mem /\ Next4(pc)
  BY DEF LongMul
<1>11. Comes(o)
  <2>. HIDE DEF f
  <2>. QED  BY <1>8, <1>9, <1>10, DoesComes
<1>. QED  BY <1>3, <1>11

LEMMA ShiftedWraps ==
    ASSUME NEW v \in Words, NEW op \in Shifts, NEW by \in Nat, by < WordBits
    PROVE  /\ Abstract!ShiftedBy(v, op, by) \in Int
           /\ ShiftBy(op, v, by) = {Wrap(Abstract!ShiftedBy(v, op, by))}
<1>1. /\ v \in Int /\ Signed(v) \in Int /\ Pow2[by] \in Nat \ {0} /\ by <= WordBits
      /\ WordBits \in Nat /\ ~(by >= WordBits)
  <2>1. v \in Int /\ WordBits \in Nat
    BY ModulusFacts
  <2>2. Signed(v) \in Int /\ Pow2[by] \in Nat \ {0}
    BY DivPowFacts, PowFacts
  <2>. QED  BY <2>1, <2>2
<1>2. Abstract!Pow2 = Pow2 /\ \A u : Abstract!Signed(u) = Signed(u)
  BY SameWords
<1>3. \A u \in Words : Wrap(u) = u /\ u \in Int
  BY WrapFacts, ModulusFacts
<1>4. CASE op = "lsl"
  <2>1. v * Pow2[by] \in Int
    BY <1>1
  <2>. QED  BY <1>1, <1>2, <1>4, <2>1 DEF ShiftBy, Abstract!ShiftedBy, LeftBy
<1>5. CASE op = "lsr"
  <2>1. RightBy(v, by) \in Words
    BY DivPowFacts
  <2>2. Abstract!ShiftedBy(v, op, by) = RightBy(v, by)
    BY <1>2, <1>5 DEF Abstract!ShiftedBy, RightBy
  <2>3. ShiftBy(op, v, by) = {RightBy(v, by)}
    BY <1>1, <1>5 DEF ShiftBy
  <2>. QED  BY <1>3, <2>1, <2>2, <2>3
<1>6. CASE op = "asr"
  <2>1. Signed(v) \div Pow2[by] \in Int
    BY <1>1
  <2>2. Abstract!ShiftedBy(v, op, by) = Signed(v) \div Pow2[by]
    BY <1>2, <1>6 DEF Abstract!ShiftedBy
  <2>3. ShiftBy(op, v, by) = {SignedRightBy(v, by)}
    BY <1>1, <1>6 DEF ShiftBy
  <2>. QED  BY <2>1, <2>2, <2>3 DEF SignedRightBy
<1>7. CASE op = "ror"
  <2>. DEFINE u == (v \div Pow2[by]) + (v % Pow2[by]) * Pow2[WordBits - by]
  <2>1. Or(RightBy(v, by), LeftBy(v, WordBits - by)) = u /\ u \in Words
    BY <1>1, RotateFacts
  <2>2. Abstract!ShiftedBy(v, op, by) = u
    BY <1>2, <1>7 DEF Abstract!ShiftedBy
  <2>3. ShiftBy(op, v, by) = {Or(RightBy(v, by), LeftBy(v, WordBits - by))}
    BY <1>1, <1>7 DEF ShiftBy
  <2>. HIDE DEF u
  <2>. QED  BY <1>3, <2>1, <2>2, <2>3
<1>. QED  BY <1>4, <1>5, <1>6, <1>7 DEF Shifts

LEMMA ShiftComes ==
    ASSUME Working, NEW i \in Instructions, i.op \in Shifts, Shift(i.op), ShiftIn(Word, i)
    PROVE  \E o \in Abstract!Shift(i) : Comes(o)
<1>. DEFINE n == ReadReg(i.n)
            by == IF i.arg.imm THEN i.arg.val ELSE ReadReg(i.arg.m) % 256
            results == IF by >= WordBits THEN Words ELSE {Abstract!ShiftedBy(n, i.op, by)}
<1>1. /\ i.arg.imm \in BOOLEAN /\ i.arg.val \in Nat
  <2>1. i.arg \in AnyOperand(Five)
    BY Kinds
  <2>. QED  BY <2>1, OperandFacts DEF Five
<1>2. PICK u \in ShiftBy(i.op, n, by) : Set(i.d, u)
  <2>1. by = IF 14 \in Word THEN Field(Word, 2, 5) ELSE ReadReg(X3(Word)) % 256
    BY <1>1 DEF ShiftIn
  <2>. HIDE DEF by
  <2>. QED  BY <2>1, Zenon DEF Shift, ShiftIn
<1>3. by \in Nat /\ n \in Words /\ TypeOK
  <2>1. ReadReg(i.arg.m) \in Nat
    BY ReadsAreWords, ModulusFacts DEF Working
  <2>. QED  BY <1>1, <2>1, ReadsAreWords DEF Working
<1>4. Abstract!Shift(i) = {Abstract!Does(Abstract!Put(Seen(x), i.d, v), mem, flags) : v \in results}
  <2>1. \A r : Abstract!Reads(r) = ReadReg(r)
    BY SeenReads
  <2>. QED  BY <2>1, Shown, SameWords, ZenonT(60) DEF Abstract!Shift
<1>. HIDE DEF by, n
<1>5. PICK v \in results : v \in Int /\ u = Wrap(v)
  <2>1. CASE by >= WordBits
    <3>1. ShiftBy(i.op, n, by) = Words /\ results = Words
      BY <2>1 DEF ShiftBy
    <3>2. u \in Words /\ u \in results
      BY <1>2, <3>1
    <3>3. u \in Int /\ Wrap(u) = u
      BY <3>2, WrapFacts, ModulusFacts
    <3>. QED  BY <3>2, <3>3
  <2>2. CASE ~(by >= WordBits)
    <3>1. by < WordBits
      BY <1>3, <2>2, ModulusFacts
    <3>2. Abstract!ShiftedBy(n, i.op, by) \in Int /\ ShiftBy(i.op, n, by) = {Wrap(Abstract!ShiftedBy(n, i.op, by))}
      BY <1>3, <3>1, ShiftedWraps
    <3>3. results = {Abstract!ShiftedBy(n, i.op, by)}
      BY <2>2
    <3>. HIDE DEF results
    <3>. QED  BY <1>2, <3>2, <3>3
  <2>. QED  BY <2>1, <2>2
<1>. HIDE DEF results
<1>6. Seen(x') = Abstract!Put(Seen(x), i.d, v)
  BY <1>2, <1>3, <1>5, SetComes
<1>7. mem' = mem /\ flags' = flags /\ Next4(pc)
  BY DEF Shift
<1>8. Comes(Abstract!Does(Abstract!Put(Seen(x), i.d, v), mem, flags))
  BY <1>6, <1>7, DoesComes
<1>. QED  BY <1>4, <1>5, <1>8

LEMMA MoveComes ==
    ASSUME Working, NEW i \in Instructions, i.op \in Moves, i.arg.imm, Move(i.op), MoveIn(Word, i)
    PROVE  \E o \in Abstract!Move(i) : Comes(o)
<1>. DEFINE u == i.arg.val
            v == IF i.op = "mvn" THEN -1 - u ELSE u
            f == IF i.s THEN Abstract!Marked(v) ELSE flags
            o == Abstract!Does(Abstract!Put(Seen(x), i.d, v), mem, f)
<1>1. i.s \in BOOLEAN /\ u \in Int
  <2>. DEFINE S == 0 .. Pow2[14] - 1
  <2>1. Pow2[14] \in Nat /\ i.arg \in AnyOperand(S) /\ i.s \in BOOLEAN
    BY Kinds, PowFacts
  <2>2. \A k \in S : k \in Int
    BY <2>1
  <2>. HIDE DEF S
  <2>. QED  BY <2>1, <2>2, OperandFacts
<1>2. SetsFlags(Word) = i.s /\ X1(Word) = i.d /\ 19 \in Word /\ Field(Word, 0, 19) = u /\ TypeOK
  BY <1>1 DEF MoveIn, Working, SetsFlags
<1>. HIDE DEF u
<1>3. /\ Set(i.d, IF i.op = "mvn" THEN Flip(Wrap(u)) ELSE Wrap(u))
      /\ SetFlagsIf(i.s, NZ(IF i.op = "mvn" THEN Flip(Wrap(u)) ELSE Wrap(u)))
  BY <1>2, Zenon DEF Move
<1>4. v \in Int
  BY <1>1
<1>5. Wrap(v) = IF i.op = "mvn" THEN Flip(Wrap(u)) ELSE Wrap(u)
  <2>1. Wrap(-1 - u) = Flip(Wrap(u))
    <3>. DEFINE q == u \div Modulus
                r == u % Modulus
                w == -1 - u
                k == -(q + 1)
                t == Modulus - 1 - r
    <3>1. Modulus \in Nat \ {0} /\ u = q * Modulus + r /\ q \in Int /\ r \in 0 .. Modulus - 1
      <4>1. Modulus \in Nat \ {0}
        BY ModulusFacts
      <4>. QED  BY <1>1, <4>1, IntDivMod, Zenon
    <3>. HIDE DEF q, r
    <3>2. w \in Int /\ k \in Int /\ t \in 0 .. Modulus - 1
      BY <1>1, <3>1
    <3>3. w = k * Modulus + t
      BY <1>1, <3>1
    <3>. HIDE DEF w, k, t
    <3>4. w % Modulus = t
      BY <3>1, <3>2, <3>3, ModUnique
    <3>. QED  BY <3>4 DEF w, t, r, Wrap, Flip
  <2>. QED  BY <2>1
<1>. HIDE DEF v
<1>6. Seen(x') = Abstract!Put(Seen(x), i.d, v)
  BY <1>2, <1>3, <1>4, <1>5, SetComes
<1>7. flags' = f
  BY <1>3, <1>4, <1>5, MarkedComes DEF SetFlagsIf
<1>8. mem' = mem /\ Next4(pc)
  BY DEF Move
<1>9. Comes(o)
  <2>. HIDE DEF f
  <2>. QED  BY <1>6, <1>7, <1>8, DoesComes
<1>10. Abstract!Move(i) = {o}
  BY Shown, Zenon DEF Abstract!Move, Abstract!Moved, v, u
<1>. QED  BY <1>9, <1>10

\* A move from a register does nothing.
LEMMA ShortMoveComes ==
    ASSUME Working, NEW i \in Instructions, i.op \in Moves, ~i.arg.imm, Nop
    PROVE  \E o \in Abstract!Move(i) : Comes(o)
<1>1. Abstract!Move(i) = {Abstract!Same}
  BY Zenon DEF Abstract!Move
<1>2. Next4(pc) /\ UNCHANGED Data
  BY DEF Nop
<1>. QED  BY <1>1, <1>2, SameComes

LEMMA AdrpComes ==
    ASSUME Working, NEW i \in Instructions, i.op = "adrp", Adrp, AdrpIn(Word, i)
    PROVE  Comes(Abstract!Does(Abstract!Put(Seen(x), i.d, i.page * PageBytes), mem, flags))
<1>. DEFINE v == i.page * PageBytes
<1>1. i.page \in Nat /\ PageBytes \in Nat
  <2>1. Pow2[20] \in Nat /\ i.page \in 0 .. Pow2[20] - 1
    BY Kinds, PowFacts
  <2>. QED  BY <2>1, CpuAssumption
<1>2. v \in Int
  BY <1>1
<1>3. Set(i.d, Wrap(v)) /\ Next4(pc) /\ mem' = mem /\ flags' = flags
  BY DEF Adrp, AdrpIn
<1>. HIDE DEF v
<1>4. Seen(x') = Abstract!Put(Seen(x), i.d, v)
  BY <1>2, <1>3, SetComes DEF Working
<1>5. Comes(Abstract!Does(Abstract!Put(Seen(x), i.d, v), mem, flags))
  BY <1>3, <1>4, DoesComes
<1>. QED  BY <1>5 DEF v

-----------------------------------------------------------------------------
(* Branches and software interrupts. *)

LEMMA CondComes ==
    ASSUME TypeOK, NEW c \in Range(Conds)
    PROVE  CheckCond(c) <=> Abstract!Holds(c)
<1>. DEFINE base == [eq |-> flags.Z, cs |-> flags.C, mi |-> flags.N, vs |-> flags.V,
                     hi |-> flags.C /\ ~flags.Z, ge |-> flags.N = flags.V,
                     gt |-> ~flags.Z /\ flags.N = flags.V, al |-> TRUE]
            opposite == [ne |-> "eq", cc |-> "cs", pl |-> "mi", vc |-> "vs",
                         ls |-> "hi", lt |-> "ge", le |-> "gt", nv |-> "al"]
<1>1. Abstract!Holds(c) = IF c \in DOMAIN base THEN base[c] ELSE ~base[opposite[c]]
  BY Zenon DEF Abstract!Holds
<1>2. DOMAIN base = {"eq", "cs", "mi", "vs", "hi", "ge", "gt", "al"}
  OBVIOUS
<1>3. /\ base["eq"] = flags.Z /\ base["cs"] = flags.C /\ base["mi"] = flags.N /\ base["vs"] = flags.V
      /\ base["hi"] = (flags.C /\ ~flags.Z) /\ base["ge"] = (flags.N = flags.V)
      /\ base["gt"] = (~flags.Z /\ flags.N = flags.V) /\ base["al"] = TRUE
  BY Zenon
<1>4. /\ opposite["ne"] = "eq" /\ opposite["cc"] = "cs" /\ opposite["pl"] = "mi" /\ opposite["vc"] = "vs"
      /\ opposite["ls"] = "hi" /\ opposite["lt"] = "ge" /\ opposite["le"] = "gt" /\ opposite["nv"] = "al"
  OBVIOUS
<1>. HIDE DEF base, opposite
<1>5. flags.N \in BOOLEAN /\ flags.Z \in BOOLEAN /\ flags.C \in BOOLEAN /\ flags.V \in BOOLEAN
  BY DEF TypeOK, FlagSet
<1>6. c \in {"eq", "cs", "mi", "vs", "hi", "ge", "gt", "al"}
        \cup {"ne", "cc", "pl", "vc", "ls", "lt", "le", "nv"}
  BY DEF Range, Conds
<1>7. CASE c \in {"eq", "cs", "mi", "vs", "hi", "ge", "gt", "al"}
  BY <1>1, <1>2, <1>3, <1>5, <1>7 DEF CheckCond
<1>8. CASE c \in {"ne", "cc", "pl", "vc", "ls", "lt", "le", "nv"}
  <2>1. Abstract!Holds(c) = ~base[opposite[c]]
    BY <1>1, <1>2, <1>8
  <2>2. CASE c = "ne"
    BY <1>3, <1>4, <1>5, <2>1, <2>2 DEF CheckCond
  <2>3. CASE c = "cc"
    BY <1>3, <1>4, <1>5, <2>1, <2>3 DEF CheckCond
  <2>4. CASE c = "pl"
    BY <1>3, <1>4, <1>5, <2>1, <2>4 DEF CheckCond
  <2>5. CASE c = "vc"
    BY <1>3, <1>4, <1>5, <2>1, <2>5 DEF CheckCond
  <2>6. CASE c = "ls"
    BY <1>3, <1>4, <1>5, <2>1, <2>6 DEF CheckCond
  <2>7. CASE c = "lt"
    BY <1>3, <1>4, <1>5, <2>1, <2>7 DEF CheckCond
  <2>8. CASE c = "le"
    BY <1>3, <1>4, <1>5, <2>1, <2>8 DEF CheckCond
  <2>9. CASE c = "nv"
    BY <1>3, <1>4, <1>5, <2>1, <2>9 DEF CheckCond
  <2>. QED  BY <1>8, <2>2, <2>3, <2>4, <2>5, <2>6, <2>7, <2>8, <2>9
<1>. QED  BY <1>6, <1>7, <1>8

\* The next instruction by another name.
LEMMA TargetComes ==
    ASSUME Working, NEW at \in Int, Next4(at), NEW to \in Int, Wrap(at + 4) = Wrap(to),
           NEW xx, NEW m, NEW f, Seen(x') = xx, mem' = m, flags' = f
    PROVE  Comes(Abstract!Outcome(xx, m, f, to, "no"))
<1>1. Comes(Abstract!Outcome(xx, m, f, at + 4, "no"))
  BY NextComes
<1>2. (at + 4) % Modulus = to % Modulus
  BY DEF Wrap
<1>. QED  BY <1>1, <1>2 DEF Comes, Abstract!Outcome

LEMMA LinkedComes ==
    ASSUME TypeOK
    PROVE  /\ Seen(Linked) = Abstract!Put(Seen(x), LINKR, pc + 4)
           /\ \A r : ReadFrom(Linked, r) = IF r = LINKR THEN Wrap(pc + 4) ELSE ReadReg(r)
<1>1. pc + 4 \in Int
  BY FieldsAreNumbers
<1>2. RegisterFile(x) /\ RegisterFile(Linked)
  BY TypedFile, LinkedTyped
<1>3. Seen(Linked) = Abstract!Put(Seen(x), LINKR, pc + 4)
  <2>. DEFINE v == pc + 4
  <2>1. v \in Int
    BY <1>1
  <2>. HIDE DEF v
  <2>2. Seen(WriteReg(x, LINKR, Wrap(v))) = Abstract!Put(Seen(x), LINKR, v)
    BY <1>2, <2>1, SeenWrite
  <2>. QED  BY <2>2 DEF Linked, v
<1>4. LINKR \in Regs /\ LINKR # XZR
  BY CpuAssumption DEF LINKR, XZR
<1>5. ASSUME NEW r PROVE ReadFrom(Linked, r) = IF r = LINKR THEN Wrap(pc + 4) ELSE ReadReg(r)
  <2>1. /\ ReadFrom(Linked, r) = IF r \in Regs \ {XZR} THEN Linked[r].val ELSE 0
        /\ ReadReg(r) = IF r \in Regs \ {XZR} THEN x[r].val ELSE 0
    BY <1>2, ReadOfFile DEF ReadReg
  <2>2. r \in Regs => Linked[r].val = IF r = LINKR THEN Wrap(pc + 4) ELSE x[r].val
    BY <1>2 DEF Linked, WriteReg, RegisterFile
  <2>. QED  BY <1>4, <2>1, <2>2
<1>. QED  BY <1>3, <1>5

LEMMA BranchMade ==
    ASSUME NEW i
    PROVE  /\ ~Abstract!Holds(i.cond) => Abstract!Branch(i) = {Abstract!Same}
           /\ Abstract!Holds(i.cond) /\ i.op = "b" =>
                Abstract!Branch(i) = {Abstract!Outcome(Seen(x), mem, flags, pc + 4 * i.offset, "no")}
           /\ Abstract!Holds(i.cond) /\ i.op = "bl" =>
                Abstract!Branch(i) =
                  {Abstract!Outcome(Abstract!Put(Seen(x), LINKR, pc + 4), mem, flags, pc + 4 * i.offset, "no")}
           /\ Abstract!Holds(i.cond) /\ i.op = "bx" =>
                Abstract!Branch(i) = {Abstract!Outcome(Seen(x), mem, flags, ReadReg(i.d), "no")}
           /\ Abstract!Holds(i.cond) /\ i.op = "blx" =>
                Abstract!Branch(i) =
                  {Abstract!Outcome(Abstract!Put(Seen(x), LINKR, pc + 4), mem, flags,
                                    IF i.d = LINKR THEN pc + 4 ELSE ReadReg(i.d), "no")}
<1>1. Abstract!Reads(i.d) = ReadReg(i.d) /\ Abstract!LINKR = LINKR
  BY SeenReads, SameNames
<1>2. ASSUME ~Abstract!Holds(i.cond) PROVE Abstract!Branch(i) = {Abstract!Same}
  BY <1>2, Zenon DEF Abstract!Branch
<1>. QED  BY <1>1, <1>2, Shown DEF Abstract!Branch

LEMMA JumpComes ==
    ASSUME Working, NEW i \in Instructions, i.op \in Jumps, Jump(i.op), JumpIn(Word, i)
    PROVE  \E o \in Abstract!Branch(i) : Comes(o)
<1>1. i.cond \in Range(Conds) /\ i.offset \in Int /\ pc \in Int /\ TypeOK
  <2>1. i \in [op : Jumps \cup {"swi"}, cond : Range(Conds), offset : -Pow2[21] .. Pow2[21] - 1]
    BY Kinds
  <2>2. Pow2[21] \in Nat
    BY PowFacts
  <2>. QED  BY <2>1, <2>2, FieldsAreNumbers DEF Working
<1>2. CheckCond(i.cond) <=> Abstract!Holds(i.cond)
  BY <1>1, CondComes
<1>. DEFINE at == pc + 4 * i.offset - 4
<1>3. /\ x' = IF CheckCond(i.cond) /\ i.op = "bl" THEN Linked ELSE x
      /\ Next4(IF CheckCond(i.cond) THEN at ELSE pc)
      /\ mem' = mem /\ flags' = flags
  BY Zenon DEF Jump, JumpIn
<1>4. at \in Int /\ at + 4 = pc + 4 * i.offset
  BY <1>1
<1>. HIDE DEF at
<1>5. CASE ~CheckCond(i.cond)
  BY <1>2, <1>3, <1>5, BranchMade, SameComes DEF Data
<1>6. CASE CheckCond(i.cond) /\ i.op = "b"
  <2>1. Comes(Abstract!Outcome(Seen(x), mem, flags, at + 4, "no"))
    BY <1>3, <1>4, <1>6, NextComes
  <2>. QED  BY <1>2, <1>4, <1>6, <2>1, BranchMade
<1>7. CASE CheckCond(i.cond) /\ i.op = "bl"
  <2>1. Seen(x') = Abstract!Put(Seen(x), LINKR, pc + 4)
    BY <1>1, <1>3, <1>7, LinkedComes
  <2>2. Comes(Abstract!Outcome(Abstract!Put(Seen(x), LINKR, pc + 4), mem, flags, at + 4, "no"))
    BY <1>3, <1>4, <1>7, <2>1, NextComes
  <2>. QED  BY <1>2, <1>4, <1>7, <2>2, BranchMade
<1>. QED  BY <1>5, <1>6, <1>7 DEF Jumps

LEMMA RegJumpComes ==
    ASSUME Working, NEW i \in Instructions, i.op \in RegJumps, RegJump(i.op), RegJumpIn(Word, i)
    PROVE  \E o \in Abstract!Branch(i) : Comes(o)
<1>1. i.cond \in Range(Conds) /\ pc \in Int /\ TypeOK /\ ReadReg(i.d) \in Words
  <2>1. i \in [op : RegJumps, cond : Range(Conds), d : Five]
    BY Kinds
  <2>. QED  BY <2>1, FieldsAreNumbers, ReadsAreWords DEF Working
<1>2. CheckCond(i.cond) <=> Abstract!Holds(i.cond)
  BY <1>1, CondComes
<1>. DEFINE xs == IF CheckCond(i.cond) /\ i.op = "blx" THEN Linked ELSE x
<1>3. /\ x' = xs
      /\ Next4(IF CheckCond(i.cond) THEN ReadFrom(xs, i.d) - 4 ELSE pc)
      /\ mem' = mem /\ flags' = flags
  BY Zenon DEF RegJump, RegJumpIn
<1>4. \A v \in Words : v \in Int /\ v - 4 \in Int /\ (v - 4) + 4 = v
  BY ModulusFacts
<1>5. CASE ~CheckCond(i.cond)
  BY <1>2, <1>3, <1>5, BranchMade, SameComes DEF Data
<1>6. CASE CheckCond(i.cond) /\ i.op = "bx"
  <2>. DEFINE v == ReadReg(i.d)
  <2>1. xs = x /\ Next4(v - 4)
    BY <1>3, <1>6 DEF ReadReg
  <2>2. v \in Int /\ v - 4 \in Int /\ (v - 4) + 4 = v
    BY <1>1, <1>4
  <2>. HIDE DEF v
  <2>3. Comes(Abstract!Outcome(Seen(x), mem, flags, v, "no"))
    BY <1>3, <2>1, <2>2, TargetComes
  <2>. QED  BY <1>2, <1>6, <2>3, BranchMade DEF v
<1>7. CASE CheckCond(i.cond) /\ i.op = "blx"
  <2>. DEFINE v == ReadFrom(Linked, i.d)
              to == IF i.d = LINKR THEN pc + 4 ELSE ReadReg(i.d)
  <2>1. Seen(x') = Abstract!Put(Seen(x), LINKR, pc + 4) /\ Next4(v - 4)
    BY <1>1, <1>3, <1>7, LinkedComes
  <2>2. v = (IF i.d = LINKR THEN Wrap(pc + 4) ELSE ReadReg(i.d)) /\ pc + 4 \in Int
    BY <1>1, LinkedComes
  <2>3. v \in Words /\ Wrap(v) = Wrap(to) /\ to \in Int
    <3>1. Wrap(pc + 4) \in Words
      BY <2>2, WrapFacts
    <3>2. Wrap(Wrap(pc + 4)) = Wrap(pc + 4)
      BY <3>1, WrapFacts
    <3>. QED  BY <1>1, <1>4, <2>2, <3>1, <3>2
  <2>4. v - 4 \in Int /\ (v - 4) + 4 = v
    BY <1>4, <2>3
  <2>. HIDE DEF v, to
  <2>5. Comes(Abstract!Outcome(Abstract!Put(Seen(x), LINKR, pc + 4), mem, flags, to, "no"))
    BY <1>3, <2>1, <2>3, <2>4, TargetComes
  <2>. QED  BY <1>2, <1>7, <2>5, BranchMade DEF to
<1>. QED  BY <1>5, <1>6, <1>7 DEF RegJumps

LEMMA RamSame ==
    ASSUME NEW a, NEW n
    PROVE  /\ Abstract!InRam(a, n) <=> Reachable(a, n)
           /\ Abstract!Value(a, n) = Read(a, n)
           /\ \A little : Abstract!Peeked(a, n, little) = Peeked(a, n, little)
<1>1. Abstract!InRam(a, n) <=> Reachable(a, n)
  BY SameWords DEF Abstract!InRam, Reachable, Routed, Wrap
<1>2. Abstract!Value(a, n) = Read(a, n)
  BY SameWords DEF Abstract!Value, Read, Wrap
<1>3. \A little : Abstract!Peeked(a, n, little) = Peeked(a, n, little)
  BY SameWords DEF Abstract!Peeked, Peeked, Wrap
<1>. QED  BY <1>1, <1>2, <1>3

\* What each system call ends in.
Held(id, a0, a1, a2, a3, a4) ==
    CASE id = SysCalls.print   -> TRUE
      [] id = SysCalls.assertr -> Abstract!Between(a1, ReadReg(a0), a2)
      [] id = SysCalls.assertm -> Abstract!Between(a3, Peeked(a0, a1, a2 # 0), a4)
      [] id = SysCalls.assertp -> (a0 < 4 /\ <<flags.N, flags.Z, flags.C, flags.V>>[a0 + 1]) = (a1 # 0)
      [] OTHER                 -> FALSE

LEMMA CallEnds ==
    ASSUME TypeOK, NEW id, NEW a0 \in Words, NEW a1, NEW a2, NEW a3, NEW a4
    PROVE  SysCall(id, a0, a1, a2, a3, a4) =
             IF id = SysCalls.assertm /\ ~Reachable(a0, a1) THEN "faulted"
             ELSE IF Held(id, a0, a1, a2, a3, a4) THEN "done" ELSE "refused"
<1>1. /\ SysCalls.print # SysCalls.assertr /\ SysCalls.print # SysCalls.assertm
      /\ SysCalls.print # SysCalls.assertp /\ SysCalls.assertr # SysCalls.assertm
      /\ SysCalls.assertr # SysCalls.assertp /\ SysCalls.assertm # SysCalls.assertp
  BY CpuAssumption
<1>2. CASE id = SysCalls.print
  BY <1>1, <1>2 DEF SysCall, Held
<1>3. CASE id = SysCalls.assertr
  BY <1>1, <1>3 DEF SysCall, Held, Abstract!Between
<1>4. CASE id = SysCalls.assertm
  <2>. DEFINE v == Peeked(a0, a1, a2 # 0)
  <2>1. Held(id, a0, a1, a2, a3, a4) <=> a3 <= v /\ v <= a4
    BY <1>1, <1>4 DEF Held, Abstract!Between
  <2>2. SysCall(id, a0, a1, a2, a3, a4) =
          IF ~Reachable(a0, a1) THEN "faulted" ELSE IF a3 <= v /\ v <= a4 THEN "done" ELSE "refused"
    BY <1>1, <1>4 DEF SysCall
  <2>. HIDE DEF v
  <2>. QED  BY <1>4, <2>1, <2>2
<1>5. CASE id = SysCalls.assertp
  <2>1. a0 \in Int /\ a0 >= 0
    BY ModulusFacts
  <2>2. FlagBit(a0) = (a0 < 4 /\ <<flags.N, flags.Z, flags.C, flags.V>>[a0 + 1])
    <3>1. flags.N \in BOOLEAN /\ flags.Z \in BOOLEAN /\ flags.C \in BOOLEAN /\ flags.V \in BOOLEAN
      BY DEF TypeOK, FlagSet
    <3>2. CASE a0 = 0  BY <3>1, <3>2 DEF FlagBit
    <3>3. CASE a0 = 1  BY <3>1, <3>3 DEF FlagBit
    <3>4. CASE a0 = 2  BY <3>1, <3>4 DEF FlagBit
    <3>5. CASE a0 = 3  BY <3>1, <3>5 DEF FlagBit
    <3>6. CASE a0 >= 4
      <4>1. a0 # 0 /\ a0 # 1 /\ a0 # 2 /\ a0 # 3 /\ ~(a0 < 4)
        BY <2>1, <3>6
      <4>. QED  BY <4>1 DEF FlagBit
    <3>. QED  BY <2>1, <3>2, <3>3, <3>4, <3>5, <3>6
  <2>3. Held(id, a0, a1, a2, a3, a4) <=> FlagBit(a0) = (a1 # 0)
    BY <1>1, <1>5, <2>2, Zenon DEF Held
  <2>4. SysCall(id, a0, a1, a2, a3, a4) = IF FlagBit(a0) = (a1 # 0) THEN "done" ELSE "refused"
    BY <1>1, <1>5, Zenon DEF SysCall
  <2>. QED  BY <1>1, <1>5, <2>3, <2>4
<1>6. CASE id \notin {SysCalls.print, SysCalls.assertr, SysCalls.assertm, SysCalls.assertp}
  BY <1>6 DEF SysCall, Held
<1>. QED  BY <1>2, <1>3, <1>4, <1>5, <1>6

LEMMA InterruptMade ==
    ASSUME NEW i
    PROVE  Abstract!SoftwareInterrupt(i) =
             {IF ~Abstract!Holds(i.cond) THEN Abstract!Same
              ELSE IF ReadReg(NR) = SysCalls.assertm /\ ~Reachable(ReadReg(0), ReadReg(1))
                THEN Abstract!Ends("faulted")
              ELSE IF Held(ReadReg(NR), ReadReg(0), ReadReg(1), ReadReg(2), ReadReg(3), ReadReg(4))
                THEN Abstract!Same ELSE Abstract!Ends("refused")}
<1>1. (\A r : Abstract!Reads(r) = ReadReg(r)) /\ Abstract!NR = NR
  BY SeenReads, SameNames
<1>2. Abstract!InRam(ReadReg(0), ReadReg(1)) = Reachable(ReadReg(0), ReadReg(1))
  BY RamSame DEF Abstract!InRam, Reachable
<1>3. Abstract!Peeked(ReadReg(0), ReadReg(1), ReadReg(2) # 0) = Peeked(ReadReg(0), ReadReg(1), ReadReg(2) # 0)
  BY RamSame
<1>. QED  BY <1>1, <1>2, <1>3, Zenon DEF Abstract!SoftwareInterrupt, Held

LEMMA SwiComes ==
    ASSUME Working, NEW i \in Instructions, i.op = "swi", Swi, JumpIn(Word, i)
    PROVE  \E o \in Abstract!SoftwareInterrupt(i) : Comes(o)
<1>. DEFINE reply == SysCall(ReadReg(NR), ReadReg(0), ReadReg(1), ReadReg(2), ReadReg(3), ReadReg(4))
            faults == ReadReg(NR) = SysCalls.assertm /\ ~Reachable(ReadReg(0), ReadReg(1))
            holds == Held(ReadReg(NR), ReadReg(0), ReadReg(1), ReadReg(2), ReadReg(3), ReadReg(4))
<1>1. CheckCond(i.cond) <=> Abstract!Holds(i.cond)
  <2>1. i.cond \in Range(Conds)
    BY Kinds
  <2>. QED  BY <2>1, CondComes DEF Working
<1>2. /\ IF CheckCond(i.cond) /\ reply # "done" THEN Throw(reply) ELSE Next4(pc)
      /\ UNCHANGED Data
  BY Zenon DEF Swi, JumpIn
<1>3. reply = IF faults THEN "faulted" ELSE IF holds THEN "done" ELSE "refused"
  <2>1. ReadReg(0) \in Words /\ TypeOK
    BY ReadsAreWords DEF Working
  <2>. QED  BY <2>1, CallEnds, Zenon
<1>4. Abstract!SoftwareInterrupt(i) =
        {IF ~Abstract!Holds(i.cond) THEN Abstract!Same
         ELSE IF faults THEN Abstract!Ends("faulted")
         ELSE IF holds THEN Abstract!Same ELSE Abstract!Ends("refused")}
  BY InterruptMade, Zenon
<1>. HIDE DEF reply, faults, holds
<1>5. /\ Next4(pc) => Comes(Abstract!Same)
      /\ Throw("faulted") => Comes(Abstract!Ends("faulted"))
      /\ Throw("refused") => Comes(Abstract!Ends("refused"))
  BY <1>2, SameComes
<1>. QED  BY <1>1, <1>2, <1>3, <1>4, <1>5

-----------------------------------------------------------------------------
(* Loads, stores and swaps. *)

\* Which byte of a store an address receives.
LEMMA Distance ==
    ASSUME NEW a \in Words, NEW b \in Words, NEW k \in 0 .. 3
    PROVE  b = Wrap(a + k) <=> k = Wrap(b - a)
<1>1. /\ Modulus \in Nat /\ Modulus >= 16 /\ a \in 0 .. Modulus - 1 /\ b \in 0 .. Modulus - 1
      /\ a + k \in Int /\ b - a \in Int
  BY ModulusFacts
<1>. DEFINE s == a + k
            t == b - a
<1>2. s \in Int /\ t \in Int /\ -Modulus <= s /\ s < 2 * Modulus /\ -Modulus <= t /\ t < 2 * Modulus
  BY <1>1
<1>. HIDE DEF s, t
<1>3. /\ Wrap(s) = IF s < 0 THEN s + Modulus ELSE IF s < Modulus THEN s ELSE s - Modulus
      /\ Wrap(t) = IF t < 0 THEN t + Modulus ELSE IF t < Modulus THEN t ELSE t - Modulus
  BY <1>2, WrapNear
<1>4. b = Wrap(s) <=> k = Wrap(t)
  BY <1>1, <1>3 DEF s, t
<1>. QED  BY <1>4 DEF s, t

LEMMA StoredIsWritten ==
    ASSUME TypeOK, NEW a \in Words, NEW n \in {1, 2, 4}, NEW v
    PROVE  Abstract!Stored(a, n, v) = Written(a, n, v)
<1>. DEFINE done == {k \in 0 .. n-1 : Reachable(a, k + 1)}
            new == Written(a, n, v)
            old == Abstract!Stored(a, n, v)
<1>1. new = [b \in DOMAIN mem |->
               IF \E k \in done : b = Wrap(a + k)
                 THEN ByteAt(v, CHOOSE k \in done : b = Wrap(a + k)) ELSE mem[b]]
  BY DEF Written
<1>2. \A b \in DOMAIN mem :
        old[b] = IF Wrap(b - a) < n /\ Reachable(a, Wrap(b - a) + 1) THEN ByteAt(v, Wrap(b - a)) ELSE mem[b]
  <2>1. \A k : Abstract!InRam(a, k + 1) <=> Reachable(a, k + 1)
    BY RamSame
  <2>. QED  BY <2>1, SameWords DEF Abstract!Stored, ByteAt, Wrap
<1>3. \A b \in DOMAIN mem : b \in Words
  <2>1. DOMAIN mem = 0 .. RamBytes - 1
    BY DEF TypeOK
  <2>2. RamBytes \in 0 .. Modulus - 1 /\ Modulus \in Nat /\ Words = 0 .. Modulus - 1
    BY CpuAssumption, ModulusFacts
  <2>. QED  BY <2>1, <2>2
<1>4. \A b \in DOMAIN mem : \A k \in done : b = Wrap(a + k) <=> k = Wrap(b - a)
  <2>1. \A k \in done : k \in 0 .. 3
    OBVIOUS
  <2>. QED  BY <1>3, <2>1, Distance
<1>5. \A b \in DOMAIN mem : Wrap(b - a) \in done <=> Wrap(b - a) < n /\ Reachable(a, Wrap(b - a) + 1)
  <2>. SUFFICES ASSUME NEW b \in DOMAIN mem
                PROVE  Wrap(b - a) \in done <=> Wrap(b - a) < n /\ Reachable(a, Wrap(b - a) + 1)
    OBVIOUS
  <2>1. b - a \in Int
    BY <1>3, ModulusFacts
  <2>2. Wrap(b - a) \in Nat
    BY <2>1, WrapFacts, ModulusFacts
  <2>. QED  BY <2>2
<1>. HIDE DEF done
<1>6. \A b \in DOMAIN mem : (\E k \in done : b = Wrap(a + k)) <=> Wrap(b - a) \in done
  BY <1>4
<1>7. \A b \in DOMAIN mem : Wrap(b - a) \in done => (CHOOSE k \in done : b = Wrap(a + k)) = Wrap(b - a)
  BY <1>4
<1>8. \A b \in DOMAIN mem : new[b] = old[b]
  <2>. SUFFICES ASSUME NEW b \in DOMAIN mem PROVE new[b] = old[b]
    OBVIOUS
  <2>. DEFINE j == Wrap(b - a)
  <2>1. new[b] = IF \E k \in done : b = Wrap(a + k)
                   THEN ByteAt(v, CHOOSE k \in done : b = Wrap(a + k)) ELSE mem[b]
    BY <1>1
  <2>2. new[b] = IF j \in done THEN ByteAt(v, j) ELSE mem[b]
    BY <1>6, <1>7, <2>1, Zenon
  <2>3. j \in done <=> j < n /\ Reachable(a, j + 1)
    BY <1>5
  <2>4. old[b] = IF j < n /\ Reachable(a, j + 1) THEN ByteAt(v, j) ELSE mem[b]
    BY <1>2, Zenon
  <2>. HIDE DEF j, new, old
  <2>. QED  BY <2>2, <2>3, <2>4, Zenon
<1>9. DOMAIN old = DOMAIN mem /\ old = [b \in DOMAIN mem |-> old[b]]
  BY DEF Abstract!Stored
<1>10. new = [b \in DOMAIN mem |-> new[b]]
  BY <1>1
<1>. HIDE DEF new, old
<1>11. new = old
  BY <1>8, <1>9, <1>10
<1>. QED  BY <1>11 DEF new, old

LEMMA SameSizes ==
    ASSUME NEW op \in Loads \cup Stores \cup Swaps
    PROVE  Abstract!Bytes4(op) = Size(op) /\ Size(op) \in {1, 2, 4}
BY DEF Abstract!Bytes4, Size, Loads, Stores, Swaps

\* The offset as ISA has it.
Offsets(i) == IF i.arg.imm THEN {Abstract!OffsetOf(i.arg.val)} ELSE Abstract!Args(i.arg)

LEMMA OffsetComes ==
    ASSUME TypeOK, NEW i \in Instructions, i.op \in Loads \cup Stores, MemoryIn(Word, i),
           NEW offset \in Offset(Word)
    PROVE  offset \in Offsets(i)
<1>. DEFINE b == 12
            S == -Pow2[11] .. Pow2[12] - 1
<1>1. i.arg \in AnyOperand(S)
  BY Kinds
<1>2. b \in Nat \ {0} /\ S = -Pow2[b - 1] .. Pow2[b] - 1 /\ Pow2[b] \in Nat /\ Pow2[b - 1] \in Nat
  <2>1. b - 1 = 11 /\ b \in Nat \ {0} /\ b - 1 \in Nat
    OBVIOUS
  <2>. QED  BY <2>1, PowFacts
<1>3. S \subseteq Int
  <2>. HIDE DEF b
  <2>. QED  BY <1>2
<1>4. CASE i.arg.imm
  <2>1. i.arg.val \in S
    <3>. HIDE DEF S
    <3>. QED  BY <1>1, OperandFacts
  <2>2. Offset(Word) = {SignedPart(i.arg.val % Pow2[b], b)}
    BY <1>4 DEF Offset, MemoryIn
  <2>3. Abstract!OffsetOf(i.arg.val) = IF i.arg.val < Pow2[b - 1] THEN i.arg.val ELSE i.arg.val - Pow2[b]
    <3>1. b - 1 = 11
      OBVIOUS
    <3>. QED  BY <3>1, SameWords, Zenon DEF Abstract!OffsetOf
  <2>. HIDE DEF b
  <2>4. SignedPart(i.arg.val % Pow2[b], b) = Abstract!OffsetOf(i.arg.val)
    BY <1>2, <2>1, <2>3, SignedWay
  <2>. QED  BY <1>4, <2>2, <2>4 DEF Offsets
<1>5. CASE ~i.arg.imm
  <2>1. OperandIn(Word, i.arg) /\ 14 \notin Word
    BY <1>5 DEF MemoryIn, OperandIn
  <2>2. offset \in GetArg(Word)
    BY <2>1 DEF Offset
  <2>. HIDE DEF S
  <2>3. offset \in Abstract!Args(i.arg)
    BY <1>1, <1>3, <2>1, <2>2, ArgComes
  <2>. QED  BY <1>5, <2>3 DEF Offsets
<1>. QED  BY <1>4, <1>5

\* The registers once the base is moved, or not.
LEMMA BaseComes ==
    ASSUME TypeOK, NEW w, NEW r, X2(w) = r, NEW mode \in {"offset", "pre", "post"}, Mode(w) = AddrType[mode],
           NEW offset \in Int
    PROVE  LET next == (ReadReg(r) + offset) % Abstract!Modulus
           IN  /\ MemAddr(w, offset) = IF mode = "post" THEN ReadReg(r) ELSE next
               /\ Seen(BasesAfter(w, offset)) = IF mode = "offset" THEN Seen(x) ELSE Abstract!Put(Seen(x), r, next)
               /\ RegisterFile(BasesAfter(w, offset)) /\ MemAddr(w, offset) \in Words
<1>. DEFINE next == Wrap(ReadReg(r) + offset)
            ys == WriteReg(x, r, next)
<1>1. ReadReg(r) \in Words /\ RegisterFile(x)
  BY ReadsAreWords, TypedFile
<1>2. next \in Words
  <2>1. ReadReg(r) + offset \in Int
    BY <1>1, ModulusFacts
  <2>. QED  BY <2>1, WrapFacts
<1>3. next = (ReadReg(r) + offset) % Abstract!Modulus
  BY SameWords DEF Wrap
<1>4. mode = "post" <=> Mode(w) = 2
  BY DEF AddrType
<1>5. mode = "offset" <=> Mode(w) = 0
  BY DEF AddrType
<1>6. MemAddr(w, offset) = IF mode = "post" THEN ReadReg(r) ELSE next
  BY <1>4, Zenon DEF MemAddr
<1>7. BasesAfter(w, offset) = IF mode = "offset" THEN x ELSE ys
  BY <1>5, Zenon DEF BasesAfter
<1>. HIDE DEF next
<1>8. Seen(ys) = Abstract!Put(Seen(x), r, next) /\ RegisterFile(ys)
  <2>1. Wrap(next) = next /\ next \in Int
    BY <1>2, WrapFacts, ModulusFacts
  <2>2. Seen(WriteReg(x, r, Wrap(next))) = Abstract!Put(Seen(x), r, next)
    BY <1>1, <2>1, SeenWrite
  <2>. QED  BY <1>1, <1>2, <2>1, <2>2, WriteKeepsFile
<1>. HIDE DEF ys
<1>. QED  BY <1>1, <1>2, <1>3, <1>6, <1>7, <1>8, Zenon

LEMMA MemoryMade ==
    ASSUME NEW i, i.mode # "none", NEW offset \in Offsets(i)
    PROVE  LET base == ReadReg(i.n)
               next == (base + offset) % Abstract!Modulus
               at   == IF i.mode = "post" THEN base ELSE next
               xs   == IF i.mode = "offset" THEN Seen(x) ELSE Abstract!Put(Seen(x), i.n, next)
               n    == Abstract!Bytes4(i.op)
               m    == IF i.op \in {"str", "strh", "strb"}
                         THEN Abstract!Stored(at, n, IF i.d \in Regs THEN xs[i.d] ELSE 0) ELSE mem
           IN  (IF ~Abstract!InRam(at, n) THEN Abstract!Outcome(xs, m, flags, pc, "faulted")
                ELSE IF i.op \in {"str", "strh", "strb"} THEN Abstract!Does(xs, m, flags)
                ELSE Abstract!Does(Abstract!Put(xs, i.d, Abstract!Value(at, n)), m, flags))
               \in Abstract!Memory(i)
<1>1. Abstract!Reads(i.n) = ReadReg(i.n)
  BY SeenReads
<1>. QED  BY <1>1, Shown, Zenon DEF Abstract!Memory, Offsets

LEMMA BadModeComes ==
    ASSUME Working, NEW i, i.mode = "none", BadMode
    PROVE  \E o \in Abstract!Memory(i) : Comes(o)
<1>1. Abstract!Memory(i) = {Abstract!Ends("refused")}
  BY Zenon DEF Abstract!Memory
<1>2. Throw("refused") /\ UNCHANGED Data
  BY DEF BadMode
<1>. QED  BY <1>1, <1>2, SameComes

LEMMA LoadComes ==
    ASSUME Working, NEW i \in Instructions, i.op \in Loads, i.mode # "none", Load(i.op), MemoryIn(Word, i)
    PROVE  \E o \in Abstract!Memory(i) : Comes(o)
<1>. DEFINE size == Size(i.op)
<1>1. PICK offset \in Offset(Word) :
        \/ /\ Reachable(MemAddr(Word, offset), size)
           /\ x' = WriteReg(BasesAfter(Word, offset), X1(Word), Read(MemAddr(Word, offset), size))
           /\ Next4(pc)
        \/ /\ ~Reachable(MemAddr(Word, offset), size)
           /\ x' = BasesAfter(Word, offset)
           /\ Throw("faulted")
  BY Zenon DEF Load
<1>2. TypeOK /\ offset \in Int /\ offset \in Offsets(i) /\ i.mode \in {"offset", "pre", "post"}
  <2>1. TypeOK
    BY DEF Working
  <2>2. i.mode \in DOMAIN AddrType
    BY Kinds
  <2>3. i.mode \in {"offset", "pre", "post"}
    BY <2>2 DEF AddrType
  <2>. QED  BY <2>1, <2>3, OffsetsAreNumbers, OffsetComes
<1>. DEFINE base == ReadReg(i.n)
            next == (base + offset) % Abstract!Modulus
            at   == IF i.mode = "post" THEN base ELSE next
            xs   == IF i.mode = "offset" THEN Seen(x) ELSE Abstract!Put(Seen(x), i.n, next)
            ys   == BasesAfter(Word, offset)
<1>3. MemAddr(Word, offset) = at /\ Seen(ys) = xs /\ RegisterFile(ys) /\ at \in Words /\ X1(Word) = i.d
  <2>1. X1(Word) = i.d /\ X2(Word) = i.n /\ Mode(Word) = AddrType[i.mode]
    BY DEF MemoryIn
  <2>. QED  BY <1>2, <2>1, BaseComes, Zenon
<1>4. (IF ~Reachable(at, size) THEN Abstract!Outcome(xs, mem, flags, pc, "faulted")
       ELSE Abstract!Does(Abstract!Put(xs, i.d, Read(at, size)), mem, flags)) \in Abstract!Memory(i)
  <2>1. i.op \notin {"str", "strh", "strb"} /\ Abstract!Bytes4(i.op) = size
    BY SameSizes DEF Loads
  <2>2. Abstract!InRam(at, size) = Reachable(at, size) /\ Abstract!Value(at, size) = Read(at, size)
    <3>. HIDE DEF at, size
    <3>. QED  BY RamSame DEF Abstract!InRam, Reachable
  <2>. QED  BY <1>2, <2>1, <2>2, MemoryMade, Zenon
<1>5. size \in 0 .. 4
  BY SameSizes
<1>. HIDE DEF base, next, at, xs, ys, size
<1>6. mem' = mem /\ flags' = flags
  BY DEF Load
<1>7. CASE /\ Reachable(at, size)
           /\ x' = WriteReg(ys, i.d, Read(at, size))
           /\ Next4(pc)
  <2>. DEFINE v == Read(at, size)
  <2>1. v \in Words
    <3>1. at \in Int
      BY <1>3, ModulusFacts
    <3>. QED  BY <1>2, <1>5, <1>7, <3>1, WordsRead
  <2>. HIDE DEF v
  <2>2. v \in Int /\ Wrap(v) = v
    BY <2>1, WrapFacts, ModulusFacts
  <2>3. Seen(x') = Abstract!Put(xs, i.d, v)
    <3>1. Seen(WriteReg(ys, i.d, Wrap(v))) = Abstract!Put(Seen(ys), i.d, v)
      BY <1>3, <2>2, SeenWrite
    <3>. QED  BY <1>3, <1>7, <2>2, <3>1 DEF v
  <2>4. Comes(Abstract!Does(Abstract!Put(xs, i.d, v), mem, flags))
    BY <1>6, <1>7, <2>3, DoesComes
  <2>. QED  BY <1>4, <1>7, <2>4 DEF v
<1>8. CASE ~Reachable(at, size) /\ x' = ys /\ Throw("faulted")
  <2>1. Comes(Abstract!Outcome(xs, mem, flags, pc, "faulted"))
    BY <1>3, <1>6, <1>8, ThrowComes
  <2>. QED  BY <1>4, <1>8, <2>1
<1>. QED  BY <1>1, <1>3, <1>7, <1>8, Zenon DEF ys, size

LEMMA StoreComes ==
    ASSUME Working, NEW i \in Instructions, i.op \in Stores, i.mode # "none", Store(i.op), MemoryIn(Word, i)
    PROVE  \E o \in Abstract!Memory(i) : Comes(o)
<1>. DEFINE size == Size(i.op)
<1>1. PICK offset \in Offset(Word) :
        /\ x' = BasesAfter(Word, offset)
        /\ mem' = Written(MemAddr(Word, offset), size, ReadFrom(BasesAfter(Word, offset), X1(Word)))
        /\ IF Reachable(MemAddr(Word, offset), size) THEN Next4(pc) ELSE Throw("faulted")
  BY Zenon DEF Store
<1>2. TypeOK /\ offset \in Int /\ offset \in Offsets(i) /\ i.mode \in {"offset", "pre", "post"}
  <2>1. TypeOK
    BY DEF Working
  <2>2. i.mode \in DOMAIN AddrType
    BY Kinds
  <2>3. i.mode \in {"offset", "pre", "post"}
    BY <2>2 DEF AddrType
  <2>. QED  BY <2>1, <2>3, OffsetsAreNumbers, OffsetComes
<1>. DEFINE base == ReadReg(i.n)
            next == (base + offset) % Abstract!Modulus
            at   == IF i.mode = "post" THEN base ELSE next
            xs   == IF i.mode = "offset" THEN Seen(x) ELSE Abstract!Put(Seen(x), i.n, next)
            ys   == BasesAfter(Word, offset)
            v    == IF i.d \in Regs THEN xs[i.d] ELSE 0
<1>3. MemAddr(Word, offset) = at /\ Seen(ys) = xs /\ RegisterFile(ys) /\ at \in Words /\ X1(Word) = i.d
  <2>1. X1(Word) = i.d /\ X2(Word) = i.n /\ Mode(Word) = AddrType[i.mode]
    BY DEF MemoryIn
  <2>. QED  BY <1>2, <2>1, BaseComes, Zenon
<1>4. (IF ~Reachable(at, size) THEN Abstract!Outcome(xs, Abstract!Stored(at, size, v), flags, pc, "faulted")
       ELSE Abstract!Does(xs, Abstract!Stored(at, size, v), flags)) \in Abstract!Memory(i)
  <2>1. i.op \in {"str", "strh", "strb"} /\ Abstract!Bytes4(i.op) = size
    BY SameSizes DEF Stores
  <2>2. Abstract!InRam(at, size) = Reachable(at, size)
    <3>. HIDE DEF at, size
    <3>. QED  BY RamSame DEF Abstract!InRam, Reachable
  <2>. QED  BY <1>2, <2>1, <2>2, MemoryMade, Zenon
<1>5. size \in {1, 2, 4}
  BY SameSizes
<1>6. v = ReadFrom(ys, i.d)
  <2>. HIDE DEF xs, ys
  <2>1. CASE i.d \in Regs
    BY <1>3, <2>1 DEF Seen
  <2>2. CASE i.d \notin Regs
    BY <2>2 DEF ReadFrom
  <2>. QED  BY <2>1, <2>2
<1>. HIDE DEF base, next, at, xs, ys, size, v
<1>7. x' = ys /\ mem' = Written(at, size, v) /\ IF Reachable(at, size) THEN Next4(pc) ELSE Throw("faulted")
  BY <1>1, <1>3, <1>6, Zenon DEF ys
<1>8. flags' = flags /\ Seen(x') = xs /\ mem' = Abstract!Stored(at, size, v)
  <2>1. Abstract!Stored(at, size, v) = Written(at, size, v)
    BY <1>2, <1>3, <1>5, StoredIsWritten
  <2>. QED  BY <1>3, <1>7, <2>1 DEF Store
<1>. DEFINE m == Abstract!Stored(at, size, v)
<1>. HIDE DEF m
<1>9. mem' = m
  BY <1>8 DEF m
<1>10. CASE Reachable(at, size)
  <2>1. Comes(Abstract!Does(xs, m, flags))
    BY <1>7, <1>8, <1>9, <1>10, DoesComes
  <2>. QED  BY <1>4, <1>10, <2>1 DEF m
<1>11. CASE ~Reachable(at, size)
  <2>1. Comes(Abstract!Outcome(xs, m, flags, pc, "faulted"))
    BY <1>7, <1>8, <1>9, <1>11, ThrowComes
  <2>. QED  BY <1>4, <1>11, <2>1 DEF m
<1>. QED  BY <1>10, <1>11

LEMMA SwapComes ==
    ASSUME Working, NEW i \in Instructions, i.op \in Swaps, Swap(i.op), SwapIn(Word, i)
    PROVE  \E o \in Abstract!Swap(i) : Comes(o)
<1>. DEFINE at == ReadReg(i.m1)
            size == Size(i.op)
            v == ReadReg(i.n)
            u == Read(at, size)
            m == Abstract!Stored(at, size, v)
<1>1. /\ at \in Words /\ TypeOK /\ at \in Int /\ size \in {1, 2, 4}
  BY ReadsAreWords, ModulusFacts, SameSizes DEF Working
<1>2. \/ /\ Reachable(at, size)
         /\ Set(i.d, u)
         /\ mem' = Written(at, size, v)
         /\ Next4(pc)
      \/ ~Reachable(at, size) /\ Throw("faulted") /\ UNCHANGED <<x, mem>>
  BY Zenon DEF Swap, SwapIn
<1>3. Abstract!Swap(i) =
        {IF Reachable(at, size) THEN Abstract!Does(Abstract!Put(Seen(x), i.d, u), m, flags)
         ELSE Abstract!Ends("faulted")}
  <2>1. \A r : Abstract!Reads(r) = ReadReg(r)
    BY SeenReads
  <2>2. Abstract!Bytes4(i.op) = size
    BY SameSizes
  <2>3. Abstract!InRam(at, size) = Reachable(at, size) /\ Abstract!Value(at, size) = u
    <3>. HIDE DEF at, size
    <3>. QED  BY RamSame DEF Abstract!InRam, Reachable
  <2>. QED  BY <2>1, <2>2, <2>3, Shown, Zenon DEF Abstract!Swap
<1>4. flags' = flags
  BY DEF Swap
<1>. HIDE DEF at, size, v
<1>5. CASE Reachable(at, size) /\ Set(i.d, u) /\ mem' = Written(at, size, v) /\ Next4(pc)
  <2>1. u \in Words
    BY <1>1, <1>5, WordsRead
  <2>. HIDE DEF u
  <2>2. u \in Int /\ Wrap(u) = u
    BY <2>1, WrapFacts, ModulusFacts
  <2>3. Seen(x') = Abstract!Put(Seen(x), i.d, u)
    BY <1>1, <1>5, <2>2, SetComes
  <2>4. mem' = m
    BY <1>1, <1>5, StoredIsWritten
  <2>. HIDE DEF m
  <2>5. Comes(Abstract!Does(Abstract!Put(Seen(x), i.d, u), m, flags))
    BY <1>4, <1>5, <2>3, <2>4, DoesComes
  <2>. QED  BY <1>3, <1>5, <2>5
<1>6. CASE ~Reachable(at, size) /\ Throw("faulted") /\ UNCHANGED <<x, mem>>
  <2>1. UNCHANGED Data
    BY <1>4, <1>6 DEF Data
  <2>2. Comes(Abstract!Ends("faulted"))
    BY <1>6, <2>1, SameComes
  <2>. QED  BY <1>3, <1>6, <2>2
<1>. QED  BY <1>2, <1>5, <1>6

-----------------------------------------------------------------------------
(* The loop of run, and the theorem. *)

\* RAM holds the encoding of the program, and zeros after it.
Loaded ==
    /\ prog \in Seq(Instructions)
    /\ code = [k \in 0 .. (RamBytes \div 4) - 1 |-> IF k < Len(prog) THEN Encode(prog[k + 1]) ELSE {}]

\* What every step keeps: a run that goes on has instructions left.
Inductive == TypeOK /\ Loaded /\ (Running => left # 0)

LEMMA HltFacts ==
    /\ [op |-> "hlt"] \in Instructions
    /\ Encode([op |-> "hlt"]) = {}
<1>. DEFINE i == [op |-> "hlt"]
<1>1. i \in [op : {"hlt", "nop"}]
  OBVIOUS
<1>2. i \in Instructions
  BY <1>1, Zenon DEF Instructions
<1>3. i.op = "hlt" /\ Opcode["hlt"] = 0
  BY DEF Opcode
<1>. HIDE DEF i
<1>4. Encode(i) = Join(Bare(i))
  BY <1>3 DEF Encode, AluOps, Adders, Subbers, Logicals, Compares, Shifts, LongMuls, Moves, Loads, Stores, Swaps,
         Jumps, RegJumps
<1>5. Bare(i) = <<<<6, 0>>, <<26, 0>>>>
  BY <1>3, Zenon DEF Bare
<1>6. Encode(i) = {}
  BY <1>4, <1>5, WordOfHlt
<1>. QED  BY <1>2, <1>6 DEF i

LEMMA WordFetched ==
    ASSUME TypeOK, Loaded, pc < RamBytes
    PROVE  Abstract!At(pc) \in Instructions /\ Word = Encode(Abstract!At(pc))
<1>. DEFINE k == pc \div 4
<1>1. k \in 0 .. (RamBytes \div 4) - 1
  <2>1. RamBytes \in Nat /\ RamBytes % 4 = 0 /\ pc \in Nat
    BY CpuAssumption, ModulusFacts DEF TypeOK
  <2>2. \A R, p \in Nat : R % 4 = 0 /\ p < R => p \div 4 \in 0 .. (R \div 4) - 1
    OBVIOUS
  <2>. QED  BY <2>1, <2>2
<1>2. Word = IF k < Len(prog) THEN Encode(prog[k + 1]) ELSE {}
  <2>. HIDE DEF k
  <2>1. code[k] = IF k < Len(prog) THEN Encode(prog[k + 1]) ELSE {}
    BY <1>1 DEF Loaded
  <2>. QED  BY <2>1 DEF Word, k
<1>3. Abstract!At(pc) = IF k < Len(prog) THEN prog[k + 1] ELSE [op |-> "hlt"]
  BY DEF Abstract!At
<1>. HIDE DEF k
<1>4. k < Len(prog) => prog[k + 1] \in Instructions
  BY <1>1 DEF Loaded
<1>. QED  BY <1>2, <1>3, <1>4, HltFacts

-----------------------------------------------------------------------------
(* Which action answers to an opcode. *)

Mnemonics == DOMAIN Opcode \ {"vabs", "vmov"}

\* The action that answers to a mnemonic is the one named for it.
Answered(op) ==
    \/ op = "hlt" /\ Hlt
    \/ op = "nop" /\ Nop
    \/ op = "mul" /\ Mul
    \/ op = "adrp" /\ Adrp
    \/ op = "swi" /\ Swi
    \/ op \in Adders \cup Subbers /\ AddSub(op)
    \/ op \in LongMuls /\ LongMul(op)
    \/ op \in Logicals /\ Logic(op)
    \/ op \in Shifts /\ Shift(op)
    \/ op \in Compares /\ Compare(op)
    \/ op \in Moves /\ Move(op)
    \/ op \in Loads \cup Stores /\ BadMode
    \/ op \in Loads /\ Load(op)
    \/ op \in Stores /\ Store(op)
    \/ op \in Swaps /\ Swap(op)
    \/ op \in Jumps /\ Jump(op)
    \/ op \in RegJumps /\ RegJump(op)

LEMMA NoWild == TypeOK /\ pc < RamBytes => ~Wild
BY FieldsAreNumbers, CpuAssumption, ModulusFacts DEF Wild

LEMMA Answers ==
    ASSUME TypeOK, Turn, pc < RamBytes, NEW op \in Mnemonics, OpOf(Word) = Opcode[op]
    PROVE  Answered(op)
<1>1. \A o \in DOMAIN Opcode : Fetched(o) => o = op
  BY OpcodesDiffer DEF Fetched, Mnemonics
<1>2. Adders \cup Subbers \cup LongMuls \cup Logicals \cup Shifts \cup Compares \cup Moves \cup Loads \cup Stores
        \cup Swaps \cup Jumps \cup RegJumps \cup {"mul", "adrp", "swi"} \subseteq DOMAIN Opcode
  BY DEF Opcode, Adders, Subbers, Logicals, Compares, Shifts, LongMuls, Moves, Loads, Stores, Swaps, Jumps, RegJumps
<1>3. Hlt => op = "hlt"
  BY OpcodesDiffer DEF Hlt, Mnemonics
<1>4. Nop => op = "nop"
  BY OpcodesDiffer DEF Nop, Mnemonics
<1>5. BadMode => op \in Loads \cup Stores
  BY <1>2, OpcodesDiffer DEF BadMode, Mnemonics
<1>6. (Mul => op = "mul") /\ (Adrp => op = "adrp") /\ (Swi => op = "swi")
  BY <1>1, <1>2 DEF Mul, Adrp, Swi
<1>7. /\ \A o \in Adders \cup Subbers : AddSub(o) => o = op
      /\ \A o \in LongMuls : LongMul(o) => o = op
      /\ \A o \in Logicals : Logic(o) => o = op
      /\ \A o \in Shifts : Shift(o) => o = op
      /\ \A o \in Compares : Compare(o) => o = op
      /\ \A o \in Moves : Move(o) => o = op
  BY <1>1, <1>2 DEF AddSub, LongMul, Logic, Shift, Compare, Move
<1>8. /\ \A o \in Loads : Load(o) => o = op
      /\ \A o \in Stores : Store(o) => o = op
      /\ \A o \in Swaps : Swap(o) => o = op
      /\ \A o \in Jumps : Jump(o) => o = op
      /\ \A o \in RegJumps : RegJump(o) => o = op
  BY <1>1, <1>2 DEF Load, Store, Swap, Jump, RegJump
<1>9. ~Wild
  BY NoWild
<1>10. CASE Hlt \/ Nop \/ Mul \/ BadMode \/ Adrp \/ Swi
  BY <1>3, <1>4, <1>5, <1>6, <1>10, Zenon DEF Answered
<1>11. ASSUME NEW o \in Adders \cup Subbers, AddSub(o) PROVE Answered(op)  BY <1>7, <1>11, Zenon DEF Answered
<1>12. ASSUME NEW o \in LongMuls, LongMul(o) PROVE Answered(op)  BY <1>7, <1>12, Zenon DEF Answered
<1>13. ASSUME NEW o \in Logicals, Logic(o) PROVE Answered(op)    BY <1>7, <1>13, Zenon DEF Answered
<1>14. ASSUME NEW o \in Shifts, Shift(o) PROVE Answered(op)      BY <1>7, <1>14, Zenon DEF Answered
<1>15. ASSUME NEW o \in Compares, Compare(o) PROVE Answered(op)  BY <1>7, <1>15, Zenon DEF Answered
<1>16. ASSUME NEW o \in Moves, Move(o) PROVE Answered(op)        BY <1>7, <1>16, Zenon DEF Answered
<1>17. ASSUME NEW o \in Loads, Load(o) PROVE Answered(op)        BY <1>8, <1>17, Zenon DEF Answered
<1>18. ASSUME NEW o \in Stores, Store(o) PROVE Answered(op)      BY <1>8, <1>18, Zenon DEF Answered
<1>19. ASSUME NEW o \in Swaps, Swap(o) PROVE Answered(op)        BY <1>8, <1>19, Zenon DEF Answered
<1>20. ASSUME NEW o \in Jumps, Jump(o) PROVE Answered(op)        BY <1>8, <1>20, Zenon DEF Answered
<1>21. ASSUME NEW o \in RegJumps, RegJump(o) PROVE Answered(op)  BY <1>8, <1>21, Zenon DEF Answered
<1>. QED  BY <1>9, <1>10, <1>11, <1>12, <1>13, <1>14, <1>15, <1>16, <1>17, <1>18, <1>19, <1>20, <1>21, Zenon DEF Turn

\* The opcode 17, which no mnemonic has, is that of a vector instruction.
LEMMA ShortAnswers ==
    ASSUME TypeOK, Turn, pc < RamBytes, OpOf(Word) = 17
    PROVE  Nop
<1>1. \A o \in DOMAIN Opcode : Opcode[o] # 17
  BY DEF Opcode
<1>2. Adders \cup Subbers \cup LongMuls \cup Logicals \cup Shifts \cup Compares \cup Moves \cup Loads \cup Stores
        \cup Swaps \cup Jumps \cup RegJumps \cup {"mul", "adrp", "swi"} \subseteq DOMAIN Opcode
  BY DEF Opcode, Adders, Subbers, Logicals, Compares, Shifts, LongMuls, Moves, Loads, Stores, Swaps, Jumps, RegJumps
<1>3. \A o \in DOMAIN Opcode : ~Fetched(o)
  BY <1>1 DEF Fetched
<1>4. ~Wild /\ ~Hlt
  BY NoWild DEF Hlt
<1>5. ~BadMode
  BY <1>1, <1>2 DEF BadMode
<1>6. ~Mul /\ ~Adrp /\ ~Swi
  BY <1>2, <1>3 DEF Mul, Adrp, Swi
<1>7. /\ \A o \in Adders \cup Subbers : ~AddSub(o)
      /\ \A o \in LongMuls : ~LongMul(o)
      /\ \A o \in Logicals : ~Logic(o)
      /\ \A o \in Shifts : ~Shift(o)
      /\ \A o \in Compares : ~Compare(o)
      /\ \A o \in Moves : ~Move(o)
  BY <1>2, <1>3 DEF AddSub, LongMul, Logic, Shift, Compare, Move
<1>8. /\ \A o \in Loads : ~Load(o)
      /\ \A o \in Stores : ~Store(o)
      /\ \A o \in Swaps : ~Swap(o)
      /\ \A o \in Jumps : ~Jump(o)
      /\ \A o \in RegJumps : ~RegJump(o)
  BY <1>2, <1>3 DEF Load, Store, Swap, Jump, RegJump
<1>. QED  BY <1>4, <1>5, <1>6, <1>7, <1>8, Zenon DEF Turn

\* What ISA makes of each class of instructions.
LEMMA OutcomesMade ==
    ASSUME NEW i
    PROVE  /\ i.op \in Adders \cup Subbers \cup {"cmp", "cmn"} => Abstract!Outcomes(i) = Abstract!Arithmetic(i)
           /\ i.op \in Logicals \cup {"tst", "teq"} => Abstract!Outcomes(i) = Abstract!Logic(i)
           /\ i.op \in Shifts => Abstract!Outcomes(i) = Abstract!Shift(i)
           /\ i.op \in Moves => Abstract!Outcomes(i) = Abstract!Move(i)
           /\ i.op = "mul" => Abstract!Outcomes(i) = Abstract!Mul(i)
           /\ i.op \in LongMuls => Abstract!Outcomes(i) = Abstract!LongMul(i)
           /\ i.op \in Loads \cup Stores => Abstract!Outcomes(i) = Abstract!Memory(i)
           /\ i.op \in Swaps => Abstract!Outcomes(i) = Abstract!Swap(i)
           /\ i.op \in Jumps \cup RegJumps => Abstract!Outcomes(i) = Abstract!Branch(i)
           /\ i.op = "swi" => Abstract!Outcomes(i) = Abstract!SoftwareInterrupt(i)
           /\ i.op = "adrp" =>
                Abstract!Outcomes(i) = {Abstract!Does(Abstract!Put(Seen(x), i.d, i.page * PageBytes), mem, flags)}
           /\ i.op = "hlt" => Abstract!Outcomes(i) = {Abstract!Ends("halted")}
           /\ i.op = "nop" => Abstract!Outcomes(i) = {Abstract!Same}
<1>. DEFINE op == i.op
            M == Abstract!Memory(i)
<1>1. op = "adrp" => Abstract!Outcomes(i) = {Abstract!Does(Abstract!Put([r \in Regs |-> ReadReg(r)], i.d, i.page * PageBytes), mem, flags)}
  BY DEF Abstract!Outcomes
<1>2. op = "adrp" =>
        Abstract!Outcomes(i) = {Abstract!Does(Abstract!Put(Seen(x), i.d, i.page * PageBytes), mem, flags)}
  BY <1>1, Shown
<1>3. /\ op \in Adders \cup Subbers \cup {"cmp", "cmn"} => Abstract!Outcomes(i) = Abstract!Arithmetic(i)
      /\ op \in Logicals \cup {"tst", "teq"} => Abstract!Outcomes(i) = Abstract!Logic(i)
  BY DEF Abstract!Outcomes, Adders, Subbers, Logicals
<1>4. /\ op \in Shifts => Abstract!Outcomes(i) = Abstract!Shift(i)
      /\ op \in Moves => Abstract!Outcomes(i) = Abstract!Move(i)
      /\ op = "mul" => Abstract!Outcomes(i) = Abstract!Mul(i)
      /\ op \in LongMuls => Abstract!Outcomes(i) = Abstract!LongMul(i)
  BY DEF Abstract!Outcomes, Shifts, Moves, LongMuls
<1>5. /\ op \in Loads \cup Stores => Abstract!Outcomes(i) = Abstract!Memory(i)
      /\ op \in Swaps => Abstract!Outcomes(i) = Abstract!Swap(i)
      /\ op \in Jumps \cup RegJumps => Abstract!Outcomes(i) = Abstract!Branch(i)
  BY DEF Abstract!Outcomes, Loads, Stores, Swaps, Jumps, RegJumps
<1>6. /\ op = "swi" => Abstract!Outcomes(i) = Abstract!SoftwareInterrupt(i)
      /\ op = "hlt" => Abstract!Outcomes(i) = {Abstract!Ends("halted")}
      /\ op = "nop" => Abstract!Outcomes(i) = {Abstract!Same}
  BY DEF Abstract!Outcomes
<1>. QED  BY <1>2, <1>3, <1>4, <1>5, <1>6

-----------------------------------------------------------------------------
(* One turn of the loop, whatever it fetches. *)

LEMMA MnemonicsFacts ==
    /\ \A i \in Instructions : i.op \in AluOps \cup Shifts \cup LongMuls \cup Moves \cup Loads \cup Stores \cup Swaps
                                         \cup {"adrp"} \cup Jumps \cup {"swi"} \cup RegJumps \cup {"hlt", "nop"}
    /\ AluOps \cup Shifts \cup LongMuls \cup Moves \cup Loads \cup Stores \cup Swaps
         \cup {"adrp"} \cup Jumps \cup {"swi"} \cup RegJumps \cup {"hlt", "nop"} \subseteq Mnemonics
<1>1. \A i \in Instructions : i.op \in AluOps \cup Shifts \cup LongMuls \cup Moves \cup Loads \cup Stores \cup Swaps
                                         \cup {"adrp"} \cup Jumps \cup {"swi"} \cup RegJumps \cup {"hlt", "nop"}
  BY Kinds
<1>2. AluOps \cup Shifts \cup LongMuls \cup Moves \cup Loads \cup Stores \cup Swaps
         \cup {"adrp"} \cup Jumps \cup {"swi"} \cup RegJumps \cup {"hlt", "nop"} \subseteq Mnemonics
  BY DEF Mnemonics, Opcode, AluOps, Adders, Subbers, Logicals, Compares, Shifts, LongMuls, Moves, Loads, Stores, Swaps,
         Jumps, RegJumps
<1>. QED  BY <1>1, <1>2

\* Mnemonics of one class are of no other.
LEMMA ClassesDiffer ==
    ASSUME NEW op, Answered(op)
    PROVE  /\ op \in Adders \cup Subbers => AddSub(op)
           /\ op \in Logicals => Logic(op)
           /\ op \in Compares => Compare(op)
           /\ op = "mul" => Mul
           /\ op \in Shifts => Shift(op)
           /\ op \in LongMuls => LongMul(op)
           /\ op \in Moves => Move(op)
           /\ op \in Loads => BadMode \/ Load(op)
           /\ op \in Stores => BadMode \/ Store(op)
           /\ op \in Swaps => Swap(op)
           /\ op = "adrp" => Adrp
           /\ op \in Jumps => Jump(op)
           /\ op \in RegJumps => RegJump(op)
           /\ op = "swi" => Swi
           /\ op = "hlt" => Hlt
           /\ op = "nop" => Nop
BY DEF Answered, Adders, Subbers, Logicals, Compares, Shifts, LongMuls, Moves, Loads, Stores, Swaps, Jumps, RegJumps

LEMMA InstructionComes ==
    ASSUME Working, Turn, pc < RamBytes, NEW i \in Instructions, Word = Encode(i)
    PROVE  \E o \in Abstract!Outcomes(i) : Comes(o)
<1>1. OpOf(Word) = Opcode[i.op] => Answered(i.op)
  <2>1. i.op \in Mnemonics
    BY MnemonicsFacts
  <2>. QED  BY <2>1, Answers DEF Working
<1>2. CASE i.op \in AluOps
  <2>1. AluIn(Word, i)
    BY <1>2, EncodeAlu
  <2>2. Answered(i.op)
    BY <1>1, <2>1 DEF AluIn
  <2>3. CASE i.op \in Adders \cup Subbers
    BY <2>1, <2>2, <2>3, ClassesDiffer, OutcomesMade, AddSubComes
  <2>4. CASE i.op \in Logicals
    BY <2>1, <2>2, <2>4, ClassesDiffer, OutcomesMade, LogicComes
  <2>5. CASE i.op \in {"cmp", "cmn"}
    <3>1. i.op \in Compares
      BY <2>5 DEF Compares
    <3>. QED  BY <2>1, <2>2, <2>5, <3>1, ClassesDiffer, OutcomesMade, CompareComes
  <2>6. CASE i.op \in {"tst", "teq"}
    <3>1. i.op \in Compares
      BY <2>6 DEF Compares
    <3>. QED  BY <2>1, <2>2, <2>6, <3>1, ClassesDiffer, OutcomesMade, TestComes
  <2>7. CASE i.op = "mul"
    BY <2>1, <2>2, <2>7, ClassesDiffer, OutcomesMade, MulComes
  <2>. QED  BY <1>2, <2>3, <2>4, <2>5, <2>6, <2>7 DEF AluOps, Compares
<1>3. CASE i.op \in Shifts
  <2>1. ShiftIn(Word, i)
    BY <1>3, EncodeShift
  <2>2. Answered(i.op)
    BY <1>1, <2>1 DEF ShiftIn
  <2>. QED  BY <1>3, <2>1, <2>2, ClassesDiffer, OutcomesMade, ShiftComes
<1>4. CASE i.op \in LongMuls
  <2>1. LongMulIn(Word, i)
    BY <1>4, EncodeLongMul
  <2>2. Answered(i.op)
    BY <1>1, <2>1 DEF LongMulIn
  <2>. QED  BY <1>4, <2>1, <2>2, ClassesDiffer, OutcomesMade, LongMulComes
<1>5. CASE i.op \in Moves /\ i.arg.imm
  <2>1. MoveIn(Word, i)
    BY <1>5, EncodeMove
  <2>2. Answered(i.op)
    BY <1>1, <1>5, <2>1 DEF MoveIn
  <2>. QED  BY <1>5, <2>1, <2>2, ClassesDiffer, OutcomesMade, MoveComes
<1>6. CASE i.op \in Moves /\ ~i.arg.imm
  <2>1. MoveIn(Word, i)
    BY <1>6, EncodeShort
  <2>2. Nop
    BY <1>6, <2>1, ShortAnswers DEF MoveIn, Working
  <2>. QED  BY <1>6, <2>2, OutcomesMade, ShortMoveComes
<1>7. CASE i.op \in Loads \cup Stores
  <2>1. MemoryIn(Word, i)
    BY <1>7, EncodeMemory
  <2>2. Answered(i.op)
    BY <1>1, <2>1 DEF MemoryIn
  <2>3. i.mode = "none" <=> Mode(Word) = 3
    <3>1. i.mode \in DOMAIN AddrType /\ Mode(Word) = AddrType[i.mode]
      BY <1>7, <2>1, Kinds DEF MemoryIn
    <3>. QED  BY <3>1 DEF AddrType
  <2>4. CASE BadMode
    <3>1. i.mode = "none"
      BY <2>3, <2>4 DEF BadMode
    <3>. QED  BY <1>7, <2>4, <3>1, OutcomesMade, BadModeComes
  <2>5. CASE i.op \in Loads /\ Load(i.op)
    <3>1. i.mode # "none"
      BY <2>3, <2>5 DEF Load
    <3>. QED  BY <1>7, <2>1, <2>5, <3>1, OutcomesMade, LoadComes
  <2>6. CASE i.op \in Stores /\ Store(i.op)
    <3>1. i.mode # "none"
      BY <2>3, <2>6 DEF Store
    <3>. QED  BY <1>7, <2>1, <2>6, <3>1, OutcomesMade, StoreComes
  <2>. QED  BY <1>7, <2>2, <2>4, <2>5, <2>6, ClassesDiffer
<1>8. CASE i.op \in Swaps
  <2>1. SwapIn(Word, i)
    BY <1>8, EncodeSwap
  <2>2. Answered(i.op)
    BY <1>1, <2>1 DEF SwapIn
  <2>. QED  BY <1>8, <2>1, <2>2, ClassesDiffer, OutcomesMade, SwapComes
<1>9. CASE i.op = "adrp"
  <2>1. AdrpIn(Word, i)
    BY <1>9, EncodeAdrp
  <2>2. Answered(i.op)
    BY <1>1, <2>1 DEF AdrpIn
  <2>3. Adrp
    BY <1>9, <2>2, ClassesDiffer
  <2>4. Comes(Abstract!Does(Abstract!Put(Seen(x), i.d, i.page * PageBytes), mem, flags))
    BY <1>9, <2>1, <2>3, AdrpComes
  <2>. QED  BY <1>9, <2>4, OutcomesMade
<1>10. CASE i.op \in Jumps
  <2>1. JumpIn(Word, i)
    BY <1>10, EncodeJump
  <2>2. Answered(i.op)
    BY <1>1, <2>1 DEF JumpIn
  <2>. QED  BY <1>10, <2>1, <2>2, ClassesDiffer, OutcomesMade, JumpComes
<1>11. CASE i.op \in RegJumps
  <2>1. RegJumpIn(Word, i)
    BY <1>11, EncodeRegJump
  <2>2. Answered(i.op)
    BY <1>1, <2>1 DEF RegJumpIn
  <2>. QED  BY <1>11, <2>1, <2>2, ClassesDiffer, OutcomesMade, RegJumpComes
<1>12. CASE i.op = "swi"
  <2>1. JumpIn(Word, i)
    BY <1>12, EncodeJump
  <2>2. Answered(i.op)
    BY <1>1, <2>1 DEF JumpIn
  <2>. QED  BY <1>12, <2>1, <2>2, ClassesDiffer, OutcomesMade, SwiComes
<1>13. CASE i.op \in {"hlt", "nop"}
  <2>1. BareIn(Word, i)
    BY <1>13, EncodeBare
  <2>2. Answered(i.op)
    BY <1>1, <2>1 DEF BareIn
  <2>3. CASE i.op = "hlt"
    <3>1. Throw("halted") /\ UNCHANGED Data
      BY <2>2, <2>3, ClassesDiffer DEF Hlt
    <3>2. Comes(Abstract!Ends("halted"))
      BY <3>1, SameComes
    <3>. QED  BY <2>3, <3>2, OutcomesMade
  <2>4. CASE i.op = "nop"
    <3>1. Next4(pc) /\ UNCHANGED Data
      BY <2>2, <2>4, ClassesDiffer DEF Nop
    <3>2. Comes(Abstract!Same)
      BY <3>1, SameComes
    <3>. QED  BY <2>4, <3>2, OutcomesMade
  <2>. QED  BY <1>13, <2>3, <2>4
<1>. QED  BY MnemonicsFacts, <1>2, <1>3, <1>4, <1>5, <1>6, <1>7, <1>8, <1>9, <1>10, <1>11, <1>12, <1>13

LEMMA WildComes ==
    ASSUME Working, Turn, ~(pc < RamBytes)
    PROVE  Comes(Abstract!Ends("wild"))
<1>1. Wild
  BY DEF Turn, Hlt, Nop, Mul, BadMode, Adrp, Swi, AddSub, LongMul, Logic, Shift, Compare, Move, Load, Store, Swap,
         Jump, RegJump, Fetched
<1>2. Throw("wild") /\ UNCHANGED Data
  BY <1>1 DEF Wild
<1>. QED  BY <1>2, SameComes

-----------------------------------------------------------------------------
(* The theorem. *)

LEMMA ShownNext == [r \in Regs |-> ReadReg(r)]' = Seen(x')
BY DEF Seen, ReadReg

LEMMA TurnRuns == Turn => Running /\ UNCHANGED <<prog, code>>
BY DEF Turn, Hlt, Nop, Mul, BadMode, Adrp, Swi, Wild, AddSub, LongMul, Logic, Shift, Compare, Move, Load, Store, Swap,
       Jump, RegJump, Fetched

LEMMA TurnImplements ==
    ASSUME Inductive, Turn
    PROVE  Abstract!Turn
<1>. DEFINE made == IF pc < RamBytes THEN Abstract!Outcomes(Abstract!At(pc)) ELSE {Abstract!Ends("wild")}
<1>1. Working /\ Running /\ UNCHANGED prog
  BY TurnRuns DEF Working, Inductive
<1>2. \E o \in made : Comes(o)
  <2>1. CASE pc < RamBytes
    <3>1. Abstract!At(pc) \in Instructions /\ Word = Encode(Abstract!At(pc))
      BY <2>1, WordFetched DEF Inductive
    <3>. QED  BY <1>1, <2>1, <3>1, InstructionComes
  <2>2. CASE ~(pc < RamBytes)
    BY <1>1, <2>2, WildComes
  <2>. QED  BY <2>1, <2>2
<1>3. PICK o \in made : Comes(o)
  BY <1>2
<1>4. o \in IF pc < RamBytes THEN Abstract!Outcomes(Abstract!At(pc)) ELSE {Abstract!Ends("wild")}
  BY <1>3
<1>. HIDE DEF made
<1>5. /\ [r \in Regs |-> ReadReg(r)]' = o.x /\ mem' = o.mem /\ flags' = o.flags
      /\ pc' = o.pc % Abstract!Modulus
      /\ left' = IF o.ends = "no" /\ left > 0 THEN left - 1 ELSE left
      /\ status' = IF o.ends # "no" THEN o.ends
                     ELSE IF left = 1 THEN "counted" ELSE "running"
  BY <1>3, ShownNext, SameWords, Zenon DEF Comes
<1>6. status = "running"
  BY <1>1 DEF Running
<1>. QED  BY <1>1, <1>4, <1>5, <1>6, Zenon DEF Abstract!Turn

LEMMA InitImplements == Init => Abstract!Init
<1>. SUFFICES ASSUME Init PROVE Abstract!Init
  OBVIOUS
<1>1. PICK start \in Starts :
        /\ prog = start.prog /\ mem = start.mem /\ flags = start.flags
        /\ x = [r \in Regs |-> [ResetRegs[r] EXCEPT !.val = start.regs[r]]]
  BY DEF Init
<1>2. RegisterFile(x)
  BY <1>1, RegistersAtRest
<1>3. \A r \in Regs : x[r].val = start.regs[r]
  BY <1>1 DEF ResetRegs
<1>4. \A r \in Regs : ReadReg(r) = IF r = XZR THEN 0 ELSE start.regs[r]
  BY <1>2, <1>3, ReadOfFile DEF ReadReg
<1>5. [r \in Regs |-> ReadReg(r)] = [r \in Regs |-> IF r = Abstract!XZR THEN 0 ELSE start.regs[r]]
  BY <1>4, SameNames
<1>6. pc = 0 /\ status = "ready" /\ left = 0
  BY DEF Init
<1>. QED  BY <1>1, <1>5, <1>6, Zenon DEF Abstract!Init

LEMMA RunImplements == ASSUME NEW n \in 0 .. MaxRun, Run(n) PROVE Abstract!Run(n)
<1>1. /\ status \notin {"running", "wild"} /\ status' = "running"
      /\ left' = (IF n = 0 THEN -1 ELSE n)
      /\ UNCHANGED <<prog, mem, x, flags, pc>>
  BY DEF Run, Running, Forever
<1>2. UNCHANGED [r \in Regs |-> ReadReg(r)]
  BY <1>1, Shown, ShownNext
<1>. QED  BY <1>1, <1>2 DEF Abstract!Run

\* Whether an address is cleared when RAM is reset, in the two ways of saying it.
LEMMA ClearedTwice == \A a \in Int : a < RamBytes - PageBytes <=> a + PageBytes < RamBytes
BY CpuAssumption, ModulusFacts

LEMMA ResetImplements ==
    ASSUME TypeOK, Loaded, Reset
    PROVE  Abstract!Reset
<1>. DEFINE cleared(a) == a < RamBytes - PageBytes
<1>1. /\ mem' = [a \in DOMAIN mem |-> IF cleared(a) THEN 0 ELSE mem[a]]
      /\ prog' = [k \in DOMAIN prog |-> IF cleared(4 * (k - 1)) THEN [op |-> "hlt"] ELSE prog[k]]
      /\ x' = ResetRegs /\ flags' = NoFlags /\ pc' = 0 /\ status' = "ready" /\ left' = left
      /\ status \notin {"running", "wild"}
  BY DEF Reset, Running
<1>2. DOMAIN mem \subseteq Int /\ DOMAIN prog \subseteq Int
  BY CpuAssumption, ModulusFacts DEF TypeOK, Loaded
<1>3. \A a \in Int : cleared(a) <=> a + PageBytes < RamBytes
  BY ClearedTwice
<1>. HIDE DEF cleared
<1>4. mem' = [a \in DOMAIN mem |-> IF a + PageBytes < RamBytes THEN 0 ELSE mem[a]]
  BY <1>1, <1>2, <1>3
<1>5. prog' = [k \in DOMAIN prog |->
                 IF 4 * (k - 1) + PageBytes < RamBytes THEN [op |-> "hlt"] ELSE prog[k]]
  <2>1. \A k \in DOMAIN prog : cleared(4 * (k - 1)) <=> 4 * (k - 1) + PageBytes < RamBytes
    BY <1>2, <1>3
  <2>. QED  BY <1>1, <2>1
<1>6. [r \in Regs |-> ReadReg(r)]' = [r \in Regs |-> 0]
  <2>1. \A r \in Regs : ReadFrom(ResetRegs, r) = 0
    <3>1. \A r \in Regs : ResetRegs[r].val = 0
      BY DEF ResetRegs
    <3>. QED  BY <3>1, RegistersAtRest, ReadOfFile
  <2>2. Seen(x') = [r \in Regs |-> 0]
    BY <1>1, <2>1 DEF Seen
  <2>. QED  BY <2>2, ShownNext
<1>7. flags' = [N |-> FALSE, Z |-> FALSE, C |-> FALSE, V |-> FALSE]
  BY <1>1 DEF NoFlags
<1>. QED  BY <1>1, <1>4, <1>5, <1>6, <1>7, Zenon DEF Abstract!Reset

-----------------------------------------------------------------------------
(* What the steps keep. *)

LEMMA InitLoads == Init => Inductive
<1>. SUFFICES ASSUME Init PROVE Inductive
  OBVIOUS
<1>1. PICK start \in Starts : prog = start.prog
  BY DEF Init
<1>2. prog \in Seq(Instructions)
  BY <1>1, StartsAssumption
<1>3. ~Running /\ Loaded
  BY <1>2 DEF Init, Loaded, Running
<1>. QED  BY <1>3, InitTyped DEF Inductive

\* A step that leaves the program, and runs on only with instructions left.
LEMMA TurnKeeps == ASSUME Inductive, Turn PROVE Inductive'
<1>1. Abstract!Turn /\ TypeOK' /\ UNCHANGED <<prog, code>>
  BY TurnImplements, TurnTyped, TurnRuns DEF Inductive
<1>2. Loaded'
  BY <1>1 DEF Inductive, Loaded
<1>3. Running' => left' # 0
  <2>1. Running /\ left # 0 /\ left \in {-1} \cup 0 .. MaxRun /\ MaxRun \in Nat
    BY TurnRuns, CpuAssumption DEF Inductive, TypeOK, Forever
  <2>2. PICK o \in IF pc < RamBytes THEN Abstract!Outcomes(Abstract!At(pc)) ELSE {Abstract!Ends("wild")} :
          /\ left' = IF o.ends = "no" /\ left > 0 THEN left - 1 ELSE left
          /\ status' = IF o.ends # "no" THEN o.ends
                       ELSE IF left = 1 THEN "counted" ELSE "running"
    BY <1>1, Zenon DEF Abstract!Turn
  <2>. QED  BY <2>1, <2>2 DEF Running
<1>. QED  BY <1>1, <1>2, <1>3 DEF Inductive

LEMMA RunKeeps == ASSUME Inductive, NEW n \in 0 .. MaxRun, Run(n) PROVE Inductive'
<1>1. TypeOK' /\ UNCHANGED <<prog, code>> /\ left' # 0
  BY RunTyped, CpuAssumption DEF Inductive, Run, Forever
<1>2. Loaded'
  BY <1>1 DEF Inductive, Loaded
<1>. QED  BY <1>1, <1>2 DEF Inductive

LEMMA ResetKeeps == ASSUME Inductive, Reset PROVE Inductive'
<1>. DEFINE cleared(a) == a < RamBytes - PageBytes
            hlt == [op |-> "hlt"]
            words == 0 .. (RamBytes \div 4) - 1
<1>1. /\ code' = [k \in DOMAIN code |-> IF cleared(4 * k) THEN {} ELSE code[k]]
      /\ prog' = [k \in DOMAIN prog |-> IF cleared(4 * (k - 1)) THEN hlt ELSE prog[k]]
      /\ status' = "ready"
  BY DEF Reset
<1>2. TypeOK' /\ ~Running'
  BY <1>1, ResetTyped DEF Inductive, Running
<1>3. /\ prog \in Seq(Instructions)
      /\ code = [k \in words |-> IF k < Len(prog) THEN Encode(prog[k + 1]) ELSE {}]
  BY DEF Inductive, Loaded
<1>4. hlt \in Instructions /\ Encode(hlt) = {}
  BY HltFacts
<1>5. words \subseteq Nat
  OBVIOUS
<1>. HIDE DEF cleared, hlt, words
<1>6. prog' \in Seq(Instructions) /\ Len(prog') = Len(prog)
  BY <1>1, <1>3, <1>4
<1>7. \A k \in words : code'[k] = IF k < Len(prog') THEN Encode(prog'[k + 1]) ELSE {}
  <2>. SUFFICES ASSUME NEW k \in words PROVE code'[k] = IF k < Len(prog') THEN Encode(prog'[k + 1]) ELSE {}
    OBVIOUS
  <2>1. k \in Nat /\ (k + 1) - 1 = k
    BY <1>5
  <2>2. code'[k] = IF cleared(4 * k) THEN {} ELSE IF k < Len(prog) THEN Encode(prog[k + 1]) ELSE {}
    BY <1>1, <1>3
  <2>3. CASE k < Len(prog)
    <3>1. k + 1 \in DOMAIN prog
      BY <1>3, <2>1, <2>3
    <3>2. prog'[k + 1] = IF cleared(4 * ((k + 1) - 1)) THEN hlt ELSE prog[k + 1]
      BY <1>1, <3>1
    <3>. QED  BY <1>4, <1>6, <2>1, <2>2, <2>3, <3>2
  <2>4. CASE ~(k < Len(prog))
    BY <1>6, <2>2, <2>4
  <2>. QED  BY <2>3, <2>4
<1>8. DOMAIN code' = words /\ code' = [k \in words |-> code'[k]]
  BY <1>1, <1>3
<1>9. Loaded'
  <2>1. code' = [k \in words |-> IF k < Len(prog') THEN Encode(prog'[k + 1]) ELSE {}]
    BY <1>7, <1>8
  <2>. QED  BY <1>6, <2>1 DEF Loaded, words
<1>. QED  BY <1>2, <1>9 DEF Inductive

LEMMA StepKeeps == Inductive /\ [Next]_vars => Inductive'
<1>1. ASSUME Inductive, UNCHANGED vars PROVE Inductive'
  BY <1>1 DEF Inductive, TypeOK, Loaded, Running, vars
<1>. QED  BY <1>1, TurnKeeps, RunKeeps, ResetKeeps DEF Next

LEMMA StepImplements == Inductive /\ [Next]_vars => [Abstract!Next]_(Abstract!vars)
<1>1. ASSUME UNCHANGED vars PROVE UNCHANGED Abstract!vars
  <2>1. UNCHANGED [r \in Regs |-> ReadReg(r)]
    BY <1>1, Shown, ShownNext DEF vars
  <2>. QED  BY <1>1, <2>1 DEF vars, Abstract!vars
<1>2. ASSUME Inductive, Turn PROVE Abstract!Next
  BY <1>2, TurnImplements DEF Abstract!Next
<1>3. ASSUME Inductive, Reset PROVE Abstract!Next
  BY <1>3, ResetImplements DEF Abstract!Next, Inductive
<1>4. ASSUME NEW n \in 0 .. MaxRun, Run(n) PROVE Abstract!Next
  BY <1>4, RunImplements DEF Abstract!Next
<1>. QED  BY <1>1, <1>2, <1>3, <1>4 DEF Next

(* Every program the assembler can make does what ISA says its instructions mean, for every
   size of RAM and every start. *)
THEOREM ProcessorImplementsISA == Spec => ISASpec
<1>1. Init => Inductive /\ Abstract!Init
  BY InitLoads, InitImplements
<1>. QED  BY <1>1, StepKeeps, StepImplements, PTL DEF Spec, ISASpec, Abstract!Spec

-----------------------------------------------------------------------------
(* The listing: texts without their empty operands. *)

\* What Stripped computes: the first k operands without the empty ones.
KeptTable(g, args) ==
    g = [k \in 0 .. Len(args) |->
           IF k = 0 THEN <<>>
           ELSE IF args[k] = Nothing THEN g[k - 1] ELSE Append(g[k - 1], args[k])]

LEMMA KeptExists ==
    ASSUME NEW V, NEW args \in Seq(V)
    PROVE  \E g : KeptTable(g, args)
<1>. DEFINE n == Len(args)
            R == [k \in 0 .. n |-> Seq(V)]
            step == [kv \in (1 .. n) \X Seq(V) |->
                       IF args[kv[1]] = Nothing THEN kv[2] ELSE Append(kv[2], args[kv[1]])]
<1>1. n \in Nat /\ \A k \in 1 .. n : args[k] \in V
  OBVIOUS
<1>2. \A k \in 1 .. n : \A v \in Seq(V) :
        /\ step[<<k, v>>] = IF args[k] = Nothing THEN v ELSE Append(v, args[k])
        /\ step[<<k, v>>] \in Seq(V)
  <2>. SUFFICES ASSUME NEW k \in 1 .. n, NEW v \in Seq(V)
                PROVE  /\ step[<<k, v>>] = IF args[k] = Nothing THEN v ELSE Append(v, args[k])
                       /\ step[<<k, v>>] \in Seq(V)
    OBVIOUS
  <2>1. step[<<k, v>>] = IF args[k] = Nothing THEN v ELSE Append(v, args[k])
    OBVIOUS
  <2>2. Append(v, args[k]) \in Seq(V)
    BY <1>1
  <2>. QED  BY <2>1, <2>2
<1>. HIDE DEF step, n
<1>3. LoopWithin(n, R, <<>>, step)
  <2>1. <<>> \in R[0]
    BY <1>1
  <2>. QED  BY <1>1, <1>2, <2>1 DEF LoopWithin
<1>4. PICK g : LoopOf(g, n, <<>>, step) /\ \A k \in 0 .. n : g[k] \in R[k]
  <2>. HIDE DEF R
  <2>. QED  BY <1>1, <1>3, LoopExists
<1>5. ASSUME NEW k \in 0 .. n, k # 0
      PROVE  step[<<k, g[k - 1]>>] = IF args[k] = Nothing THEN g[k - 1] ELSE Append(g[k - 1], args[k])
  <2>1. k \in 1 .. n /\ k - 1 \in 0 .. n
    BY <1>1, <1>5
  <2>2. g[k - 1] \in Seq(V)
    BY <1>4, <2>1
  <2>. QED  BY <1>2, <2>1, <2>2
<1>6. g = [k \in 0 .. n |-> IF k = 0 THEN <<>>
                            ELSE IF args[k] = Nothing THEN g[k - 1] ELSE Append(g[k - 1], args[k])]
  BY <1>4, <1>5 DEF LoopOf
<1>. QED  BY <1>6 DEF KeptTable, n

LEMMA StrippedIsKept ==
    ASSUME NEW V, NEW args \in Seq(V)
    PROVE  \E g : KeptTable(g, args) /\ Stripped(args) = g[Len(args)]
<1>. DEFINE g == CHOOSE h : KeptTable(h, args)
<1>1. Stripped(args) = g[Len(args)]
  BY DEF Stripped, KeptTable
<1>2. KeptTable(g, args)
  BY KeptExists
<1>. QED  BY <1>1, <1>2

LEMMA StrippedAppend ==
    ASSUME NEW V, NEW s \in Seq(V), NEW e \in V
    PROVE  Stripped(Append(s, e)) = IF e = Nothing THEN Stripped(s) ELSE Append(Stripped(s), e)
<1>. DEFINE n == Len(s)
            t == Append(s, e)
<1>1. n \in Nat /\ t \in Seq(V) /\ Len(t) = n + 1 /\ t[n + 1] = e /\ \A k \in 1 .. n : t[k] = s[k]
  OBVIOUS
<1>. HIDE DEF t
<1>2. PICK g : KeptTable(g, s) /\ Stripped(s) = g[n]
  BY StrippedIsKept
<1>3. PICK h : KeptTable(h, t) /\ Stripped(t) = h[n + 1]
  BY <1>1, StrippedIsKept
<1>. HIDE DEF n
<1>4. /\ \A k \in 0 .. n : g[k] = IF k = 0 THEN <<>> ELSE IF s[k] = Nothing THEN g[k - 1] ELSE Append(g[k - 1], s[k])
      /\ \A k \in 0 .. n + 1 :
           h[k] = IF k = 0 THEN <<>> ELSE IF t[k] = Nothing THEN h[k - 1] ELSE Append(h[k - 1], t[k])
  <2>1. \A k \in 0 .. n : g[k] = IF k = 0 THEN <<>> ELSE IF s[k] = Nothing THEN g[k - 1] ELSE Append(g[k - 1], s[k])
    BY <1>2 DEF KeptTable, n
  <2>2. \A k \in 0 .. n + 1 :
           h[k] = IF k = 0 THEN <<>> ELSE IF t[k] = Nothing THEN h[k - 1] ELSE Append(h[k - 1], t[k])
    BY <1>1, <1>3 DEF KeptTable
  <2>. QED  BY <2>1, <2>2
<1>5. \A k \in 0 .. n : g[k] = h[k]
  <2>. DEFINE T == {k \in 0 .. n : g[k] = h[k]}
  <2>1. 0 \in T
    BY <1>1, <1>4
  <2>2. \A k \in 0 .. n - 1 : k \in T => k + 1 \in T
    <3>. SUFFICES ASSUME NEW k \in 0 .. n - 1, g[k] = h[k] PROVE g[k + 1] = h[k + 1] /\ k + 1 \in 0 .. n
      OBVIOUS
    <3>1. k + 1 \in 0 .. n /\ k + 1 \in 1 .. n /\ k + 1 \in 0 .. n + 1 /\ k + 1 # 0 /\ (k + 1) - 1 = k
      BY <1>1
    <3>. QED  BY <1>1, <1>4, <3>1
  <2>. HIDE DEF T
  <2>3. \A k \in 0 .. n : k \in T
    BY <1>1, <2>1, <2>2, NatInduct
  <2>. QED  BY <2>3 DEF T
<1>6. h[n + 1] = IF e = Nothing THEN h[n] ELSE Append(h[n], e)
  <2>1. n + 1 \in 0 .. n + 1 /\ n + 1 # 0 /\ (n + 1) - 1 = n
    BY <1>1
  <2>. QED  BY <1>1, <1>4, <2>1
<1>. QED  BY <1>1, <1>2, <1>3, <1>5, <1>6 DEF t

LEMMA StrippedEmpty == Stripped(<<>>) = <<>>
<1>1. <<>> \in Seq({}) /\ Len(<<>>) = 0
  OBVIOUS
<1>2. PICK g : KeptTable(g, <<>>) /\ Stripped(<<>>) = g[0]
  BY <1>1, StrippedIsKept
<1>. QED  BY <1>1, <1>2 DEF KeptTable

\* Sequences of operands that are not empty lose nothing, and the empty ones go.
Whole(a, b, c, d, e) ==
    /\ Stripped(<<a>>) = <<a>> /\ Stripped(<<a, b>>) = <<a, b>> /\ Stripped(<<a, b, c>>) = <<a, b, c>>
    /\ Stripped(<<a, b, c, d>>) = <<a, b, c, d>> /\ Stripped(<<a, b, c, d, e>>) = <<a, b, c, d, e>>
    /\ Stripped(<<a, b, c, d, Nothing>>) = <<a, b, c, d>>
    /\ Stripped(<<a, b, c, d, Nothing, e>>) = <<a, b, c, d, e>>

LEMMA StrippedTuples ==
    \A a, b, c, d, e :
      a # Nothing /\ b # Nothing /\ c # Nothing /\ d # Nothing /\ e # Nothing => Whole(a, b, c, d, e)
<1>. SUFFICES ASSUME NEW a, NEW b, NEW c, NEW d, NEW e,
                     a # Nothing, b # Nothing, c # Nothing, d # Nothing, e # Nothing
              PROVE  Whole(a, b, c, d, e)
  OBVIOUS
<1>. DEFINE z == Nothing
            V == {a, b, c, d, e, z}
<1>. HIDE DEF z
<1>1. /\ a \in V /\ b \in V /\ c \in V /\ d \in V /\ e \in V /\ z \in V
      /\ <<>> \in Seq(V) /\ <<a>> \in Seq(V) /\ <<a, b>> \in Seq(V) /\ <<a, b, c>> \in Seq(V)
      /\ <<a, b, c, d>> \in Seq(V) /\ <<a, b, c, d, z>> \in Seq(V)
  OBVIOUS
<1>2. /\ <<a>> = Append(<<>>, a) /\ <<a, b>> = Append(<<a>>, b) /\ <<a, b, c>> = Append(<<a, b>>, c)
      /\ <<a, b, c, d>> = Append(<<a, b, c>>, d) /\ <<a, b, c, d, e>> = Append(<<a, b, c, d>>, e)
      /\ <<a, b, c, d, z>> = Append(<<a, b, c, d>>, z) /\ <<a, b, c, d, z, e>> = Append(<<a, b, c, d, z>>, e)
  OBVIOUS
<1>. HIDE DEF V
<1>3. Stripped(<<a>>) = <<a>>
  BY <1>1, <1>2, StrippedAppend, StrippedEmpty
<1>4. Stripped(<<a, b>>) = <<a, b>>
  BY <1>1, <1>2, <1>3, StrippedAppend
<1>5. Stripped(<<a, b, c>>) = <<a, b, c>>
  BY <1>1, <1>2, <1>4, StrippedAppend
<1>6. Stripped(<<a, b, c, d>>) = <<a, b, c, d>>
  BY <1>1, <1>2, <1>5, StrippedAppend
<1>7. Stripped(<<a, b, c, d, e>>) = <<a, b, c, d, e>>
  BY <1>1, <1>2, <1>6, StrippedAppend
<1>8. Stripped(<<a, b, c, d, z>>) = <<a, b, c, d>>
  BY <1>1, <1>2, <1>6, StrippedAppend DEF z
<1>9. Stripped(<<a, b, c, d, z, e>>) = <<a, b, c, d, e>>
  BY <1>1, <1>2, <1>8, StrippedAppend
<1>. QED  BY <1>3, <1>4, <1>5, <1>6, <1>7, <1>8, <1>9 DEF z, Whole

\* Short sequences, put together and taken apart.
Shapes(a, b, c, d, e, f) ==
    /\ <<a>> \o <<>> = <<a>> /\ <<a>> \o <<b>> = <<a, b>> /\ <<a>> \o <<b, c>> = <<a, b, c>>
    /\ <<a, b>> \o <<c>> = <<a, b, c>> /\ <<a, b>> \o <<c, d>> = <<a, b, c, d>>
    /\ <<a, b, c>> \o <<>> = <<a, b, c>> /\ <<a, b, c>> \o <<d>> = <<a, b, c, d>>
    /\ <<a, b, c>> \o <<d, e>> = <<a, b, c, d, e>> /\ <<a, b>> \o <<c, d, e>> = <<a, b, c, d, e>>
    /\ <<a, b>> \o <<c, d, e, f>> = <<a, b, c, d, e, f>>
    /\ Tail(<<a, b>>) = <<b>> /\ Tail(<<a, b, c>>) = <<b, c>> /\ Tail(<<a, b, c, d>>) = <<b, c, d>>
    /\ Front(<<a, b, c, d>>) = <<a, b, c>>

LEMMA Joined == \A a, b, c, d, e, f : Shapes(a, b, c, d, e, f)
<1>. SUFFICES ASSUME NEW a, NEW b, NEW c, NEW d, NEW e, NEW f PROVE Shapes(a, b, c, d, e, f)
  OBVIOUS
<1>. DEFINE V == {a, b, c, d, e, f}
<1>1. <<a>> \o <<b>> = <<a, b>>
  <2>1. <<a>> \in Seq(V) /\ <<b>> \in Seq(V) /\ <<a, b>> \in Seq(V)
    OBVIOUS
  <2>2. /\ <<a>> \o <<b>> \in Seq(V) /\ Len(<<a>> \o <<b>>) = 2
        /\ Len(<<a, b>>) = 2
    OBVIOUS
  <2>3. \A k \in 1 .. 2 : (<<a>> \o <<b>>)[k] = <<a, b>>[k]
    OBVIOUS
  <2>. QED  BY <2>1, <2>2, <2>3, SeqEqual
<1>2. <<a>> \o <<b, c>> = <<a, b, c>>
  <2>1. <<a>> \in Seq(V) /\ <<b, c>> \in Seq(V) /\ <<a, b, c>> \in Seq(V)
    OBVIOUS
  <2>2. /\ <<a>> \o <<b, c>> \in Seq(V) /\ Len(<<a>> \o <<b, c>>) = 3
        /\ Len(<<a, b, c>>) = 3
    OBVIOUS
  <2>3. \A k \in 1 .. 3 : (<<a>> \o <<b, c>>)[k] = <<a, b, c>>[k]
    OBVIOUS
  <2>. QED  BY <2>1, <2>2, <2>3, SeqEqual
<1>3. <<a, b>> \o <<c>> = <<a, b, c>>
  <2>1. <<a, b>> \in Seq(V) /\ <<c>> \in Seq(V) /\ <<a, b, c>> \in Seq(V)
    OBVIOUS
  <2>2. /\ <<a, b>> \o <<c>> \in Seq(V) /\ Len(<<a, b>> \o <<c>>) = 3
        /\ Len(<<a, b, c>>) = 3
    OBVIOUS
  <2>3. \A k \in 1 .. 3 : (<<a, b>> \o <<c>>)[k] = <<a, b, c>>[k]
    OBVIOUS
  <2>. QED  BY <2>1, <2>2, <2>3, SeqEqual
<1>4. <<a, b>> \o <<c, d>> = <<a, b, c, d>>
  <2>1. <<a, b>> \in Seq(V) /\ <<c, d>> \in Seq(V) /\ <<a, b, c, d>> \in Seq(V)
    OBVIOUS
  <2>2. /\ <<a, b>> \o <<c, d>> \in Seq(V) /\ Len(<<a, b>> \o <<c, d>>) = 4
        /\ Len(<<a, b, c, d>>) = 4
    OBVIOUS
  <2>3. \A k \in 1 .. 4 : (<<a, b>> \o <<c, d>>)[k] = <<a, b, c, d>>[k]
    OBVIOUS
  <2>. QED  BY <2>1, <2>2, <2>3, SeqEqual
<1>5. <<a, b, c>> \o <<d>> = <<a, b, c, d>>
  <2>1. <<a, b, c>> \in Seq(V) /\ <<d>> \in Seq(V) /\ <<a, b, c, d>> \in Seq(V)
    OBVIOUS
  <2>2. /\ <<a, b, c>> \o <<d>> \in Seq(V) /\ Len(<<a, b, c>> \o <<d>>) = 4
        /\ Len(<<a, b, c, d>>) = 4
    OBVIOUS
  <2>3. \A k \in 1 .. 4 : (<<a, b, c>> \o <<d>>)[k] = <<a, b, c, d>>[k]
    OBVIOUS
  <2>. QED  BY <2>1, <2>2, <2>3, SeqEqual
<1>6. <<a, b, c>> \o <<d, e>> = <<a, b, c, d, e>>
  <2>1. <<a, b, c>> \in Seq(V) /\ <<d, e>> \in Seq(V) /\ <<a, b, c, d, e>> \in Seq(V)
    OBVIOUS
  <2>2. /\ <<a, b, c>> \o <<d, e>> \in Seq(V) /\ Len(<<a, b, c>> \o <<d, e>>) = 5
        /\ Len(<<a, b, c, d, e>>) = 5
    OBVIOUS
  <2>3. \A k \in 1 .. 5 : (<<a, b, c>> \o <<d, e>>)[k] = <<a, b, c, d, e>>[k]
    OBVIOUS
  <2>. QED  BY <2>1, <2>2, <2>3, SeqEqual
<1>7. <<a, b>> \o <<c, d, e>> = <<a, b, c, d, e>>
  <2>1. <<a, b>> \in Seq(V) /\ <<c, d, e>> \in Seq(V) /\ <<a, b, c, d, e>> \in Seq(V)
    OBVIOUS
  <2>2. /\ <<a, b>> \o <<c, d, e>> \in Seq(V) /\ Len(<<a, b>> \o <<c, d, e>>) = 5
        /\ Len(<<a, b, c, d, e>>) = 5
    OBVIOUS
  <2>3. \A k \in 1 .. 5 : (<<a, b>> \o <<c, d, e>>)[k] = <<a, b, c, d, e>>[k]
    OBVIOUS
  <2>. QED  BY <2>1, <2>2, <2>3, SeqEqual
<1>8. <<a, b>> \o <<c, d, e, f>> = <<a, b, c, d, e, f>>
  <2>1. <<a, b>> \in Seq(V) /\ <<c, d, e, f>> \in Seq(V) /\ <<a, b, c, d, e, f>> \in Seq(V)
    OBVIOUS
  <2>2. /\ <<a, b>> \o <<c, d, e, f>> \in Seq(V) /\ Len(<<a, b>> \o <<c, d, e, f>>) = 6
        /\ Len(<<a, b, c, d, e, f>>) = 6
    OBVIOUS
  <2>3. \A k \in 1 .. 6 : (<<a, b>> \o <<c, d, e, f>>)[k] = <<a, b, c, d, e, f>>[k]
    OBVIOUS
  <2>. QED  BY <2>1, <2>2, <2>3, SeqEqual
<1>9. <<a>> \o <<>> = <<a>> /\ <<a, b, c>> \o <<>> = <<a, b, c>>
  OBVIOUS
<1>10. Tail(<<a, b>>) = <<b>> /\ Tail(<<a, b, c>>) = <<b, c>> /\ Tail(<<a, b, c, d>>) = <<b, c, d>>
  OBVIOUS
<1>11. Front(<<a, b, c, d>>) = <<a, b, c>>
  <2>1. Front(<<a, b, c, d>>) = SubSeq(<<a, b, c, d>>, 1, 3)
    <3>1. Len(<<a, b, c, d>>) - 1 = 3
      OBVIOUS
    <3>. QED  BY <3>1, Zenon DEF Front
  <2>2. /\ <<a, b, c, d>> \in Seq(V) /\ <<a, b, c>> \in Seq(V)
        /\ Len(<<a, b, c>>) = 3 /\ Len(<<a, b, c, d>>) = 4
    OBVIOUS
  <2>3. SubSeq(<<a, b, c, d>>, 1, 3) \in Seq(V) /\ Len(SubSeq(<<a, b, c, d>>, 1, 3)) = 3
    BY <2>2
  <2>4. \A k \in 1 .. 3 : SubSeq(<<a, b, c, d>>, 1, 3)[k] = <<a, b, c>>[k]
    OBVIOUS
  <2>. QED  BY <2>1, <2>2, <2>3, <2>4, SeqEqual
<1>. QED  BY <1>1, <1>2, <1>3, <1>4, <1>5, <1>6, <1>7, <1>8, <1>9, <1>10, <1>11, Zenon DEF Shapes

LEMMA NotNothing == \A u, v : <<u, v>> # Nothing
<1>1. \A u, v : Len(<<u, v>>) = 2
  OBVIOUS
<1>2. Len(<<"">>) = 1
  OBVIOUS
<1>. QED  BY <1>1, <1>2, Zenon DEF Nothing

LEMMA NoneEmpty ==
    /\ \A r : Rg(r) # Nothing /\ \A v : Num(v) # Nothing /\ \A m : At(m) # Nothing
    /\ \A s, b : <<s, b>> # Nothing
BY NotNothing, Zenon DEF Rg, Num, At

\* Texts with other operands.
LEMMA TextArgs == \A op, s, args : Text(op, s, args).args = args
BY DEF Text

LEMMA TextChanged ==
    \A op, s, args : Text(op, s, args).args = args /\ \A t : [Text(op, s, args) EXCEPT !.args = t] = Text(op, s, t)
BY DEF Text

LEMMA CondStripped ==
    ASSUME NEW op, NEW s, NEW args, NEW c
    PROVE  /\ [[Text(op, s, args) EXCEPT !.cond = c] EXCEPT !.args = Stripped(@)]
                = [Text(op, s, Stripped(args)) EXCEPT !.cond = c]
           /\ [[Text(op, s, args) EXCEPT !.cond = c] EXCEPT !.args = @] = [Text(op, s, args) EXCEPT !.cond = c]
<1>1. \A t : [Text(op, s, t) EXCEPT !.cond = c] = [op |-> op, s |-> s, cond |-> c, args |-> t]
  BY DEF Text
<1>2. \A t, u : [[op |-> op, s |-> s, cond |-> c, args |-> t] EXCEPT !.args = u]
                  = [op |-> op, s |-> s, cond |-> c, args |-> u]
  OBVIOUS
<1>3. [op |-> op, s |-> s, cond |-> c, args |-> args].args = args
  OBVIOUS
<1>. DEFINE r == [Text(op, s, args) EXCEPT !.cond = c]
<1>4. r.args = args /\ \A u : [r EXCEPT !.args = u] = [Text(op, s, u) EXCEPT !.cond = c]
  <2>. DEFINE q == [op |-> op, s |-> s, cond |-> c, args |-> args]
  <2>1. r = q
    BY <1>1, Zenon
  <2>2. \A u : [q EXCEPT !.args = u] = [Text(op, s, u) EXCEPT !.cond = c]
    BY <1>1, <1>2, Zenon
  <2>. HIDE DEF q, r
  <2>3. q.args = args
    BY <1>3 DEF q
  <2>. QED  BY <2>1, <2>2, <2>3
<1>. HIDE DEF r
<1>5. /\ [r EXCEPT !.args = Stripped(@)] = [Text(op, s, Stripped(args)) EXCEPT !.cond = c]
      /\ [r EXCEPT !.args = @] = [Text(op, s, args) EXCEPT !.cond = c]
  BY <1>4
<1>. QED  BY <1>5 DEF r

\* The function a mnemonic has in the table.
TableRow(w, op) ==
    /\ op \in Adders \cup Subbers \cup Logicals \cup {"mul"} => DisassembleInstr(w) = DisassembleFormatO(w, op)
    /\ op \in Compares              => DisassembleInstr(w) = DisassembleCompare(w, op)
    /\ op \in Shifts                => DisassembleInstr(w) = DisassembleFormatO1(w, op)
    /\ op \in LongMuls              => DisassembleInstr(w) = DisassembleFormatO2(w, op)
    /\ op \in Moves                 => DisassembleInstr(w) = DisassembleFormatO3(w, op)
    /\ op \in Loads \cup Stores     => DisassembleInstr(w) = DisassembleFormatM(w, op)
    /\ op \in Swaps                 => DisassembleInstr(w) = DisassembleFormatM1(w, op)
    /\ op = "adrp"                  => DisassembleInstr(w) = DisassembleFormatM2(w, op)
    /\ op \in Jumps \cup {"swi"}    => DisassembleInstr(w) = DisassembleFormatB1(w, op)
    /\ op \in RegJumps              => DisassembleInstr(w) = DisassembleFormatB2(w, op)
    /\ op = "hlt"                   => DisassembleInstr(w) = Text("hlt", FALSE, <<>>)

LEMMA RowFound ==
    ASSUME NEW w, NEW op \in Mnemonics \ {"nop"}, OpOf(w) = Opcode[op]
    PROVE  TableRow(w, op)
<1>. DEFINE o == CHOOSE q \in DOMAIN Opcode : Opcode[q] = OpOf(w)
<1>1. o = op
  BY OpcodesDiffer, Zenon DEF Mnemonics
<1>2. OpOf(w) \notin 10 .. 21 /\ ~(OpOf(w) > 50)
  <2>1. \A q \in DOMAIN Opcode \ {"nop", "vabs", "vmov"} : Opcode[q] \in 0 .. 50 /\ Opcode[q] \notin 10 .. 21
    BY DEF Opcode
  <2>. QED  BY <2>1 DEF Mnemonics
<1>3. DisassembleInstr(w) =
        CASE o \in Adders \cup Subbers \cup Logicals \cup {"mul"} -> DisassembleFormatO(w, o)
             [] o \in Compares              -> DisassembleCompare(w, o)
             [] o \in Shifts                -> DisassembleFormatO1(w, o)
             [] o \in LongMuls              -> DisassembleFormatO2(w, o)
             [] o \in Moves                 -> DisassembleFormatO3(w, o)
             [] o \in Loads \cup Stores     -> DisassembleFormatM(w, o)
             [] o \in Swaps                 -> DisassembleFormatM1(w, o)
             [] o = "adrp"                  -> DisassembleFormatM2(w, o)
             [] o \in Jumps \cup {"swi"}    -> DisassembleFormatB1(w, o)
             [] o \in RegJumps              -> DisassembleFormatB2(w, o)
             [] o = "hlt"                   -> Text("hlt", FALSE, <<>>)
  BY <1>2, Zenon DEF DisassembleInstr
<1>. HIDE DEF o
<1>. QED  BY <1>1, <1>3 DEF TableRow, Adders, Subbers, Logicals, Compares, Shifts, LongMuls, Moves, Loads, Stores,
                            Swaps, Jumps, RegJumps

\* What a reader expects, by class.
SourceRow(i) ==
    /\ i.op \in Adders \cup Subbers \cup Logicals \cup {"mul"} =>
         Source(i) = Text(i.op, i.s, <<Rg(i.d), Rg(i.n)>> \o OperandText(i.arg))
    /\ i.op \in Compares => Source(i) = Text(i.op, FALSE, <<Rg(i.n)>> \o OperandText(i.arg))
    /\ i.op \in Moves    => Source(i) = Text(i.op, i.s, <<Rg(i.d)>> \o OperandText(i.arg))
    /\ i.op \in LongMuls => Source(i) = Text(i.op, i.s, <<Rg(i.d), Rg(i.n), Rg(i.m1), Rg(i.m2)>>)
    /\ i.op \in Loads \cup Stores =>
         Source(i) = Text(i.op, i.s, <<Rg(i.d), Rg(i.n), At(i.mode)>> \o OperandText(i.arg))
    /\ i.op \in Swaps    => Source(i) = Text(i.op, FALSE, <<Rg(i.d), Rg(i.n), At("offset"), Rg(i.m1)>>)
    /\ i.op = "adrp"     => Source(i) = Text(i.op, FALSE, <<Rg(i.d), Num(i.page)>>)
    /\ i.op \in Jumps \cup {"swi"} => Source(i) = [Text(i.op, FALSE, <<Num(i.offset)>>) EXCEPT !.cond = i.cond]
    /\ i.op \in RegJumps => Source(i) = [Text(i.op, FALSE, <<Rg(i.d)>>) EXCEPT !.cond = i.cond]
    /\ i.op \in Shifts   => Source(i) = Text(i.op, FALSE, <<Rg(i.d), Rg(i.n)>> \o OperandText(i.arg))
    /\ i.op = "hlt"      => Source(i) = Text(i.op, FALSE, <<>>)

\* A mnemonic is of one class.
LEMMA OneClass ==
    \A op :
      /\ op \in Compares => op \notin Moves \cup LongMuls \cup Loads \cup Stores \cup Swaps \cup {"adrp"} \cup Jumps \cup {"swi"}
             \cup RegJumps \cup Shifts \cup {"hlt"} \cup Adders \cup Subbers \cup Logicals \cup {"mul"}
      /\ op \in Moves => op \notin Compares \cup LongMuls \cup Loads \cup Stores \cup Swaps \cup {"adrp"} \cup Jumps \cup {"swi"}
             \cup RegJumps \cup Shifts \cup {"hlt"} \cup Adders \cup Subbers \cup Logicals \cup {"mul"}
      /\ op \in LongMuls => op \notin Compares \cup Moves \cup Loads \cup Stores \cup Swaps \cup {"adrp"} \cup Jumps \cup {"swi"}
             \cup RegJumps \cup Shifts \cup {"hlt"} \cup Adders \cup Subbers \cup Logicals \cup {"mul"}
      /\ op \in Loads \cup Stores => op \notin Compares \cup Moves \cup LongMuls \cup Swaps \cup {"adrp"} \cup Jumps \cup {"swi"}
             \cup RegJumps \cup Shifts \cup {"hlt"} \cup Adders \cup Subbers \cup Logicals \cup {"mul"}
      /\ op \in Swaps => op \notin Compares \cup Moves \cup LongMuls \cup Loads \cup Stores \cup {"adrp"} \cup Jumps \cup {"swi"}
             \cup RegJumps \cup Shifts \cup {"hlt"} \cup Adders \cup Subbers \cup Logicals \cup {"mul"}
      /\ op \in {"adrp"} => op \notin Compares \cup Moves \cup LongMuls \cup Loads \cup Stores \cup Swaps \cup Jumps \cup {"swi"}
             \cup RegJumps \cup Shifts \cup {"hlt"} \cup Adders \cup Subbers \cup Logicals \cup {"mul"}
      /\ op \in Jumps \cup {"swi"} => op \notin Compares \cup Moves \cup LongMuls \cup Loads \cup Stores \cup Swaps \cup {"adrp"}
             \cup RegJumps \cup Shifts \cup {"hlt"} \cup Adders \cup Subbers \cup Logicals \cup {"mul"}
      /\ op \in RegJumps => op \notin Compares \cup Moves \cup LongMuls \cup Loads \cup Stores \cup Swaps \cup {"adrp"}
             \cup Jumps \cup {"swi"} \cup Shifts \cup {"hlt"} \cup Adders \cup Subbers \cup Logicals \cup {"mul"}
      /\ op \in Shifts => op \notin Compares \cup Moves \cup LongMuls \cup Loads \cup Stores \cup Swaps \cup {"adrp"}
             \cup Jumps \cup {"swi"} \cup RegJumps \cup {"hlt"} \cup Adders \cup Subbers \cup Logicals \cup {"mul"}
      /\ op \in {"hlt"} => op \notin Compares \cup Moves \cup LongMuls \cup Loads \cup Stores \cup Swaps \cup {"adrp"}
             \cup Jumps \cup {"swi"} \cup RegJumps \cup Shifts \cup Adders \cup Subbers \cup Logicals \cup {"mul"}
      /\ op \in Adders \cup Subbers \cup Logicals \cup {"mul"} => op \notin Compares \cup Moves \cup LongMuls \cup Loads \cup Stores \cup Swaps \cup {"adrp"}
             \cup Jumps \cup {"swi"} \cup RegJumps \cup Shifts \cup {"hlt"}
BY DEF Adders, Subbers, Logicals, Compares, Shifts, LongMuls, Moves, Loads, Stores, Swaps, Jumps, RegJumps

LEMMA SourceFound == \A i : SourceRow(i)
<1>. SUFFICES ASSUME NEW i PROVE SourceRow(i)
  OBVIOUS
<1>. DEFINE op == i.op
<1>1. ASSUME i.op \in Adders \cup Subbers \cup Logicals \cup {"mul"} PROVE Source(i) = Text(i.op, i.s, <<Rg(i.d), Rg(i.n)>> \o OperandText(i.arg))
  BY <1>1, OneClass, Zenon DEF Source
<1>2. ASSUME i.op \in Compares PROVE Source(i) = Text(i.op, FALSE, <<Rg(i.n)>> \o OperandText(i.arg))
  BY <1>2, OneClass, Zenon DEF Source
<1>3. ASSUME i.op \in Moves PROVE Source(i) = Text(i.op, i.s, <<Rg(i.d)>> \o OperandText(i.arg))
  BY <1>3, OneClass, Zenon DEF Source
<1>4. ASSUME i.op \in LongMuls PROVE Source(i) = Text(i.op, i.s, <<Rg(i.d), Rg(i.n), Rg(i.m1), Rg(i.m2)>>)
  BY <1>4, OneClass, Zenon DEF Source
<1>5. ASSUME i.op \in Loads \cup Stores PROVE Source(i) = Text(i.op, i.s, <<Rg(i.d), Rg(i.n), At(i.mode)>> \o OperandText(i.arg))
  BY <1>5, OneClass, Zenon DEF Source
<1>6. ASSUME i.op \in Swaps PROVE Source(i) = Text(i.op, FALSE, <<Rg(i.d), Rg(i.n), At("offset"), Rg(i.m1)>>)
  BY <1>6, OneClass, Zenon DEF Source
<1>7. ASSUME i.op = "adrp" PROVE Source(i) = Text(i.op, FALSE, <<Rg(i.d), Num(i.page)>>)
  BY <1>7, OneClass, Zenon DEF Source
<1>8. ASSUME i.op \in Jumps \cup {"swi"} PROVE Source(i) = [Text(i.op, FALSE, <<Num(i.offset)>>) EXCEPT !.cond = i.cond]
  BY <1>8, OneClass, Zenon DEF Source
<1>9. ASSUME i.op \in RegJumps PROVE Source(i) = [Text(i.op, FALSE, <<Rg(i.d)>>) EXCEPT !.cond = i.cond]
  BY <1>9, OneClass, Zenon DEF Source
<1>10. ASSUME i.op \in Shifts PROVE Source(i) = Text(i.op, FALSE, <<Rg(i.d), Rg(i.n)>> \o OperandText(i.arg))
  BY <1>10, OneClass, Zenon DEF Source
<1>11. ASSUME i.op = "hlt" PROVE Source(i) = Text(i.op, FALSE, <<>>)
  BY <1>11, OneClass, Zenon DEF Source
<1>. QED  BY <1>1, <1>2, <1>3, <1>4, <1>5, <1>6, <1>7, <1>8, <1>9, <1>10, <1>11, Zenon DEF SourceRow

\* What is expected, of a text.
LEMMA SaidSource ==
    ASSUME NEW i, NEW op, NEW s, NEW args, Source(i) = Text(op, s, args)
    PROVE  Said(i) = Text(op, s, IF i.op \in Loads \cup Stores /\ i.arg = Imm(0) THEN Front(args) ELSE args)
<1>. DEFINE zero == i.op \in Loads \cup Stores /\ i.arg = Imm(0)
            seen == IF zero THEN Front(args) ELSE args
<1>1. Said(i) = [Text(op, s, args) EXCEPT !.args = IF zero THEN Front(@) ELSE @]
  BY Zenon DEF Said
<1>. HIDE DEF zero
<1>2. ASSUME zero PROVE Said(i) = Text(op, s, seen)
  <2>1. Said(i) = [Text(op, s, args) EXCEPT !.args = Front(@)]
    BY <1>1, <1>2
  <2>2. seen = Front(args)
    BY <1>2
  <2>. HIDE DEF seen
  <2>3. [Text(op, s, args) EXCEPT !.args = Front(@)] = Text(op, s, Front(args))
    BY TextChanged
  <2>. QED  BY <2>1, <2>2, <2>3, Zenon
<1>3. ASSUME ~zero PROVE Said(i) = Text(op, s, seen)
  <2>1. Said(i) = [Text(op, s, args) EXCEPT !.args = @]
    BY <1>1, <1>3
  <2>2. seen = args
    BY <1>3
  <2>. HIDE DEF seen
  <2>3. [Text(op, s, args) EXCEPT !.args = @] = Text(op, s, args)
    BY TextChanged
  <2>. QED  BY <2>1, <2>2, <2>3, Zenon
<1>4. Said(i) = Text(op, s, seen)
  BY <1>2, <1>3, Zenon
<1>. QED  BY <1>4, Zenon DEF zero

LEMMA SaidCond ==
    ASSUME NEW i, NEW op, NEW s, NEW args, NEW c, Source(i) = [Text(op, s, args) EXCEPT !.cond = c],
           i.op \notin Loads \cup Stores
    PROVE  Said(i) = [Text(op, s, args) EXCEPT !.cond = c]
<1>1. Said(i) = [[Text(op, s, args) EXCEPT !.cond = c] EXCEPT !.args = @]
  <2>1. Said(i) = [Source(i) EXCEPT !.args = IF FALSE THEN Front(@) ELSE @]
    BY Zenon DEF Said
  <2>. QED  BY <2>1
<1>. QED  BY <1>1, CondStripped, Zenon

-----------------------------------------------------------------------------
(* Each class of instructions is listed as it was assembled. *)

Named(i) == [DisassembleInstr(Encode(i)) EXCEPT !.args = Stripped(@)] = Said(i)

LEMMA NamedText ==
    ASSUME NEW i, NEW op, NEW s, NEW args,
           DisassembleInstr(Encode(i)) = Text(op, s, args),
           Source(i) = Text(op, s, Stripped(args)), ~(i.op \in Loads \cup Stores /\ i.arg = Imm(0))
    PROVE  Named(i)
<1>. DEFINE q == Stripped(args)
<1>1. Said(i) = Text(op, s, IF i.op \in Loads \cup Stores /\ i.arg = Imm(0) THEN Front(q) ELSE q)
  BY SaidSource
<1>. HIDE DEF q
<1>2. Said(i) = Text(op, s, q)
  BY <1>1
<1>3. [Text(op, s, args) EXCEPT !.args = Stripped(@)] = Text(op, s, q)
  BY TextChanged DEF q
<1>. QED  BY <1>2, <1>3, Zenon DEF Named

\* The last operand of the formats that take a register with a shift.
Shaped(t) == \E p, q : p # Nothing /\ q # Nothing /\ (t = <<p>> \/ t = <<p, q>>)

LEMMA ShiftShown ==
    ASSUME NEW w, NEW S, NEW a \in AnyOperand(S), Field(w, 7, 2) = ShiftType[a.sh], Field(w, 2, 5) = a.by
    PROVE  ShownShift(w) = IF a.by = 0 THEN <<>> ELSE <<<<a.sh, a.by>>>>
<1>. DEFINE type == CHOOSE sh \in DOMAIN ShiftType : ShiftType[sh] = Field(w, 7, 2)
<1>1. a.sh \in DOMAIN ShiftType /\ a.by \in 0 .. 31
  BY OperandFacts DEF ShiftType, Shifts, Five
<1>2. \A p, q \in DOMAIN ShiftType : ShiftType[p] = ShiftType[q] => p = q
  BY DEF ShiftType
<1>3. type = a.sh
  BY <1>1, <1>2, Zenon
<1>4. DisassembleShift(w) = <<a.sh, a.by>>
  BY <1>3, Zenon DEF DisassembleShift
<1>5. a.by > 0 <=> a.by # 0
  BY <1>1
<1>6. CASE a.by = 0
  <2>1. ShownShift(w) = <<>>
    BY <1>5, <1>6 DEF ShownShift
  <2>. QED  BY <1>6, <2>1
<1>7. CASE a.by # 0
  <2>1. ShownShift(w) = <<DisassembleShift(w)>>
    BY <1>5, <1>7 DEF ShownShift
  <2>. QED  BY <1>4, <1>7, <2>1, Zenon
<1>. QED  BY <1>6, <1>7

LEMMA OperandListed ==
    ASSUME NEW w, NEW S, NEW a \in AnyOperand(S), OperandIn(w, a)
    PROVE  /\ (IF 14 \in w THEN <<Num(Field(w, 0, 14))>> ELSE <<Rg(X3(w))>> \o ShownShift(w)) = OperandText(a)
           /\ Shaped(OperandText(a))
<1>1. CASE a.imm
  <2>1. 14 \in w /\ Field(w, 0, 14) = a.val
    BY <1>1 DEF OperandIn
  <2>2. OperandText(a) = <<Num(a.val)>>
    BY <1>1 DEF OperandText
  <2>3. Num(a.val) # Nothing
    BY NoneEmpty
  <2>4. Shaped(OperandText(a))
    BY <2>2, <2>3, Zenon DEF Shaped
  <2>. QED  BY <2>1, <2>2, <2>4, Zenon
<1>2. CASE ~a.imm
  <2>1. 14 \notin w /\ X3(w) = a.m /\ Field(w, 7, 2) = ShiftType[a.sh] /\ Field(w, 2, 5) = a.by
    BY <1>2 DEF OperandIn
  <2>2. ShownShift(w) = IF a.by = 0 THEN <<>> ELSE <<<<a.sh, a.by>>>>
    BY <2>1, ShiftShown
  <2>3. OperandText(a) = <<Rg(a.m)>> \o IF a.by = 0 THEN <<>> ELSE <<<<a.sh, a.by>>>>
    BY <1>2, Zenon DEF OperandText
  <2>4. <<Rg(a.m)>> \o <<>> = <<Rg(a.m)>> /\ <<Rg(a.m)>> \o <<<<a.sh, a.by>>>> = <<Rg(a.m), <<a.sh, a.by>>>>
    BY Joined, Zenon DEF Shapes
  <2>5. Rg(a.m) # Nothing /\ <<a.sh, a.by>> # Nothing
    BY NoneEmpty, Zenon
  <2>6. Shaped(OperandText(a))
    BY <2>3, <2>4, <2>5, Zenon DEF Shaped
  <2>7. OperandText(a) = <<Rg(X3(w))>> \o ShownShift(w)
    BY <2>1, <2>2, <2>3, Zenon
  <2>. QED  BY <2>1, <2>6, <2>7, Zenon
<1>. QED  BY <1>1, <1>2

\* Operands in front of one lose nothing either.
Behind(a, b, c, t) ==
    /\ Stripped(<<a>> \o t) = <<a>> \o t /\ Stripped(<<a, b>> \o t) = <<a, b>> \o t
    /\ Stripped(<<a, b, c>> \o t) = <<a, b, c>> \o t
    /\ Tail(<<a, b>> \o t) = <<b>> \o t

LEMMA StrippedShapes ==
    \A a, b, c, t : Shaped(t) /\ a # Nothing /\ b # Nothing /\ c # Nothing => Behind(a, b, c, t)
<1>. SUFFICES ASSUME NEW t, Shaped(t), NEW a, NEW b, NEW c, a # Nothing, b # Nothing, c # Nothing
              PROVE  Behind(a, b, c, t)
  OBVIOUS
<1>1. PICK p, q : p # Nothing /\ q # Nothing /\ (t = <<p>> \/ t = <<p, q>>)
  BY DEF Shaped
<1>2. CASE t = <<p>>
  <2>1. /\ <<a>> \o t = <<a, p>> /\ <<a, b>> \o t = <<a, b, p>> /\ <<a, b, c>> \o t = <<a, b, c, p>>
        /\ <<b>> \o t = <<b, p>> /\ Tail(<<a, b, p>>) = <<b, p>>
    <3>1. Shapes(a, p, p, p, p, p) /\ Shapes(a, b, p, p, p, p) /\ Shapes(a, b, c, p, p, p) /\ Shapes(b, p, p, p, p, p)
      BY Joined
    <3>. QED  BY <1>2, <3>1, Zenon DEF Shapes
  <2>2. /\ Stripped(<<a, p>>) = <<a, p>> /\ Stripped(<<a, b, p>>) = <<a, b, p>>
        /\ Stripped(<<a, b, c, p>>) = <<a, b, c, p>>
    <3>1. Whole(a, p, q, p, p) /\ Whole(a, b, p, q, p) /\ Whole(a, b, c, p, q)
      BY <1>1, StrippedTuples
    <3>. QED  BY <3>1, Zenon DEF Whole
  <2>. QED  BY <2>1, <2>2, Zenon DEF Behind
<1>3. CASE t = <<p, q>>
  <2>1. /\ <<a>> \o t = <<a, p, q>> /\ <<a, b>> \o t = <<a, b, p, q>> /\ <<a, b, c>> \o t = <<a, b, c, p, q>>
        /\ <<b>> \o t = <<b, p, q>> /\ Tail(<<a, b, p, q>>) = <<b, p, q>>
    <3>1. Shapes(a, p, q, p, p, p) /\ Shapes(a, b, p, q, p, p) /\ Shapes(a, b, c, p, q, p) /\ Shapes(b, p, q, p, p, p)
      BY Joined
    <3>. QED  BY <1>3, <3>1, Zenon DEF Shapes
  <2>2. /\ Stripped(<<a, p, q>>) = <<a, p, q>> /\ Stripped(<<a, b, p, q>>) = <<a, b, p, q>>
        /\ Stripped(<<a, b, c, p, q>>) = <<a, b, c, p, q>>
    <3>1. Whole(a, p, q, p, p) /\ Whole(a, b, p, q, p) /\ Whole(a, b, c, p, q)
      BY <1>1, StrippedTuples
    <3>. QED  BY <3>1, Zenon DEF Whole
  <2>. QED  BY <2>1, <2>2, Zenon DEF Behind
<1>. QED  BY <1>1, <1>2, <1>3

LEMMA SameRow ==
    ASSUME NEW i \in Instructions, i.op # "nop", OpOf(Encode(i)) = Opcode[i.op]
    PROVE  TableRow(Encode(i), i.op) /\ SourceRow(i)
BY MnemonicsFacts, RowFound, SourceFound

LEMMA FlagsShown == \A w : \A f \in BOOLEAN : (SetsFlags(w) <=> f) => SetsFlags(w) = f
<1>1. \A w : SetsFlags(w) \in BOOLEAN
  BY DEF SetsFlags
<1>. QED  BY <1>1, SameTruth, Zenon

LEMMA NamedAlu ==
    ASSUME NEW i \in Instructions, i.op \in Adders \cup Subbers \cup Logicals \cup {"mul"}
    PROVE  Named(i)
<1>. DEFINE w == Encode(i)
            op == i.op
            last == OperandText(i.arg)
            d == Rg(i.d)
            n == Rg(i.n)
<1>1. AluIn(w, i) /\ op # "nop" /\ op \in AluOps /\ i.op \notin Loads \cup Stores
  BY EncodeAlu DEF AluOps, Adders, Subbers, Logicals, Loads, Stores
<1>2. i.arg \in AnyOperand(0 .. Pow2[14] - 1) /\ i.s \in BOOLEAN
  BY <1>1, Kinds
<1>3. /\ (IF 14 \in w THEN <<Num(Field(w, 0, 14))>> ELSE <<Rg(X3(w))>> \o ShownShift(w)) = last
      /\ Shaped(last)
  BY <1>1, <1>2, OperandListed DEF AluIn
<1>4. OpOf(w) = Opcode[op] /\ SetsFlags(w) = i.s /\ X1(w) = i.d /\ X2(w) = i.n
  <2>1. SetsFlags(w) <=> i.s
    BY <1>1, Zenon DEF AluIn
  <2>2. SetsFlags(w) = i.s
    BY <1>2, <2>1, FlagsShown
  <2>. QED  BY <1>1, <2>2, Zenon DEF AluIn
<1>5. TableRow(w, op) /\ SourceRow(i)
  BY <1>1, <1>4, SameRow
<1>6. DisassembleInstr(w) = Text(op, i.s, <<d, n>> \o last)
  <2>1. DisassembleInstr(w) = DisassembleFormatO(w, op)
    BY <1>5 DEF TableRow
  <2>. QED  BY <1>3, <1>4, <2>1, Zenon DEF DisassembleFormatO
<1>7. Source(i) = Text(op, i.s, <<d, n>> \o last)
  BY <1>5, Zenon DEF SourceRow
<1>8. d # Nothing /\ n # Nothing
  BY NoneEmpty, Zenon
<1>. HIDE DEF d, n, last
<1>9. Stripped(<<d, n>> \o last) = <<d, n>> \o last
  <2>1. Behind(d, n, n, last)
    BY <1>3, <1>8, StrippedShapes, Zenon
  <2>. QED  BY <2>1, Zenon DEF Behind
<1>. QED  BY <1>1, <1>6, <1>7, <1>9, NamedText

LEMMA NamedCompare ==
    ASSUME NEW i \in Instructions, i.op \in Compares
    PROVE  Named(i)
<1>. DEFINE w == Encode(i)
            op == i.op
            last == OperandText(i.arg)
            d == Rg(i.d)
            n == Rg(i.n)
<1>1. AluIn(w, i) /\ op # "nop" /\ op \in AluOps /\ i.op \notin Loads \cup Stores
  BY EncodeAlu DEF AluOps, Compares, Loads, Stores
<1>2. i.arg \in AnyOperand(0 .. Pow2[14] - 1) /\ i.s \in BOOLEAN
  BY <1>1, Kinds
<1>3. /\ (IF 14 \in w THEN <<Num(Field(w, 0, 14))>> ELSE <<Rg(X3(w))>> \o ShownShift(w)) = last
      /\ Shaped(last)
  BY <1>1, <1>2, OperandListed DEF AluIn
<1>4. OpOf(w) = Opcode[op] /\ X1(w) = i.d /\ X2(w) = i.n
  BY <1>1, <1>2, Zenon DEF AluIn
<1>5. TableRow(w, op) /\ SourceRow(i)
  BY <1>1, <1>4, SameRow
<1>6. d # Nothing /\ n # Nothing
  BY NoneEmpty, Zenon
<1>7. DisassembleInstr(w) = Text(op, FALSE, Tail(<<d, n>> \o last))
  <2>1. DisassembleInstr(w) = DisassembleCompare(w, op)
    BY <1>5 DEF TableRow
  <2>2. DisassembleFormatO(w, op) = Text(op, SetsFlags(w), <<d, n>> \o last)
    BY <1>3, <1>4, Zenon DEF DisassembleFormatO
  <2>. DEFINE args == <<d, n>> \o last
  <2>3. DisassembleFormatO(w, op).args = args
    <3>1. \A s : Text(op, s, args).args = args
      <4>. HIDE DEF args, op
      <4>. QED  BY TextArgs
    <3>. HIDE DEF args
    <3>2. DisassembleFormatO(w, op) = Text(op, SetsFlags(w), args)
      BY <2>2, Zenon DEF args
    <3>. QED  BY <3>1, <3>2, Zenon
  <2>. QED  BY <2>1, <2>3, Zenon DEF DisassembleCompare
<1>8. Source(i) = Text(op, FALSE, <<n>> \o last)
  BY <1>5, Zenon DEF SourceRow
<1>. HIDE DEF d, n, last
<1>9. Tail(<<d, n>> \o last) = <<n>> \o last /\ Stripped(<<n>> \o last) = <<n>> \o last
  <2>1. Behind(d, n, n, last) /\ Behind(n, d, n, last)
    BY <1>3, <1>6, StrippedShapes, Zenon
  <2>. QED  BY <2>1, Zenon DEF Behind
<1>. QED  BY <1>1, <1>7, <1>8, <1>9, NamedText

\* The operands that the assembler makes, by class.
Made(a) == a \in {Imm(a.val), Shifted(a.m, a.sh, a.by)}

LEMMA ArgMade ==
    ASSUME NEW i \in Instructions
    PROVE  /\ i.op \in Shifts => i.arg \in {Imm(i.arg.val), Reg(i.arg.m)}
           /\ i.op \in Loads \cup Stores => Made(i.arg)
<1>1. \/ i \in [op : AluOps, s : BOOLEAN, d : Five, n : Five, arg : Operands(0 .. Pow2[14] - 1)]
      \/ i \in [op : Shifts, s : BOOLEAN, d : Five, n : Five, arg : ShiftOperands]
      \/ i \in [op : LongMuls, s : BOOLEAN, d : Five, n : Five, m1 : Five, m2 : Five]
      \/ i \in [op : Moves, s : BOOLEAN, d : Five, arg : MoveOperands]
      \/ i \in [op : Loads \cup Stores, s : BOOLEAN, d : Five, n : Five,
                arg : Operands(-Pow2[11] .. Pow2[12] - 1), mode : DOMAIN AddrType]
      \/ i \in [op : Swaps, s : BOOLEAN, d : Five, n : Five, m1 : Five]
      \/ i \in [op : {"adrp"}, s : BOOLEAN, d : Five, page : 0 .. Pow2[20] - 1]
      \/ i \in [op : Jumps \cup {"swi"}, cond : Range(Conds), offset : -Pow2[21] .. Pow2[21] - 1]
      \/ i \in [op : RegJumps, cond : Range(Conds), d : Five]
      \/ i \in [op : {"hlt", "nop"}]
  BY Zenon DEF Instructions, AluOps
<1>2. i.op \in Shifts => i.arg \in ShiftOperands
  <2>1. i.op \in Shifts => i.op \notin AluOps \cup LongMuls \cup Moves \cup (Loads \cup Stores) \cup Swaps \cup {"adrp"}
                                   \cup (Jumps \cup {"swi"}) \cup RegJumps \cup {"hlt", "nop"}
    BY DEF AluOps, Adders, Subbers, Logicals, Compares, Shifts, LongMuls, Moves, Loads, Stores, Swaps, Jumps, RegJumps
  <2>. QED  BY <1>1, <2>1
<1>3. i.op \in Loads \cup Stores => i.arg \in Operands(-Pow2[11] .. Pow2[12] - 1)
  <2>1. i.op \in Loads \cup Stores => i.op \notin AluOps \cup LongMuls \cup Moves \cup Shifts \cup Swaps \cup {"adrp"}
                                   \cup (Jumps \cup {"swi"}) \cup RegJumps \cup {"hlt", "nop"}
    BY DEF AluOps, Adders, Subbers, Logicals, Compares, Shifts, LongMuls, Moves, Loads, Stores, Swaps, Jumps, RegJumps
  <2>. QED  BY <1>1, <2>1
<1>. QED  BY <1>2, <1>3, Zenon DEF ShiftOperands, Operands, Made

LEMMA NamedShift ==
    ASSUME NEW i \in Instructions, i.op \in Shifts, ~Garbled(i)
    PROVE  Named(i)
<1>. DEFINE w == Encode(i)
            op == i.op
            d == Rg(i.d)
            n == Rg(i.n)
            m == Rg(i.arg.m)
<1>1. ShiftIn(w, i) /\ op # "nop" /\ i.op \notin Loads \cup Stores
  BY EncodeShift DEF Shifts, Loads, Stores
<1>2. ~i.arg.imm /\ i.arg = Reg(i.arg.m)
  <2>1. ~i.arg.imm
    BY Zenon DEF Garbled
  <2>2. i.arg = Imm(i.arg.val) => i.arg.imm
    BY DEF Imm
  <2>. QED  BY <2>1, <2>2, ArgMade
<1>3. OpOf(w) = Opcode[op] /\ X1(w) = i.d /\ X2(w) = i.n /\ 14 \notin w /\ X3(w) = i.arg.m
  BY <1>1, <1>2, Zenon DEF ShiftIn
<1>4. TableRow(w, op) /\ SourceRow(i)
  BY <1>1, <1>3, SameRow
<1>5. DisassembleInstr(w) = Text(op, FALSE, <<d, n, m>>)
  <2>1. DisassembleInstr(w) = DisassembleFormatO1(w, op)
    BY <1>4 DEF TableRow
  <2>. QED  BY <1>3, <2>1, Zenon DEF DisassembleFormatO1
<1>6. OperandText(i.arg) = <<m>>
  <2>1. i.arg.by = 0
    BY <1>2 DEF Reg
  <2>2. OperandText(i.arg) = <<m>> \o <<>>
    BY <1>2, <2>1, Zenon DEF OperandText
  <2>3. Shapes(m, m, m, m, m, m)
    BY Joined
  <2>. QED  BY <2>2, <2>3, Zenon DEF Shapes
<1>7. Source(i) = Text(op, FALSE, <<d, n>> \o <<m>>)
  BY <1>4, <1>6, Zenon DEF SourceRow
<1>8. d # Nothing /\ n # Nothing /\ m # Nothing
  BY NoneEmpty, Zenon
<1>9. <<d, n>> \o <<m>> = <<d, n, m>> /\ Stripped(<<d, n, m>>) = <<d, n, m>>
  <2>1. Shapes(d, n, m, m, m, m) /\ Whole(d, n, m, m, m)
    BY <1>8, Joined, StrippedTuples
  <2>. QED  BY <2>1, Zenon DEF Shapes, Whole
<1>. HIDE DEF d, n, m
<1>. QED  BY <1>1, <1>5, <1>7, <1>9, NamedText

LEMMA NamedLongMul ==
    ASSUME NEW i \in Instructions, i.op \in LongMuls
    PROVE  Named(i)
<1>. DEFINE w == Encode(i)
            op == i.op
            d == Rg(i.d)
            n == Rg(i.n)
            m == Rg(i.m1)
            l == Rg(i.m2)
<1>1. LongMulIn(w, i) /\ op # "nop" /\ i.op \notin Loads \cup Stores
  BY EncodeLongMul DEF LongMuls, Loads, Stores
<1>2. i.s \in BOOLEAN
  BY Kinds
<1>3. OpOf(w) = Opcode[op] /\ X1(w) = i.d /\ X2(w) = i.n /\ X3(w) = i.m1 /\ X4(w) = i.m2 /\ (SetsFlags(w) <=> i.s)
  BY <1>1, Zenon DEF LongMulIn
<1>4. TableRow(w, op) /\ SourceRow(i)
  BY <1>1, <1>3, SameRow
<1>5. DisassembleInstr(w) = Text(op, i.s, <<d, n, m, l, Nothing>>)
  <2>1. DisassembleInstr(w) = DisassembleFormatO2(w, op)
    BY <1>4 DEF TableRow
  <2>2. SetsFlags(w) = i.s
    BY <1>2, <1>3, FlagsShown
  <2>. QED  BY <1>3, <2>1, <2>2, Zenon DEF DisassembleFormatO2
<1>6. Source(i) = Text(op, i.s, <<d, n, m, l>>)
  BY <1>4, Zenon DEF SourceRow
<1>7. d # Nothing /\ n # Nothing /\ m # Nothing /\ l # Nothing
  BY NoneEmpty, Zenon
<1>8. Stripped(<<d, n, m, l, Nothing>>) = <<d, n, m, l>>
  <2>1. Whole(d, n, m, l, l)
    BY <1>7, StrippedTuples
  <2>. QED  BY <2>1, Zenon DEF Whole
<1>. HIDE DEF d, n, m, l
<1>. QED  BY <1>1, <1>5, <1>6, <1>8, NamedText

LEMMA NamedMove ==
    ASSUME NEW i \in Instructions, i.op \in Moves, ~Garbled(i)
    PROVE  Named(i)
<1>. DEFINE w == Encode(i)
            op == i.op
            d == Rg(i.d)
            v == Num(i.arg.val)
<1>1. op # "nop" /\ i.op \notin Loads \cup Stores /\ i.op \notin Shifts
  BY DEF Moves, Shifts, Loads, Stores
<1>2. i.arg.imm /\ i.s \in BOOLEAN
  <2>1. i.s \in BOOLEAN /\ i.arg.imm \in BOOLEAN
    BY Kinds, OperandFacts
  <2>2. i.arg.imm
    BY <1>1 DEF Garbled
  <2>. QED  BY <2>1, <2>2
<1>3. MoveIn(w, i)
  BY <1>2, EncodeMove
<1>4. OpOf(w) = Opcode[op] /\ X1(w) = i.d /\ 19 \in w /\ Field(w, 0, 19) = i.arg.val /\ (SetsFlags(w) <=> i.s)
  BY <1>2, <1>3, Zenon DEF MoveIn
<1>5. TableRow(w, op) /\ SourceRow(i)
  BY <1>1, <1>4, SameRow
<1>6. DisassembleInstr(w) = Text(op, i.s, <<d>> \o <<v>>)
  <2>1. DisassembleInstr(w) = DisassembleFormatO3(w, op)
    BY <1>5 DEF TableRow
  <2>2. SetsFlags(w) = i.s
    BY <1>2, <1>4, FlagsShown
  <2>. QED  BY <1>4, <2>1, <2>2, Zenon DEF DisassembleFormatO3
<1>7. Source(i) = Text(op, i.s, <<d>> \o <<v>>)
  <2>1. OperandText(i.arg) = <<v>>
    BY <1>2 DEF OperandText
  <2>. QED  BY <1>5, <2>1, Zenon DEF SourceRow
<1>8. d # Nothing /\ v # Nothing
  BY NoneEmpty, Zenon
<1>9. Stripped(<<d>> \o <<v>>) = <<d>> \o <<v>>
  <2>1. Shapes(d, v, v, v, v, v) /\ Whole(d, v, v, v, v)
    BY <1>8, Joined, StrippedTuples
  <2>. QED  BY <2>1, Zenon DEF Shapes, Whole
<1>. HIDE DEF d, v
<1>. QED  BY <1>1, <1>6, <1>7, <1>9, NamedText

LEMMA NamedSwap ==
    ASSUME NEW i \in Instructions, i.op \in Swaps
    PROVE  Named(i)
<1>. DEFINE w == Encode(i)
            op == i.op
            d == Rg(i.d)
            n == Rg(i.n)
            m == Rg(i.m1)
            at == At("offset")
<1>1. SwapIn(w, i) /\ op # "nop" /\ i.op \notin Loads \cup Stores
  BY EncodeSwap DEF Swaps, Loads, Stores
<1>2. OpOf(w) = Opcode[op] /\ X1(w) = i.d /\ X2(w) = i.n /\ X3(w) = i.m1
  BY <1>1, Zenon DEF SwapIn
<1>3. TableRow(w, op) /\ SourceRow(i)
  BY <1>1, <1>2, SameRow
<1>4. DisassembleInstr(w) = Text(op, FALSE, <<d, n, at, m>>)
  <2>1. DisassembleInstr(w) = DisassembleFormatM1(w, op)
    BY <1>3 DEF TableRow
  <2>. QED  BY <1>2, <2>1, Zenon DEF DisassembleFormatM1
<1>5. Source(i) = Text(op, FALSE, <<d, n, at, m>>)
  BY <1>3, Zenon DEF SourceRow
<1>6. d # Nothing /\ n # Nothing /\ m # Nothing /\ at # Nothing
  BY NoneEmpty, Zenon
<1>7. Stripped(<<d, n, at, m>>) = <<d, n, at, m>>
  <2>1. Whole(d, n, at, m, m)
    BY <1>6, StrippedTuples
  <2>. QED  BY <2>1, Zenon DEF Whole
<1>. HIDE DEF d, n, m, at
<1>. QED  BY <1>1, <1>4, <1>5, <1>7, NamedText

LEMMA NamedAdrp ==
    ASSUME NEW i \in Instructions, i.op = "adrp"
    PROVE  Named(i)
<1>. DEFINE w == Encode(i)
            op == i.op
            d == Rg(i.d)
            v == Num(i.page)
<1>1. AdrpIn(w, i) /\ op # "nop" /\ i.op \notin Loads \cup Stores
  BY EncodeAdrp DEF Loads, Stores
<1>2. OpOf(w) = Opcode[op] /\ X1(w) = i.d /\ Field(w, 0, 20) = i.page
  BY <1>1, Zenon DEF AdrpIn
<1>3. TableRow(w, op) /\ SourceRow(i)
  BY <1>1, <1>2, SameRow
<1>4. DisassembleInstr(w) = Text(op, FALSE, <<d, v>>)
  <2>1. DisassembleInstr(w) = DisassembleFormatM2(w, op)
    BY <1>3 DEF TableRow
  <2>. QED  BY <1>2, <2>1, Zenon DEF DisassembleFormatM2
<1>5. Source(i) = Text(op, FALSE, <<d, v>>)
  BY <1>3, Zenon DEF SourceRow
<1>6. d # Nothing /\ v # Nothing
  BY NoneEmpty, Zenon
<1>7. Stripped(<<d, v>>) = <<d, v>>
  <2>1. Whole(d, v, v, v, v)
    BY <1>6, StrippedTuples
  <2>. QED  BY <2>1, Zenon DEF Whole
<1>. HIDE DEF d, v
<1>. QED  BY <1>1, <1>4, <1>5, <1>7, NamedText

LEMMA NamedCond ==
    ASSUME NEW i, NEW s, NEW args, NEW c, i.op \notin Loads \cup Stores,
           DisassembleInstr(Encode(i)) = [Text(i.op, s, args) EXCEPT !.cond = c],
           Source(i) = [Text(i.op, s, args) EXCEPT !.cond = c], Stripped(args) = args
    PROVE  Named(i)
<1>. DEFINE t == Text(i.op, s, args)
            r == [t EXCEPT !.cond = c]
<1>1. Said(i) = r
  <2>. DEFINE op == i.op
  <2>1. Source(i) = [Text(op, s, args) EXCEPT !.cond = c] /\ i.op \notin Loads \cup Stores
    OBVIOUS
  <2>. HIDE DEF op
  <2>2. Said(i) = [Text(op, s, args) EXCEPT !.cond = c]
    BY <2>1, SaidCond
  <2>. QED  BY <2>2, Zenon DEF op
<1>2. [r EXCEPT !.args = Stripped(@)] = [Text(i.op, s, Stripped(args)) EXCEPT !.cond = c]
  BY CondStripped
<1>3. [r EXCEPT !.args = Stripped(@)] = r
  BY <1>2, Zenon
<1>. QED  BY <1>1, <1>3, Zenon DEF Named

LEMMA NamedJump ==
    ASSUME NEW i \in Instructions, i.op \in Jumps \cup {"swi"}
    PROVE  Named(i)
<1>. DEFINE w == Encode(i)
            op == i.op
            v == Num(i.offset)
<1>1. JumpIn(w, i) /\ op # "nop" /\ i.op \notin Loads \cup Stores
  BY EncodeJump DEF Jumps, Loads, Stores
<1>2. OpOf(w) = Opcode[op] /\ CondOf(w) = i.cond /\ SignedField(w, 0, 22) = i.offset
  BY <1>1, Zenon DEF JumpIn
<1>3. TableRow(w, op) /\ SourceRow(i)
  BY <1>1, <1>2, SameRow
<1>4. DisassembleInstr(w) = [Text(op, FALSE, <<v>>) EXCEPT !.cond = i.cond]
  <2>1. DisassembleInstr(w) = DisassembleFormatB1(w, op)
    BY <1>3 DEF TableRow
  <2>. QED  BY <1>2, <2>1, Zenon DEF DisassembleFormatB1
<1>5. Source(i) = [Text(op, FALSE, <<v>>) EXCEPT !.cond = i.cond]
  BY <1>3, Zenon DEF SourceRow
<1>6. Stripped(<<v>>) = <<v>>
  <2>1. v # Nothing
    BY NoneEmpty, Zenon
  <2>2. Whole(v, v, v, v, v)
    BY <2>1, StrippedTuples
  <2>. QED  BY <2>2, Zenon DEF Whole
<1>. HIDE DEF v
<1>. QED  BY <1>1, <1>4, <1>5, <1>6, NamedCond

LEMMA NamedRegJump ==
    ASSUME NEW i \in Instructions, i.op \in RegJumps, ~Garbled(i)
    PROVE  Named(i)
<1>. DEFINE w == Encode(i)
            op == i.op
            d == Rg(i.d)
<1>1. RegJumpIn(w, i) /\ op # "nop" /\ i.op \notin Loads \cup Stores
  BY EncodeRegJump DEF RegJumps, Loads, Stores
<1>2. OpOf(w) = Opcode[op] /\ CondOf(w) = i.cond /\ Field(w, 17, 5) = i.d
  BY <1>1, Zenon DEF RegJumpIn
<1>3. TableRow(w, op) /\ SourceRow(i)
  BY <1>1, <1>2, SameRow
<1>4. DisassembleInstr(w) = [Text(op, FALSE, <<d>>) EXCEPT !.cond = i.cond]
  <2>1. DisassembleInstr(w) = DisassembleFormatB2(w, op)
    BY <1>3 DEF TableRow
  <2>2. i.d # LINKR
    BY Zenon DEF Garbled
  <2>. QED  BY <1>2, <2>1, <2>2, Zenon DEF DisassembleFormatB2
<1>5. Source(i) = [Text(op, FALSE, <<d>>) EXCEPT !.cond = i.cond]
  BY <1>3, Zenon DEF SourceRow
<1>6. Stripped(<<d>>) = <<d>>
  <2>1. d # Nothing
    BY NoneEmpty, Zenon
  <2>2. Whole(d, d, d, d, d)
    BY <2>1, StrippedTuples
  <2>. QED  BY <2>2, Zenon DEF Whole
<1>. HIDE DEF d
<1>. QED  BY <1>1, <1>4, <1>5, <1>6, NamedCond

LEMMA NamedHlt ==
    ASSUME NEW i \in Instructions, i.op = "hlt"
    PROVE  Named(i)
<1>. DEFINE w == Encode(i)
<1>1. BareIn(w, i) /\ i.op # "nop" /\ i.op \notin Loads \cup Stores
  BY EncodeBare DEF Loads, Stores
<1>2. TableRow(w, i.op) /\ SourceRow(i)
  BY <1>1, SameRow DEF BareIn
<1>3. DisassembleInstr(w) = Text("hlt", FALSE, <<>>) /\ Source(i) = Text("hlt", FALSE, <<>>)
  BY <1>2, Zenon DEF TableRow, SourceRow
<1>. QED  BY <1>1, <1>3, StrippedEmpty, NamedText

\* An offset is its number again; the number is 0 only in the operand without an offset.
LEMMA OffsetNamed ==
    ASSUME NEW i \in Instructions, i.op \in Loads \cup Stores, i.arg.imm, ~Garbled(i)
    PROVE  /\ SignedField(Encode(i), 2, 12) = i.arg.val /\ 14 \in Encode(i)
           /\ i.arg.val = 0 <=> i.arg = Imm(0)
           /\ i.arg = Imm(0) => i.mode = "offset"
<1>1. i.arg \in AnyOperand(-Pow2[11] .. Pow2[12] - 1) /\ Made(i.arg)
  BY Kinds, ArgMade
<1>2. i.arg = Imm(i.arg.val)
  <2>1. i.arg = Shifted(i.arg.m, i.arg.sh, i.arg.by) => ~i.arg.imm
    BY DEF Shifted, Reg
  <2>. QED  BY <1>1, <2>1, Zenon DEF Made
<1>3. i.arg.val = 0 <=> i.arg = Imm(0)
  <2>1. Imm(0).val = 0
    BY DEF Imm
  <2>. QED  BY <1>2, <2>1, Zenon
<1>4. i.arg = Imm(0) => i.mode = "offset"
  BY Zenon DEF Garbled
<1>5. ~(i.arg.val >= Pow2[11])
  BY Zenon DEF Garbled
<1>6. 14 \in Encode(i) /\ SignedField(Encode(i), 2, 12) = SignedPart(i.arg.val % Pow2[12], 12)
  BY EncodeMemory, Zenon DEF MemoryIn
<1>. DEFINE b == 12
            v == i.arg.val
<1>7. b \in Nat \ {0} /\ b - 1 = 11
  OBVIOUS
<1>8. v \in -Pow2[11] .. Pow2[12] - 1
  BY <1>1, OperandFacts
<1>9. v < Pow2[11]
  <2>1. Pow2[11] \in Int /\ Pow2[12] \in Int
    BY PowFacts
  <2>2. v \in Int
    BY <1>8, <2>1
  <2>. QED  BY <1>5, <2>1, <2>2
<1>10. SignedPart(v % Pow2[b], b) = v
  <2>1. v \in -Pow2[b - 1] .. Pow2[b] - 1 /\ v < Pow2[b - 1]
    BY <1>7, <1>8, <1>9, Zenon
  <2>. HIDE DEF b, v
  <2>. QED  BY <1>7, <2>1, SignedWay
<1>. QED  BY <1>3, <1>4, <1>6, <1>10, Zenon

LEMMA NamedMemory ==
    ASSUME NEW i \in Instructions, i.op \in Loads \cup Stores, ~Garbled(i)
    PROVE  Named(i)
<1>. DEFINE w == Encode(i)
            op == i.op
            d == Rg(i.d)
            n == Rg(i.n)
            at == At(i.mode)
            m == Rg(i.arg.m)
            by == SignedField(w, 2, 12)
<1>1. MemoryIn(w, i) /\ op # "nop"
  BY EncodeMemory DEF Loads, Stores
<1>2. i.arg \in AnyOperand(-Pow2[11] .. Pow2[12] - 1) /\ i.s \in BOOLEAN /\ i.mode \in DOMAIN AddrType
  BY Kinds
<1>3. OpOf(w) = Opcode[op] /\ (SetsFlags(w) <=> i.s) /\ X1(w) = i.d /\ X2(w) = i.n /\ Mode(w) = AddrType[i.mode]
  BY <1>1, Zenon DEF MemoryIn
<1>4. TableRow(w, op) /\ SourceRow(i)
  BY <1>1, <1>3, SameRow
<1>5. d # Nothing /\ n # Nothing /\ at # Nothing /\ m # Nothing
  BY NoneEmpty, Zenon
<1>6. DisassembleInstr(w) =
        Text(op, i.s, <<d, n>> \o
               (IF 14 \notin w THEN <<at, Rg(X3(w)), Nothing>> \o ShownShift(w)
                ELSE IF by = 0 THEN <<At("offset")>> ELSE <<at, Num(by)>>))
  <2>. DEFINE mode == CHOOSE a \in DOMAIN AddrType : AddrType[a] = Mode(w)
  <2>1. \A p, q \in DOMAIN AddrType : AddrType[p] = AddrType[q] => p = q
    BY DEF AddrType
  <2>2. mode = i.mode
    BY <1>2, <1>3, <2>1, Zenon
  <2>3. i.mode # "none"
    BY Zenon DEF Garbled
  <2>4. SetsFlags(w) = i.s
    BY <1>2, <1>3, FlagsShown
  <2>5. DisassembleInstr(w) = DisassembleFormatM(w, op)
    BY <1>4 DEF TableRow
  <2>. QED  BY <1>3, <2>2, <2>3, <2>4, <2>5, Zenon DEF DisassembleFormatM
<1>7. Source(i) = Text(op, i.s, <<d, n, at>> \o OperandText(i.arg))
  BY <1>4, Zenon DEF SourceRow
<1>8. CASE ~i.arg.imm
  <2>1. OperandIn(w, i.arg) /\ i.arg # Imm(0)
    <3>1. Imm(0).imm
      BY DEF Imm
    <3>. QED  BY <1>1, <1>8, <3>1, Zenon DEF MemoryIn
  <2>2. 14 \notin w /\ X3(w) = i.arg.m /\ Field(w, 7, 2) = ShiftType[i.arg.sh] /\ Field(w, 2, 5) = i.arg.by
    BY <1>8, <2>1, Zenon DEF OperandIn
  <2>. DEFINE sh == <<i.arg.sh, i.arg.by>>
  <2>3. ShownShift(w) = IF i.arg.by = 0 THEN <<>> ELSE <<sh>>
    BY <1>2, <2>2, ShiftShown
  <2>4. OperandText(i.arg) = <<m>> \o IF i.arg.by = 0 THEN <<>> ELSE <<sh>>
    BY <1>8, Zenon DEF OperandText
  <2>5. sh # Nothing
    BY NoneEmpty, Zenon
  <2>. DEFINE e == Nothing
  <2>6. /\ Shapes(at, m, e, sh, sh, sh) /\ Shapes(d, n, at, m, e, sh) /\ Shapes(m, sh, sh, sh, sh, sh)
        /\ Shapes(d, n, at, m, sh, sh) /\ Whole(d, n, at, m, sh)
    BY <1>5, <2>5, Joined, StrippedTuples
  <2>7. CASE i.arg.by = 0
    <3>1. <<at, m, e>> \o <<>> = <<at, m, e>> /\ <<d, n>> \o <<at, m, e>> = <<d, n, at, m, e>>
          /\ Stripped(<<d, n, at, m, e>>) = <<d, n, at, m>> /\ <<d, n, at>> \o <<m>> = <<d, n, at, m>>
          /\ <<m>> \o <<>> = <<m>>
      BY <2>6, Zenon DEF Shapes, Whole
    <3>2. DisassembleInstr(w) = Text(op, i.s, <<d, n, at, m, e>>)
      BY <1>6, <2>2, <2>3, <2>7, <3>1, Zenon
    <3>3. Source(i) = Text(op, i.s, <<d, n, at, m>>)
      BY <1>7, <2>4, <2>7, <3>1, Zenon
    <3>. HIDE DEF d, n, at, m, e
    <3>. QED  BY <2>1, <3>1, <3>2, <3>3, NamedText
  <2>8. CASE i.arg.by # 0
    <3>1. <<at, m, e>> \o <<sh>> = <<at, m, e, sh>> /\ <<d, n>> \o <<at, m, e, sh>> = <<d, n, at, m, e, sh>>
          /\ Stripped(<<d, n, at, m, e, sh>>) = <<d, n, at, m, sh>> /\ <<d, n, at>> \o <<m, sh>> = <<d, n, at, m, sh>>
          /\ <<m>> \o <<sh>> = <<m, sh>>
      BY <2>6, Zenon DEF Shapes, Whole
    <3>2. DisassembleInstr(w) = Text(op, i.s, <<d, n, at, m, e, sh>>)
      BY <1>6, <2>2, <2>3, <2>8, <3>1, Zenon
    <3>3. Source(i) = Text(op, i.s, <<d, n, at, m, sh>>)
      BY <1>7, <2>4, <2>8, <3>1, Zenon
    <3>. HIDE DEF d, n, at, m, e, sh
    <3>. QED  BY <2>1, <3>1, <3>2, <3>3, NamedText
  <2>. QED  BY <2>7, <2>8
<1>9. CASE i.arg.imm
  <2>. DEFINE v == Num(i.arg.val)
  <2>1. by = i.arg.val /\ 14 \in w /\ (i.arg.val = 0 <=> i.arg = Imm(0)) /\ (i.arg = Imm(0) => i.mode = "offset")
    BY <1>9, OffsetNamed
  <2>2. OperandText(i.arg) = <<v>> /\ v # Nothing
    <3>1. v # Nothing
      BY NoneEmpty, Zenon
    <3>. QED  BY <1>9, <3>1, Zenon DEF OperandText
  <2>3. Shapes(d, n, at, v, v, v) /\ Whole(d, n, at, v, v)
    BY <1>5, <2>2, Joined, StrippedTuples
  <2>4. /\ <<d, n>> \o <<at>> = <<d, n, at>> /\ <<d, n>> \o <<at, v>> = <<d, n, at, v>>
        /\ <<d, n, at>> \o <<v>> = <<d, n, at, v>> /\ Front(<<d, n, at, v>>) = <<d, n, at>>
        /\ Stripped(<<d, n, at>>) = <<d, n, at>> /\ Stripped(<<d, n, at, v>>) = <<d, n, at, v>>
    BY <2>3, Zenon DEF Shapes, Whole
  <2>5. Source(i) = Text(op, i.s, <<d, n, at, v>>)
    BY <1>7, <2>2, <2>4, Zenon
  <2>6. CASE i.arg = Imm(0)
    <3>1. DisassembleInstr(w) = Text(op, i.s, <<d, n, at>>)
      BY <1>6, <2>1, <2>4, <2>6, Zenon
    <3>. DEFINE front == <<d, n, at>>
                all == <<d, n, at, v>>
    <3>2. Front(all) = front /\ Stripped(front) = front /\ Source(i) = Text(op, i.s, all)
          /\ DisassembleInstr(w) = Text(op, i.s, front)
      BY <2>4, <2>5, <3>1, Zenon
    <3>. HIDE DEF front, all
    <3>3. Said(i) = Text(op, i.s, IF i.op \in Loads \cup Stores /\ i.arg = Imm(0) THEN Front(all) ELSE all)
      BY <3>2, SaidSource
    <3>4. Said(i) = Text(op, i.s, front)
      BY <2>6, <3>2, <3>3, Zenon
    <3>5. [Text(op, i.s, front) EXCEPT !.args = Stripped(@)] = Text(op, i.s, Stripped(front))
      BY TextChanged
    <3>. QED  BY <3>2, <3>4, <3>5, Zenon DEF Named
  <2>7. CASE i.arg # Imm(0)
    <3>1. DisassembleInstr(w) = Text(op, i.s, <<d, n, at, v>>)
      BY <1>6, <2>1, <2>4, <2>7, Zenon
    <3>. HIDE DEF d, n, at, v
    <3>. QED  BY <2>4, <2>5, <2>7, <3>1, NamedText
  <2>. QED  BY <2>6, <2>7
<1>. QED  BY <1>8, <1>9

LEMMA AllNamed == \A i \in Instructions : ~Garbled(i) => Named(i)
<1>. SUFFICES ASSUME NEW i \in Instructions, ~Garbled(i) PROVE Named(i)
  OBVIOUS
<1>1. i.op # "nop"
  BY Zenon DEF Garbled
<1>2. i.op \in (Adders \cup Subbers \cup Logicals \cup {"mul"}) \cup Compares \cup Shifts \cup LongMuls \cup Moves
                 \cup (Loads \cup Stores) \cup Swaps \cup {"adrp"} \cup (Jumps \cup {"swi"}) \cup RegJumps \cup {"hlt"}
  <2>1. i.op \in AluOps \cup Shifts \cup LongMuls \cup Moves \cup Loads \cup Stores \cup Swaps
                   \cup {"adrp"} \cup Jumps \cup {"swi"} \cup RegJumps \cup {"hlt", "nop"}
    BY MnemonicsFacts
  <2>. QED  BY <1>1, <2>1, Zenon DEF AluOps
<1>. QED  BY <1>2, NamedAlu, NamedCompare, NamedShift, NamedLongMul, NamedMove, NamedMemory, NamedSwap, NamedAdrp,
             NamedJump, NamedRegJump, NamedHlt

(* The listing of a program shows every instruction as it was assembled, whatever its
   operands are, apart from those that Garbled lists; for every width of a word, every
   size of RAM and every start. *)
THEOREM ListingIsFaithful == Spec => []ListingNames
<1>1. Inductive => ListingNames
  <2>. SUFFICES ASSUME Inductive, NEW k \in DOMAIN code, k < Len(prog), ~Garbled(prog[k + 1])
                PROVE  Named(prog[k + 1]) /\ code[k] = Encode(prog[k + 1])
    BY Zenon DEF ListingNames, Named
  <2>1. k \in Nat /\ code[k] = Encode(prog[k + 1])
    BY DEF Inductive, Loaded
  <2>2. prog[k + 1] \in Instructions
    BY <2>1 DEF Inductive, Loaded
  <2>. QED  BY <2>1, <2>2, AllNamed
<1>. QED  BY <1>1, InitLoads, StepKeeps, PTL DEF Spec

=============================================================================
