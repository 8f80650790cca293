------------------------------- MODULE Words -------------------------------
(***************************************************************************)
(* Machine words and bit fields (emulator32bit_util.h).  The data path of  *)
(* the emulator is 32 bits wide; here its width is the parameter WordBits, *)
(* and a byte is a fourth of a word.  Instruction words keep their 32 bits *)
(* and are sets of bit numbers.                                            *)
(***************************************************************************)
EXTENDS Integers, FiniteSetsExt

CONSTANT WordBits   \* bits of a data word, a register and an address

ASSUME WordBitsAssumption ==
  /\ WordBits \in Nat \ {0}
  /\ WordBits % 4 = 0

\* The provers know nothing of 2^n.
Pow2[n \in Nat] == IF n = 0 THEN 1 ELSE 2 * Pow2[n - 1]

Modulus  == Pow2[WordBits]
Words    == 0 .. Modulus - 1
ByteBits == WordBits \div 4
Bytes    == 0 .. Pow2[ByteBits] - 1

Wrap(v) == v % Modulus

\* The lowest n bits of v, and the number a set of bits stands for.
BitsOf(v, n) == {i \in 0 .. n-1 : (v \div Pow2[i]) % 2 = 1}
Total(f, S) == MapThenSumSet(LAMBDA i : f[i], S)
ValueOf(bits) == Total(Pow2, bits)

Top(v)    == v >= Modulus \div 2            \* the sign bit
Signed(v) == IF Top(v) THEN v - Modulus ELSE v

And(a, b) == ValueOf(BitsOf(a, WordBits) \cap BitsOf(b, WordBits))
Or(a, b)  == ValueOf(BitsOf(a, WordBits) \cup BitsOf(b, WordBits))
Flip(a)   == Modulus - 1 - a
Xor(a, b) == Or(And(a, Flip(b)), And(Flip(a), b))

LeftBy(v, n)      == Wrap(v * Pow2[n])
RightBy(v, n)     == v \div Pow2[n]
SignedRightBy(v, n) == Wrap(Signed(v) \div Pow2[n])

ByteAt(v, i) == (v \div Pow2[i * ByteBits]) % Pow2[ByteBits]

\* bitfield_u32, bitfield_s32 and test_bit on an instruction word.
Field(w, i, len) == ValueOf({j \in 0 .. len-1 : i + j \in w})
SignedField(w, i, len) ==
  Field(w, i, len) - (IF i + len - 1 \in w THEN Pow2[len] ELSE 0)
=============================================================================
