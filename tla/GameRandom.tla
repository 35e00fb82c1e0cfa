----------------------------- MODULE GameRandom -----------------------------
(***************************************************************************)
(* The two "game logic" algorithms of random.h and hash.h, on words of     *)
(* Bits bits instead of 64: XorShift64M and Fnv64a.                        *)
(***************************************************************************)
EXTENDS Integers, Sequences, SequencesExt, Bitwise

CONSTANTS
  Bits,                     \* width of a machine word (64)
  ShiftA, ShiftB, ShiftC,   \* 11, 31 and 18
  Multiplier,               \* 0xd989bcacc137dcd5
  Prime                     \* 0x100000001b3

ASSUME RandomAssumption ==
  /\ Bits \in Nat \ {0} /\ {ShiftA, ShiftB, ShiftC} \subseteq 1 .. Bits - 1
  /\ Multiplier % 2 = 1 /\ Prime % 2 = 1

Modulus == 2 ^ Bits

\* XorShift64M::operator(): the number returned, and the state left.
XorShiftOutput(state) == (state * Multiplier) % Modulus

\* Mutant of XorShiftNext: the left shift is not cut to the width of a word.
XorShiftNextWide(state) ==
  LET a == state ^^ (state \div 2 ^ ShiftA)
      b == a ^^ (a * 2 ^ ShiftB)
  IN b ^^ (b \div 2 ^ ShiftC)

XorShiftNext(state) ==
  LET a == state ^^ (state \div 2 ^ ShiftA)
      b == a ^^ ((a * 2 ^ ShiftB) % Modulus)
  IN b ^^ (b \div 2 ^ ShiftC)

\* Fnv64a: xor a byte in, multiply.
FnvStep(hash, byte) == ((hash ^^ byte) * Prime) % Modulus

Fnv(bytes, offsetBasis) == FoldLeft(FnvStep, offsetBasis, bytes)
=============================================================================
