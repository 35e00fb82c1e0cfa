SPECIFICATION Spec
CONSTANTS
  Bits = 5
  ShiftA = 1
  ShiftB = 3
  ShiftC = 2
  Multiplier = 21
  Prime = 19
  ByteBits = 4
  WordBytes = 2
  Radix58 = 6
  Octets = {0, 1, 8, 15}
  MaxBytes = 4
  Characters <- MCCharacters
  MaxText = 4
  Operands = {0, 1, 2, 7, 10, 127, 128, 255, 256, 300, 32768, 32769, 65535}
  Shifts = {0, 1, 7, 8, 9}
  Exponents = {0, 1, 2, 3}
  Moduli = {7, 255, 256, 257}
  Places = {0, 1, 2}
  CornerWords = {0, 1, 127, 128, 255}
  Limit = 1000000
INVARIANTS
  TypeOK
  NoBias
  ArithmeticIsExact
  WritingsReadBack
  CodesReadBack
  TextsAreWhatTheySay
  ModularResults
CHECK_DEADLOCK FALSE
