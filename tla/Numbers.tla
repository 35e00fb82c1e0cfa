------------------------------ MODULE Numbers ------------------------------
(***************************************************************************)
(* One BigInteger as its owner uses it: read from bytes or from a text,    *)
(* then computed with, one member function per step, or one turn of a      *)
(* member's loop.  Next to it the integer it ought to be.                  *)
(*                                                                         *)
(* The members are not right for all arguments.  Where a member has an     *)
(* argument it mistreats, the action says so, in terms of the arguments,   *)
(* and the history variable fits is FALSE from then on.                    *)
(***************************************************************************)
EXTENDS TextCodes

CONSTANTS
  Octets, MaxBytes,      \* the bytes numbers are read from, and how many
  Characters, MaxText,   \* likewise of texts
  Operands,              \* the integers that are the other operand
  Shifts, Exponents,     \* arguments of shifts and powers
  Moduli,                \* moduli of ModPow and ModInverse
  Places,                \* decimals of amounts
  CornerWords,           \* bound: only numbers of these words are computed with
  Limit                  \* bound: and only to results of at most this size

VARIABLES
  number,
  exact,   \* history: what number ought to be
  fits,    \* history: no member was given an argument it mistreats
  input,   \* the bytes or the text number was read from, if nothing was computed since
  job      \* the loop of ModPow or ModInverse that runs, or what it returned from

numberVars == <<number, exact, fits, input, job>>

Computed == [kind |-> "none", items |-> <<>>]
Idle     == [kind |-> "none"]

NumberInit ==
  /\ number = Zero /\ exact = 0 /\ fits = TRUE
  /\ input = [kind |-> "start", items |-> <<>>]
  /\ job = Idle
-----------------------------------------------------------------------------
(* Reading. *)

ReceiveByte ==
  /\ input.kind \in {"start", "bytes"} /\ Len(input.items) < MaxBytes
  /\ \E byte \in Octets : input' = [kind |-> "bytes", items |-> Append(input.items, byte)]
  /\ number' = FromUnsignedArray(input'.items, TRUE)
  /\ exact' = Positional(input'.items, ByteValues)
  /\ UNCHANGED <<fits, job>>

\* The integer in a text, 0 if there is none.
Core(text) == LET line == Unframed(text)
              IN IF line # <<>> /\ Head(line) = Dash THEN Tail(line) ELSE line
Decimals(text) == \A i \in DOMAIN Core(text) : IsDigit(Core(text)[i])
Integer(text) == IF ~ Decimals(text) THEN 0
                 ELSE (IF Dash \in ToSet(text) THEN -1 ELSE 1) * Positional(Reverse(Core(text)), 10)

TypeCharacter ==
  /\ input.kind \in {"start", "text"} /\ Len(input.items) < MaxText
  /\ \E c \in Characters : input' = [kind |-> "text", items |-> Append(input.items, c)]
  /\ number' = Parse(input'.items)
  /\ exact' = Integer(input'.items)
  /\ fits' = Decimals(input'.items)
  /\ UNCHANGED job
-----------------------------------------------------------------------------
(* Computing. *)

Known == {FromInt64(n) : n \in Operands \cup {-n : n \in Operands}}

Size(n) == IF n < 0 THEN -n ELSE n
Sign(n) == IF n < 0 THEN -1 ELSE IF n = 0 THEN 0 ELSE 1

Ready == fits /\ job = Idle /\ \A i \in DOMAIN number.data : number.data[i] \in CornerWords

Becomes(result, integer, right) ==
  /\ number' = result /\ exact' = integer /\ fits' = right
  /\ input' = Computed
  /\ UNCHANGED job

InReach(n, m) == Size(n) <= Limit \div Max({1, Size(m)})

\* The sign of a sum of two negative numbers is that of the int its words make.
AddNumber == Ready /\ \E b \in Known :
  Becomes(Plus(number, b), exact + Meaning(b),
          ~ (number.sign < 0 /\ b.sign < 0 /\ (exact + Meaning(b)) % (WordValues \div 2) = 0))

SubtractNumber == Ready /\ \E b \in Known : Becomes(Minus(number, b), exact - Meaning(b), TRUE)

MultiplyNumber == Ready /\ \E b \in Known :
  InReach(exact, Meaning(b)) /\ Becomes(Times(number, b), exact * Meaning(b), TRUE)

\* A divisor whose int is 0 counts as 0, and a one-word quotient of 0 loses its only word.
Divisible(b) == Meaning(b) % (WordValues \div 2) # 0

DivideNumber == Ready /\ \E b \in Known :
  Becomes(Divided(number, b), Sign(exact) * Sign(Meaning(b)) * (Size(exact) \div Max({1, Size(Meaning(b))})),
          Divisible(b) /\ (Size(exact) >= Size(Meaning(b)) \/ Len(b.data) > Len(number.data)))

DivideRounded == Ready /\ exact >= 0 /\ \E b \in Known :
  LET sum == exact + Meaning(b) \div 2
  IN /\ Meaning(b) > 0
     /\ Becomes(DivideAndRoundToClosest(number, b), sum \div Meaning(b), Divisible(b) /\ sum >= Meaning(b))

\* The rest of a negative number is brought up by the divisor, also a rest of 0.
TakeModulo == Ready /\ \E b \in Known :
  Becomes(Modulo(number, b), exact % Max({1, Meaning(b)}), Divisible(b) /\ exact >= 0 /\ Meaning(b) > 0)

ShiftNumberLeft == Ready /\ \E bits \in Shifts :
  InReach(exact, 2 ^ bits) /\ Becomes(ShiftedLeft(number, bits), exact * 2 ^ bits, exact # 0 \/ bits < WordBits)

\* Nothing is left of a number shifted out, not even a word of 0.
ShiftNumberRight == Ready /\ \E bits \in Shifts :
  Becomes(ShiftedRight(number, bits), Sign(exact) * (Size(exact) \div 2 ^ bits), Size(exact) >= 2 ^ bits)

\* The places of the bits of an integer, and the integer of such places.
IntBits(n)  == {k \in 0 .. 3 * WordBits : (Size(n) \div 2 ^ k) % 2 = 1}
OfBits(places) == Positional([k \in 1 .. 3 * WordBits |-> IF k - 1 \in places THEN 1 ELSE 0], 2)

CombineBits == Ready /\ \E b \in Known :
  LET m == IntBits(exact)
      n == IntBits(Meaning(b))
  IN \/ Becomes(BitAnd(number, b), OfBits(m \cap n), TRUE)
     \/ Becomes(BitOr(number, b), OfBits(m \cup n), TRUE)
     \/ Becomes(BitXor(number, b), OfBits((m \cup n) \ (m \cap n)), TRUE)

InvertBits == Ready /\ Becomes(BitNot(number), WordValues ^ Len(number.data) - 1 - Size(exact), TRUE)

FlipOneBit == Ready /\ \E bit \in Shifts :
  Becomes(FlipBit(number, bit),
          Size(exact) + (IF bit \in IntBits(exact) THEN -1 ELSE 1) * 2 ^ bit, TRUE)

TakeAbs == Ready /\ Becomes(Abs(number), Size(exact), TRUE)
Negate  == Ready /\ Becomes(Negated(number), -exact, TRUE)

PowerOf(n, exp) == IF exp = 0 THEN 1 ELSE n ^ exp

TakePower == Ready /\ \E exp \in Exponents :
  /\ exp < 2 \/ (InReach(exact, exact) /\ InReach(exact, exact * exact))
  /\ Becomes(Pow(number, FromInt64(exp)), PowerOf(exact, exp), TRUE)

RootOf(n) == CHOOSE r \in 0 .. n : r * r <= n /\ (r + 1) * (r + 1) > n

TakeRoot == Ready /\ Size(exact) <= Limit \div WordValues
            /\ Becomes(Sqrt(number), RootOf(Max({0, exact})), TRUE)
-----------------------------------------------------------------------------
(* ModPow and ModInverse, a turn of their loops at a time.  The number they  *)
(* were called on stays until they return.                                 *)

ModulusNumbers == {FromInt64(m) : m \in Moduli}

StartInverse(modulus, then) ==
  [kind |-> "inverse", of |-> number, modulus |-> modulus, then |-> then, e |-> EuclidStart(number, modulus)]

StartPower(of, modulus, exp) ==
  [kind |-> "power", of |-> of, modulus |-> modulus, exp |-> exp, p |-> [s |-> One, exp |-> exp, t |-> of]]

BeginInverse ==
  /\ Ready /\ exact > 0
  /\ \E modulus \in ModulusNumbers : job' = StartInverse(modulus, <<>>)
  /\ UNCHANGED <<number, exact, fits, input>>

\* A negative exponent is that of the inverse.
BeginPower ==
  /\ Ready /\ exact > 0
  /\ \E modulus \in ModulusNumbers, n \in Exponents \cup {-n : n \in Exponents} :
       LET exp == FromInt64(n)
       IN IF n = 1 THEN Becomes(Modulo(number, modulus), exact % Meaning(modulus), Divisible(modulus))
          ELSE /\ job' = IF n < 0 THEN StartInverse(modulus, <<Negated(exp)>>) ELSE StartPower(number, modulus, exp)
               /\ UNCHANGED <<number, exact, fits, input>>

TurnInverse ==
  /\ job.kind = "inverse" /\ ~ EuclidDone(job.e)
  /\ job' = [job EXCEPT !.e = EuclidTurn(job.e, job.modulus)]
  /\ UNCHANGED <<number, exact, fits, input>>

TurnPower ==
  /\ job.kind = "power" /\ job.p.exp # Zero
  /\ job' = [job EXCEPT !.p = ModPowTurn(job.p, job.modulus)]
  /\ UNCHANGED <<number, exact, fits, input>>

Returns(result, kind) ==
  /\ number' = result /\ exact' = Meaning(result)
  /\ job' = [kind |-> kind, of |-> job.of, modulus |-> job.modulus]
  /\ input' = Computed
  /\ UNCHANGED fits

EndInverse ==
  /\ job.kind = "inverse" /\ EuclidDone(job.e)
  /\ IF job.then = <<>> THEN Returns(InverseOf(job.e, job.modulus), "inverted")
     ELSE /\ job' = StartPower(InverseOf(job.e, job.modulus), job.modulus, job.then[1])
          /\ UNCHANGED <<number, exact, fits, input>>

EndPower ==
  /\ job.kind = "power" /\ job.p.exp = Zero
  /\ Returns(job.p.s, "raised")
-----------------------------------------------------------------------------
Compute ==
  \/ AddNumber \/ SubtractNumber \/ MultiplyNumber \/ DivideNumber \/ DivideRounded \/ TakeModulo
  \/ ShiftNumberLeft \/ ShiftNumberRight \/ CombineBits \/ InvertBits \/ FlipOneBit
  \/ TakeAbs \/ Negate \/ TakePower \/ TakeRoot
  \/ BeginInverse \/ BeginPower \/ TurnInverse \/ TurnPower \/ EndInverse \/ EndPower

NumberNext == ReceiveByte \/ TypeCharacter \/ Compute
-----------------------------------------------------------------------------
NumberTypeOK ==
  /\ number.sign \in -1 .. 1 /\ \A i \in DOMAIN number.data : number.data[i] \in 0 .. WordValues - 1
  /\ exact \in Int /\ fits \in BOOLEAN
  /\ input.kind \in {"start", "bytes", "text", "none"}
  /\ job.kind \in {"none", "inverse", "power", "inverted", "raised"}

\* The words and the sign are those of the integer: after any chain of members none of which was
\* given an argument it mistreats, carries, borrows, estimated quotient words and signs have come
\* out right, and the number has the one form comparisons by words rely on.  The order, too, is that
\* of the integers, but for two negative numbers, which are compared by magnitude, and for a number
\* and its negation, which compare as equal.
ArithmeticIsExact ==
  fits /\ job.kind \notin {"inverted", "raised"} =>
    /\ Meaning(number) = exact /\ number.sign = Sign(exact)
    /\ number.data = <<0>> \/ (number.data # <<>> /\ Last(number.data) # 0)
    /\ \A b \in Known : \/ number.sign < 0 /\ b.sign < 0
                        \/ /\ LessOrEqual(number, b) <=> exact <= Meaning(b)
                           /\ GreaterOrEqual(number, b) <=> exact >= Meaning(b)
                           /\ exact # -Meaning(b) => CompareTo(number, b) = Sign(exact - Meaning(b))
    /\ IsZero(number) <=> exact = 0
    /\ exact >= 0 => (CalcIsEven(number) <=> exact % 2 = 0)
    /\ \A bit \in Shifts : TestBit(number, bit) <=> bit \in IntBits(exact)

\* What a number is written to reads back as the number: its bytes without and with a sign, its
\* decimal digits, the hexadecimal digits of a single word, and, of a number that is not negative, an amount with any number of decimals.
\* A negative number whose last word ends with a byte of ones is the one that loses its sign byte.
WritingsReadBack ==
  fits /\ job = Idle =>
    /\ \A bytes \in {ToUnsignedByteArray(number)} : FromUnsignedArray(bytes, exact >= 0) = number
    /\ \A bytes \in {ToSignedByteArray(number)} :
         FromSignedArray(bytes) = number
         \/ (exact < 0 /\ Last(Bytes(number.data)) = ByteValues - 1)
    /\ \A text \in {ToDecimal(number)} : Parse(text) = number
    /\ Len(number.data) = 1 /\ exact >= 0 => \A text \in {ToHex(number)} : FromHex(text) = number
    /\ exact > 0 => GetLowestSetBit(number) = Min(IntBits(exact))
    /\ exact >= 0 => \A decimals \in Places, always \in BOOLEAN :
                       \A text \in {AmountText(number, decimals, always)} :
                         AmountRead(text, decimals, Separator) = number

\* Bytes are read as the integer they are, and every code of them reads back: Base16, Base58 with and
\* without its checksum, into an array or into a buffer, Base64.  Bytes of 0 only are one too many
\* in Base58.
CodesReadBack ==
  input.kind = "bytes" =>
    LET bytes == input.items
        n     == Len(bytes)
    IN /\ Last(bytes) \in {0, ByteValues - 1} =>
            Meaning(FromSignedArray(bytes)) = Positional(bytes, ByteValues) - (IF Last(bytes) = 0 THEN 0 ELSE ByteValues ^ n)
       /\ \A text \in {Encode16(bytes)} : Decoded16(text) = bytes /\ Decode16(<<0, LetterX>> \o text, n) = bytes
       /\ \A text \in {Encode58(bytes)} :
            Decoded58(text) = bytes \o (IF exact = 0 THEN <<0>> ELSE <<>>)
       /\ \A text \in {CheckEncode(bytes)} :
            exact # 0 => /\ CheckDecode(text) = bytes
                         /\ CheckDecodeSecure(text, n) = [size |-> n, output |-> bytes]
                         /\ CheckDecodeSecure(text, n - 1).size = -(n + CheckBytes)
       /\ \A text \in {Encode64(bytes)} : RequiredLength(text) = n /\ Decoded64(text) = bytes

\* A text is taken for the integer or the amount it shows, or for none; and one that decodes is
\* the code of what it decodes to, but for 1s only in Base58 and the bits Base64 has to spare.
TextsAreWhatTheySay ==
  input.kind = "text" =>
    LET text   == input.items
        points == {i \in DOMAIN text : text[i] = Point}
        whole  == SelectSeq(text, LAMBDA c : c # Point)
        after  == IF points = {} THEN 0 ELSE Len(text) - Min(points)
    IN /\ TryParse(text) <=> ~ Decimals(text)
       /\ \A decimals \in Places :
            Cardinality(points) <= 1 /\ Decimals(whole) /\ ToSet(Tail(text)) \cap {Dash, NewLine} = {} =>
              Meaning(AmountRead(text, decimals, Separator))
                = IF after <= decimals THEN Integer(whole) * PowerOf(10, decimals - after)
                  ELSE Integer(SubSeq(whole, 1, Len(whole) - (after - decimals)))
       /\ \A bytes \in {Decoded16(text)} : bytes # <<>> => Encode16(bytes) = Unprefixed(text)
       /\ \A bytes \in {Decoded58(text)} :
            bytes # <<>> /\ (\E i \in DOMAIN text : text[i] # 0) => Encode58(bytes) = text
       /\ \A room \in 0 .. MaxText :
            Decode58(text, room).size >= 0 => DecodeSecure(text, room) = Decode58(text, room)
       /\ RequiredLength(text) > 0 /\ AllIn(SelectSeq(text, LAMBDA c : c # Pad), Radix64) =>
            \A bytes \in {Decoded64(text)} : \A code \in {Encode64(bytes)} :
              /\ Len(code) = Len(text)
              /\ SubSeq(code, 1, Len(bytes)) = SubSeq(text, 1, Len(bytes))

\* ModPow's loop keeps what it is to return, the power taken in s times that left of t, whatever the
\* exponent has left; what it returns is the power, and ModInverse's result the inverse or 0.
PowerMod(n, k, m) == LET power[i \in 0 .. k] == IF i = 0 THEN 1 % m ELSE (power[i - 1] * (n % m)) % m
                     IN power[k]

ModularResults ==
  /\ job.kind = "power" /\ Divisible(job.modulus) =>
       LET m == Meaning(job.modulus)
       IN (Meaning(job.p.s) * PowerMod(Meaning(job.p.t), Meaning(job.p.exp), m)) % m
            = PowerMod(Meaning(job.of), Meaning(job.exp), m)
  /\ job.kind = "inverted" =>
       number = Zero \/ (Meaning(number) * Meaning(job.of)) % Meaning(job.modulus) = 1
=============================================================================
