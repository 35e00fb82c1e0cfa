----------------------------- MODULE BigInteger -----------------------------
(***************************************************************************)
(* phantasma/Numerics/BigInteger.h.  A number is the pair of members of    *)
(* the class: sign, and data, the words from the least significant one on. *)
(* A word has WordBytes bytes of ByteBits bits, 4 and 8 in the code.       *)
(* Every operator is the member of that name, with the words computed as   *)
(* the member computes them; numbers that do not have the form             *)
(* InitFromArray gives (no words at all, a sign that does not fit) stay as *)
(* they are, since some members make them.  An exception is reported and   *)
(* the member goes on, as PHANTASMA_EXCEPTION of main.cpp has it.  A shift *)
(* of a word by its width or more, undefined in C++, takes the count       *)
(* modulo the width, as the shift instruction of the x86 and x64 targets   *)
(* of the project does.                                                    *)
(***************************************************************************)
EXTENDS Integers, Sequences, FiniteSetsExt, SequencesExt

CONSTANTS ByteBits, WordBytes

ASSUME WidthAssumption == ByteBits \in Nat \ {0} /\ WordBytes \in Nat \ {0}

WordBits == ByteBits * WordBytes
ByteValues == 2 ^ ByteBits
WordValues == 2 ^ WordBits

\* The integer a number stands for; digits are given from the least significant one on.
Positional(digits, base) ==
  LET value[i \in 1 .. Len(digits) + 1] == IF i > Len(digits) THEN 0 ELSE digits[i] + base * value[i + 1]
  IN value[1]
Magnitude(data) == Positional(data, WordValues)
Meaning(a) == (IF a.sign < 0 THEN -1 ELSE 1) * Magnitude(a.data)

Word(data, i) == IF i \in DOMAIN data THEN data[i] ELSE 0
Longest(X, Y) == Max({Len(X), Len(Y)})
Zeros(n) == [i \in 1 .. n |-> 0]

\* The member of a set of one: The({f(v) : v \in {e}}) is f(e), with e computed first.
The(set) == CHOOSE x \in set : TRUE

\* The number of words up to the last one that is not 0.
Significant(data) == Max({0} \cup {i \in DOMAIN data : data[i] # 0})
-----------------------------------------------------------------------------
(* Construction. *)

Trim(a) ==
  LET data == SubSeq(a.data, 1, Max({Significant(a.data), Min({1, Len(a.data)})}))
  IN [sign |-> IF data \in {<<>>, <<0>>} THEN 0 ELSE a.sign, data |-> data]

InitFromArray(digits, sign) ==
  IF Significant(digits) = 0 THEN [sign |-> 0, data |-> <<0>>]
  ELSE [sign |-> sign, data |-> SubSeq(digits, 1, Significant(digits))]

\* An Int64 has two words.
FromInt64(n) == LET m == IF n < 0 THEN -n ELSE n
                IN InitFromArray(<<m % WordValues, m \div WordValues>>, IF n < 0 THEN -1 ELSE 1)

Zero == FromInt64(0)
One  == FromInt64(1)

\* Words from bytes, least significant first, the last word filled up with zeros.
Packed(bytes) ==
  [i \in 1 .. (Len(bytes) + WordBytes - 1) \div WordBytes |->
     Positional([k \in 1 .. WordBytes |-> Word(bytes, (i - 1) * WordBytes + k)], ByteValues)]

Bytes(data) == [i \in 1 .. Len(data) * WordBytes |->
                  (data[(i - 1) \div WordBytes + 1] \div ByteValues ^ ((i - 1) % WordBytes)) % ByteValues]

FromBytes(bytes, sign) == InitFromArray(Packed(bytes), sign)

IntOf(a) == IF a.data = <<>> THEN 0 ELSE (IF a.sign < 0 THEN -1 ELSE 1) * (a.data[1] % (WordValues \div 2))

Abs(a) == InitFromArray(a.data, 1)
Negated(a) == [a EXCEPT !.sign = -a.sign]
-----------------------------------------------------------------------------
(* Words. *)

Add(X, Y) ==
  LET n == Longest(X, Y)
      sum[i \in 0 .. n] == IF i = 0 THEN 0 ELSE Word(X, i) + Word(Y, i) + sum[i - 1] \div WordValues
  IN IF n = 0 THEN <<>>
     ELSE [i \in 1 .. n |-> sum[i] % WordValues] \o <<(sum[n] \div WordValues) % ByteValues>>

\* Mutant of Subtract: a borrow is not borrowed on.
SubtractOneBorrow(X, Y) ==
  LET borrow(i) == IF i > 0 /\ Word(X, i) - Word(Y, i) < 0 THEN 1 ELSE 0
  IN [i \in 1 .. Longest(X, Y) |-> (Word(X, i) - Word(Y, i) - borrow(i - 1)) % WordValues]

Subtract(X, Y) ==
  LET n == Longest(X, Y)
      borrow[i \in 0 .. n] == IF i > 0 /\ Word(X, i) - Word(Y, i) - borrow[i - 1] < 0 THEN 1 ELSE 0
  IN [i \in 1 .. n |-> (Word(X, i) - Word(Y, i) - borrow[i - 1]) % WordValues]

\* One turn of Multiply's outer loop: output and the product of Y and the i-th word of X.
AddProduct(output, X, Y, i) ==
  LET n == Len(Y)
      sum[j \in 0 .. n] == IF j = 0 THEN 0
                           ELSE X[i] * Y[j] + output[i + j - 1] + sum[j - 1] \div WordValues
  IN IF X[i] = 0 THEN output
     ELSE [k \in DOMAIN output |-> CASE k \in i .. i + n - 1 -> sum[k - i + 1] % WordValues
                                     [] k = i + n            -> sum[n] \div WordValues
                                     [] OTHER                -> output[k]]

Multiply(X, Y) ==
  LET output[i \in 0 .. Len(X)] == IF i = 0 THEN Zeros(Len(X) + Len(Y) + 1) ELSE AddProduct(output[i - 1], X, Y, i)
  IN IF X = <<>> \/ Y = <<>> THEN <<>> ELSE output[Len(X)]

ShiftLeft(buffer, bits) ==
  LET zeros == bits \div WordBits
      q     == 2 ^ (bits % WordBits)
      n     == Len(buffer)
      extra == IF buffer[n] * q >= WordValues THEN 1 ELSE 0
      Low(i)  == IF i \in DOMAIN buffer THEN (buffer[i] * q) % WordValues ELSE 0
      High(i) == IF i \in DOMAIN buffer THEN (buffer[i] * q) \div WordValues ELSE 0
  IN IF n = 0 THEN <<>> ELSE [j \in 1 .. n + zeros + extra |-> Low(j - zeros) + High(j - zeros - 1)]

ShiftRight(buffer, bits) ==
  LET q       == bits % WordBits
      n       == Len(buffer)
      shrink  == bits \div WordBits
      extra   == IF buffer[n] \div 2 ^ q = 0 THEN 1 ELSE 0
      size    == n - shrink - extra
      Low(i)  == (buffer[i] * 2 ^ (WordBits - q)) % WordValues
      Part(j) == buffer[j + shrink] \div 2 ^ q
                 + (IF j + shrink + 1 <= n THEN Low(j + shrink + 1) ELSE 0)
  IN IF n = 0 \/ size <= 0 THEN <<>> ELSE [j \in 1 .. size |-> Part(j)]
-----------------------------------------------------------------------------
(* Comparison. *)

LogicalCompare(a, b, op) ==
  LET differ == {i \in DOMAIN a.data : a.data[i] # b.data[i]}
  IN IF a.sign # b.sign THEN (a.sign < b.sign) = op
     ELSE IF Len(a.data) # Len(b.data) THEN (Len(a.data) < Len(b.data)) = op
     ELSE differ # {} /\ (a.data[Max(differ)] < b.data[Max(differ)]) = op

Less(a, b)    == LogicalCompare(a, b, TRUE)
Greater(a, b) == LogicalCompare(a, b, FALSE)
LessOrEqual(a, b)    == a = b \/ Less(a, b)
GreaterOrEqual(a, b) == a = b \/ Greater(a, b)
Equals(a, b)    == a.data = b.data
CompareTo(a, b) == IF Equals(a, b) THEN 0 ELSE IF Less(a, b) THEN -1 ELSE 1
IsZero(a)       == a.sign = 0
-----------------------------------------------------------------------------
(* Arithmetic. *)

\* A fresh number of these words, with the sign unless it is 0.
Signed(data, sign) == InitFromArray(data, sign)

\* The sum of two negative numbers is the one that is not built from its words but filled in.
Plus(a, b) ==
  CASE a.sign < 0 /\ b.sign < 0 ->
         LET sum == [sign |-> 0, data |-> Add(a.data, b.data)]
         IN Trim([sum EXCEPT !.sign = IF IntOf(sum) = 0 THEN 0 ELSE -1])
    [] a.sign < 0 /\ b.sign >= 0 -> IF Less(Abs(a), b) THEN Signed(Subtract(b.data, a.data), 1)
                                    ELSE Signed(Subtract(a.data, b.data), -1)
    [] a.sign >= 0 /\ b.sign < 0 -> IF Less(a, Abs(b)) THEN Signed(Subtract(b.data, a.data), -1)
                                    ELSE Signed(Subtract(a.data, b.data), 1)
    [] OTHER -> Signed(Add(b.data, a.data), 1)

Minus(a, b) ==
  CASE a.sign < 0 /\ b.sign < 0 -> IF Less(Abs(a), Abs(b)) THEN Signed(Subtract(b.data, a.data), 1)
                                   ELSE Signed(Subtract(a.data, b.data), -1)
    [] a.sign < 0 /\ b.sign >= 0 -> Signed(Add(a.data, b.data), -1)
    [] a.sign >= 0 /\ b.sign < 0 -> Signed(Add(a.data, b.data), 1)
    [] OTHER -> IF Less(a, b) THEN Signed(Subtract(b.data, a.data), -1)
                ELSE Signed(Subtract(a.data, b.data), 1)

Times(a, b) == Trim([sign |-> a.sign * b.sign, data |-> Multiply(a.data, b.data)])

ShiftedLeft(a, bits)  == [a EXCEPT !.data = ShiftLeft(@, bits)]
ShiftedRight(a, bits) == IF a.data = <<>> THEN a ELSE Trim([a EXCEPT !.data = ShiftRight(@, bits)])
-----------------------------------------------------------------------------
(* Division. *)

BitLength(a) ==
  LET n == Len(a.data)
      top == a.data[n]
  IN IF a.data \in {<<>>, <<0>>} THEN 0
     ELSE (n - 1) * WordBits + Max({k \in 0 .. WordBits - 1 : top >= 2 ^ k}) + 1

\* The leading 0 of the quotient is not written, nor the only one: 1 / 2 has no words.
SingleDigitDivMod(data, d) ==
  LET n == Len(data)
      rem[i \in 1 .. n + 1] == IF i > n THEN 0 ELSE (rem[i + 1] * WordValues + data[i]) % d
      quot == [i \in 1 .. n |-> (rem[i + 1] * WordValues + data[i]) \div d]
  IN [quot |-> Trim([sign |-> 1, data |-> IF data[n] >= d THEN quot ELSE SubSeq(quot, 1, n - 1)]),
      rem  |-> Trim([sign |-> 1, data |-> <<rem[1]>> \o Zeros(n - 1)])]

\* The estimate of a quotient word from the two highest words of the rest, lowered while the third
\* one refutes it and the rest of the estimate is below a word.
EstimatedWord(high, next, msd, subMsd) ==
  LET q == high \div msd
      r == high % msd
      Refuted(k) == q - k = WordValues \/ (q - k) * subMsd > (r + k * msd) * WordValues + next
  IN q - Min({k \in 0 .. WordValues : ~ Refuted(k) \/ (k > 0 /\ r + k * msd >= WordValues)})

\* One turn of the loop over the words of the quotient: s.rest is what is left of the numerator, j the
\* place of the word.  The estimate is lowered until its product fits.
DivisionTurn(s, den, j) ==
  LET rest == s.rest
      m    == Len(den.data)
      top  == m + j
      word == EstimatedWord(rest[top] * WordValues + rest[top - 1], rest[top - 2], den.data[m], den.data[m - 1])
      part == Signed(SubSeq(rest, top - m, top), 1)
      Estimate(k) == Times(den, FromInt64(word - k))
      lower == CHOOSE k \in 0 .. word : /\ ~ Greater(Estimate(k), part)
                                        /\ \A i \in 0 .. k - 1 : Greater(Estimate(i), part)
      left  == Minus(part, Estimate(lower)).data
  IN [rest |-> [p \in DOMAIN rest |-> IF p \in top - m .. top THEN Word(left, p - (top - m) + 1) ELSE rest[p]],
      quot |-> [s.quot EXCEPT ![j] = word - lower]]

MultiDigitDivMod(data, b) ==
  LET n     == Len(data)
      m     == Len(b.data)
      shift == m * WordBits - BitLength(b)
      den   == ShiftedLeft(b, shift)
      after[j \in 1 .. n - m + 2] ==
        IF j = n - m + 2 THEN [rest |-> ShiftLeft(data \o <<0>>, shift), quot |-> Zeros(n - m + 1)]
        ELSE DivisionTurn(after[j + 1], den, j)
      end   == after[1]
  IN [quot |-> Signed(end.quot, 1), rem |-> Signed(ShiftRight(end.rest, shift), 1)]

Brought(b, rem, up) == IF up THEN Plus(b, rem) ELSE rem

DivideAndModulus(a, b) ==
  IF IntOf(b) = 0 THEN [quot |-> Zero, rem |-> Zero]
  ELSE IF Len(a.data) < Len(b.data) THEN [quot |-> Zero, rem |-> a]
  ELSE The({[quot |-> [d.quot EXCEPT !.sign = IF BitLength(d.quot) = 0 THEN 0 ELSE a.sign * b.sign],
             rem  |-> The({[rem EXCEPT !.sign = IF BitLength(rem) = 0 THEN 0 ELSE @] :
                             rem \in {Brought(b, [d.rem EXCEPT !.sign = a.sign], IntOf(a) < 0)}})] :
              d \in {IF Len(b.data) = 1 THEN SingleDigitDivMod(a.data, b.data[1]) ELSE MultiDigitDivMod(a.data, b)}})

Divided(a, b) == The({[d.quot EXCEPT !.sign = IF @ = 0 THEN 0 ELSE a.sign * b.sign] :
                        d \in {DivideAndModulus(n, m) : n \in {Abs(a)}, m \in {Abs(b)}}})
Modulo(a, b)  == DivideAndModulus(a, b).rem

DivideAndRoundToClosest(a, b) == The({Divided(n, b) : n \in {Plus(a, half) : half \in {Divided(b, FromInt64(2))}}})
CalcIsEven(a) == Modulo(a, FromInt64(2)) = Zero
-----------------------------------------------------------------------------
(* Bits: of the words, whatever the signs. *)

BitsOf(word)  == {k \in 0 .. WordBits - 1 : (word \div 2 ^ k) % 2 = 1}
WordOf(bits)  == Positional([k \in 1 .. WordBits |-> IF k - 1 \in bits THEN 1 ELSE 0], 2)
Both(a, b)    == 1 .. Longest(a.data, b.data)
BitAnd(a, b) == Signed([i \in Both(a, b) |-> WordOf(BitsOf(Word(a.data, i)) \cap BitsOf(Word(b.data, i)))], 1)
BitOr(a, b)  == Signed([i \in Both(a, b) |-> WordOf(BitsOf(Word(a.data, i)) \cup BitsOf(Word(b.data, i)))], 1)
BitXor(a, b) == Signed([i \in Both(a, b) |-> WordOf(SymDiff(BitsOf(Word(a.data, i)), BitsOf(Word(b.data, i))))], 1)
BitNot(a)    == Signed([i \in DOMAIN a.data |-> WordValues - 1 - a.data[i]], 1)
FlipBit(a, bit)   == BitXor(a, ShiftedLeft(One, bit))
TestBit(a, index) == Greater(BitAnd(a, ShiftedLeft(One, index)), Zero)
-----------------------------------------------------------------------------
(* Powers and roots. *)

\* The loop counts up to the exponent.
Pow(base, exp) ==
  LET val[i \in 0 .. Max({0, Meaning(exp)})] == IF i = 0 THEN One ELSE Times(val[i - 1], base)
  IN val[Max({0, Meaning(exp)})]

TimesModulo(a, b, mod) == The({Modulo(product, mod) : product \in {Times(a, b)}})

\* Mutant of ModPowTurn: the exponent is shifted before its bit is looked at.
ModPowTurnLate(p, mod) ==
  IF p.exp = Zero THEN p
  ELSE LET exp == ShiftedRight(p.exp, 1)
       IN [s   |-> IF BitAnd(exp, One) = One THEN TimesModulo(p.s, p.t, mod) ELSE p.s,
           exp |-> exp,
           t   |-> TimesModulo(p.t, p.t, mod)]

\* One turn of ModPow's loop.
ModPowTurn(p, mod) ==
  IF p.exp = Zero THEN p
  ELSE [s   |-> IF BitAnd(p.exp, One) = One THEN TimesModulo(p.s, p.t, mod) ELSE p.s,
        exp |-> ShiftedRight(p.exp, 1),
        t   |-> TimesModulo(p.t, p.t, mod)]

\* One turn of the extended Euclidean algorithm of ModInverse: coef, quots and rems are its three
\* arrays, num the turns so far.
NextCoefficient(e, modulus) ==
  The({Modulo(rest, modulus) : rest \in {Minus(e.coef[1], product) : product \in {Times(e.coef[2], e.quots[1])}}})

EuclidTurn(e, modulus) ==
  The({[num   |-> e.num + 1,
        coef  |-> IF e.num > 1 THEN <<e.coef[2], NextCoefficient(e, modulus)>> ELSE e.coef,
        quots |-> <<e.quots[2], d.quot>>, rems |-> <<e.rems[2], d.rem>>,
        bi    |-> e.x, x |-> d.rem] : d \in {DivideAndModulus(e.bi, e.x)}})

EuclidStart(a, modulus) ==
  [num |-> 0, coef |-> <<Zero, One>>, quots |-> <<Zero, Zero>>, rems |-> <<Zero, Zero>>, bi |-> modulus, x |-> a]

EuclidDone(e) == e.x.data \in {<<>>, <<0>>}
HasInverse(e) == e.rems[1].data \in {<<>>, <<1>>}

\* What ModInverse returns after the last turn.
InverseOf(e, modulus) ==
  IF ~ HasInverse(e) THEN Zero
  ELSE The({Brought(modulus, inverse, inverse.sign < 0) : inverse \in {NextCoefficient(e, modulus)}})

\* The bits of the root from the highest one that can be set, each kept unless the square exceeds a.
Sqrt(a) ==
  LET half == (BitLength(a) + 1) \div 2
      size == half \div WordBits + 1
      top  == IF half % WordBits = 0 THEN half - 1 ELSE half
      Set(words, bit) == [words EXCEPT ![bit \div WordBits + 1] = @ + 2 ^ (bit % WordBits)]
      Kept(words, bit) == LET tmp == Signed(Set(words, bit), 1)
                          IN IF Greater(Times(tmp, tmp), a) THEN words ELSE Set(words, bit)
      root[bit \in 0 .. top + 1] == IF bit = top + 1 THEN Zeros(size) ELSE Kept(root[bit + 1], bit)
  IN IF Less(a, Zero) \/ a = Zero THEN Zero
     ELSE Signed(root[0], 1)
=============================================================================
