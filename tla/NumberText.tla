----------------------------- MODULE NumberText -----------------------------
(***************************************************************************)
(* What phantasma/Numerics/BigInteger.h makes of a number outside: byte    *)
(* arrays, least significant byte first, and texts.  A character is a      *)
(* digit's value, 10 to 35 for a letter, or one of the constants below.    *)
(***************************************************************************)
EXTENDS BigInteger

\* '-', '\r' or '\n', the decimal point, the tolerated separator, any other character.
Dash      == -1
NewLine   == -2
Point     == -3
Separator == -4
Strange   == -5

IsDigit(c) == c \in 0 .. 9
-----------------------------------------------------------------------------
(* Byte arrays. *)

ByteCount(a) == (BitLength(a) + ByteBits - 1) \div ByteBits

ToUnsignedByteArray(a) == SubSeq(Bytes(a.data), 1, ByteCount(a))

Complement(bytes) == [i \in DOMAIN bytes |-> ByteValues - 1 - bytes[i]]
WithSignByte(a)   == ToUnsignedByteArray(a) \o <<0>>

\* Only the bytes the words have are complemented: when they are as many as the number takes, the
\* byte for the sign stays 0 until the end.
ToSignedByteArray(a) ==
  LET size  == ByteCount(a) + 1
      words == Complement(Bytes(a.data))
      flip  == [i \in 1 .. size |-> Word(words, i)]
      bytes == WithSignByte(Plus(FromBytes(flip, 1), One))
  IN IF a.sign = -1 THEN [bytes EXCEPT ![Len(bytes)] = ByteValues - 1] ELSE WithSignByte(a)

ApplyTwosComplement(bytes) == ToSignedByteArray(Plus(FromBytes(Complement(bytes), 1), One))

\* Another last byte than the two is reported, and the number gets the sign 0.
FromSignedArray(bytes) ==
  LET msb == Last(bytes)
  IN IF bytes = <<>> THEN Zero
     ELSE IF msb = ByteValues - 1 THEN FromBytes(ApplyTwosComplement(bytes), -1)
     ELSE FromBytes(bytes, IF msb = 0 THEN 1 ELSE 0)

FromUnsignedArray(bytes, isPositive) == FromBytes(bytes, IF isPositive THEN 1 ELSE -1)

GetLowestSetBit(a) ==
  LET b == ToSignedByteArray(a)
      w == Min({i \in DOMAIN b : b[i] # 0})
  IN IF a.sign = 0 THEN -1 ELSE (w - 1) * ByteBits + Min({x \in 0 .. ByteBits - 1 : (b[w] \div 2 ^ x) % 2 = 1})
-----------------------------------------------------------------------------
(* Texts. *)

\* The text without the line ends around it and the sign after them.
Unframed(str) ==
  LET inner == {i \in DOMAIN str : str[i] # NewLine}
  IN IF inner = {} THEN <<>> ELSE SubSeq(str, Min(inner), Max(inner))

\* The constructor from a text: every digit weighed, from the last to the first.  A bad character
\* is reported and leaves a number without words.
Parsed(str, radix) ==
  LET core   == Unframed(str)
      minus  == core # <<>> /\ Head(core) = Dash
      digits == IF minus THEN Tail(core) ELSE core
      n      == Len(digits)
      sum[i \in 1 .. n + 1] ==
        IF i > n THEN [n |-> Zero, bi |-> One]
        ELSE LET after == sum[i + 1]
             IN [n  |-> The({Plus(after.n, part) : part \in {Times(after.bi, FromInt64(digits[i]))}}),
                 bi |-> Times(after.bi, FromInt64(radix))]
      bad    == \E i \in DOMAIN digits : digits[i] \notin 0 .. radix - 1
      sign   == IF minus THEN -1 ELSE 1
  IN IF str \in {<<>>, <<0>>} THEN [number |-> Zero, error |-> FALSE]
     ELSE [number |-> IF bad THEN [sign |-> sign, data |-> <<>>] ELSE InitFromArray(sum[1].n.data, sign), error |-> bad]

Parse(str) == Parsed(str, 10).number
FromHex(str) == Parsed(str, 16).number

\* True where the text is not a number: what TryParse returns is the error.
TryParse(str) == Parsed(str, 10).error

\* The loop of ToDecimal, the rest still to be written.
RECURSIVE Decimal(_)
Decimal(rest) ==
  IF rest.data \in {<<>>, <<0>>} THEN <<>>
  ELSE The({Append(Decimal(d.quot), Word(d.rem.data, 1)) : d \in {DivideAndModulus(rest, FromInt64(10))}})

ToDecimal(a) ==
  IF a.data \in {<<>>, <<0>>} THEN <<0>>
  ELSE (IF a.sign < 1 THEN <<Dash>> ELSE <<>>) \o Decimal([a EXCEPT !.sign = 1])

\* The words are written from the least significant one on.
ToHex(a) == FlattenSeq([i \in DOMAIN a.data |-> [k \in 1 .. WordBits \div 4 |-> (a.data[i] \div 16 ^ (WordBits \div 4 - k)) % 16]])
-----------------------------------------------------------------------------
(* Amounts with a decimal point. *)

\* DecimalConversion of a number: the quotient and the rest of its division by the decimals' power.
SplitAmount(value, decimals) ==
  IF decimals > 0 THEN The({DivideAndModulus(value, power) : power \in {Pow(FromInt64(10), FromInt64(decimals))}})
  ELSE [quot |-> value, rem |-> Zero]

\* Mutant of Fraction: the zeros before the rest's digits are left out.
FractionUnfilled(text, decimals) == <<Point>> \o SubSeq(text, 1, Max({0} \cup {i \in DOMAIN text : text[i] # 0}))

Fraction(text, decimals) ==
  <<Point>> \o Zeros(Max({0, decimals - Len(text)})) \o SubSeq(text, 1, Max({0} \cup {i \in DOMAIN text : text[i] # 0}))

AmountText(value, decimals, alwaysShowDecimalPoint) ==
  IF decimals = 0 /\ ~ alwaysShowDecimalPoint THEN ToDecimal(value)
  ELSE The({IF d.rem = Zero /\ ~ alwaysShowDecimalPoint THEN ToDecimal(d.quot)
            ELSE ToDecimal(d.quot) \o The({Fraction(text, decimals) : text \in {ToDecimal(d.rem)}}) :
              d \in {SplitAmount(value, decimals)}})

\* _DecimalConversion of a text: the point is taken out, digits after the last decimal are cut off
\* from the end of the text, and missing ones are made up by a factor.
AmountRead(text, decimals, toleratedSeparator) ==
  LET points   == {i \in DOMAIN text : text[i] = Point}
      point    == Min(points)
      digits   == Cardinality({i \in DOMAIN text : IsDigit(text[i]) /\ i > point})
      strange  == {i \in DOMAIN text : ~ IsDigit(text[i]) /\ text[i] \notin {Point, toleratedSeparator, NewLine, Dash}}
      copy     == SubSeq(text, 1, point - 1) \o SubSeq(text, point + 1, Len(text))
      shown    == Min({digits, decimals})
      Scaled(str, k) == The({IF k = 0 THEN n ELSE The({Times(n, power) : power \in {Pow(FromInt64(10), FromInt64(k))}}) :
                               n \in {Parse(str)}})
  IN IF strange # {} \/ Cardinality(points) > 1 THEN Zero
     ELSE IF points = {} THEN Scaled(text, decimals)
     ELSE Scaled(SubSeq(copy, 1, Len(copy) - (digits - shown)), decimals - shown)
=============================================================================
