----------------------------- MODULE TextCodes -----------------------------
(***************************************************************************)
(* The texts of phantasma/Numerics/Base16.h, Base58.h and Base64.h.  A     *)
(* character is its place in the alphabet, or one of the constants of      *)
(* NumberText and of this module.  The radixes fit bytes of ByteBits bits  *)
(* as 16, 58 and 64 fit bytes of 8.  A negative result is the code's error *)
(* result; an array left empty after an exception is the empty sequence.   *)
(***************************************************************************)
EXTENDS NumberText

CONSTANT Radix58   \* 58

ASSUME CodeAssumption == Radix58 \in 2 .. ByteValues - 1 /\ ByteBits % 4 = 0

Radix16 == 2 ^ (ByteBits \div 2)
Radix64 == 2 ^ ((3 * ByteBits) \div 4)

\* 'x' and '='.
LetterX == 33
Pad     == -6

AlphabetIndexOf(c, radix) == IF c \in 0 .. radix - 1 THEN c ELSE -1
AllIn(text, radix) == \A i \in DOMAIN text : AlphabetIndexOf(text[i], radix) >= 0
Leading(seq, value) == Min({i \in DOMAIN seq : seq[i] # value} \cup {Len(seq) + 1}) - 1
-----------------------------------------------------------------------------
(* Base16. *)

Encode16(bytes) ==
  [i \in 1 .. 2 * Len(bytes) |-> LET b == bytes[(i + 1) \div 2]
                                 IN IF i % 2 = 1 THEN b \div Radix16 ELSE b % Radix16]

Unprefixed(text) == IF Len(text) >= 2 /\ text[1] = 0 /\ text[2] = LetterX THEN SubSeq(text, 3, Len(text)) ELSE text

\* The bytes before a bad character, at most as many as there is room for.
Decode16(text, room) ==
  LET digits == Unprefixed(text)
      length == Min({Len(digits) \div 2, room})
      bad    == {i \in 1 .. length : ~ AllIn(SubSeq(digits, 2 * i - 1, 2 * i), Radix16)}
  IN IF Len(digits) % 2 = 1 THEN <<>>
     ELSE [i \in 1 .. Min({length + 1} \cup bad) - 1 |-> digits[2 * i - 1] * Radix16 + digits[2 * i]]

\* Mutant of Decoded16: the bytes before a bad character are kept.
Decoded16Partly(text) == Decode16(text, Len(text))

\* The overload that allocates: all of the bytes or none.
Decoded16(text) ==
  LET bytes == Decode16(text, Len(text))
  IN IF Len(bytes) = Len(Unprefixed(text)) \div 2 THEN bytes ELSE <<>>
-----------------------------------------------------------------------------
(* Base58. *)

\* The loop of TEncode: its characters from the least significant one on.
RECURSIVE Digits58(_)
Digits58(value) ==
  IF ~ GreaterOrEqual(value, FromInt64(Radix58)) THEN <<IntOf(value)>>
  ELSE The({<<IntOf(mod)>> \o Digits58(quot) : mod \in {Modulo(value, FromInt64(Radix58))},
                                              quot \in {Divided(value, FromInt64(Radix58))}})

\* Mutant of Encode58: the zeros in front are lost.
Encode58Value(bytes) ==
  IF bytes = <<>> THEN <<>> ELSE The({Reverse(Digits58(value)) : value \in {FromSignedArray(Reverse(bytes) \o <<0>>)}})

Encode58(bytes) ==
  IF bytes = <<>> THEN <<>>
  ELSE Zeros(Leading(bytes, 0)) \o The({Reverse(Digits58(value)) : value \in {FromSignedArray(Reverse(bytes) \o <<0>>)}})

\* The sum of the digits' values, from the last one to the first.
Value58(text) ==
  LET n == Len(text)
      bi[i \in 1 .. n + 1] == IF i > n THEN Zero
                              ELSE The({The({Plus(bi[i + 1], part) : part \in {Times(FromInt64(text[i]), power)}}) :
                                          power \in {Pow(FromInt64(Radix58), FromInt64(n - i))}})
  IN bi[1]

\* The overload that allocates.
Decoded58(text) ==
  IF ~ AllIn(text, Radix58) THEN <<>>
  ELSE Zeros(Leading(text, 0)) \o The({Reverse(ToUnsignedByteArray(value)) : value \in {Value58(text)}})

\* The overload that writes to a buffer: -1 is its error.
Decode58(text, room) ==
  The({IF ~ AllIn(text, Radix58) \/ Len(bytes) > room THEN [size |-> -1, output |-> Zeros(room)]
       ELSE [size |-> Len(bytes), output |-> bytes \o Zeros(room - Len(bytes))] : bytes \in {Decoded58(text)}})

\* The size is that of all the bytes, also of those there is no room for.
DecodeSecure(text, room) ==
  The({[size |-> Len(bytes), output |-> [i \in 1 .. room |-> Word(bytes, i)]] : bytes \in {Decoded58(text)}})

\* The first bytes of SHA256(SHA256(bytes)), CheckBytes of them: four in the code.
CheckBytes == 1
Checksum(bytes) == <<(Positional(bytes, ByteValues) * 3 + Len(bytes) + 5) % ByteValues>>

CheckEncode(bytes) == IF bytes = <<>> THEN <<>> ELSE Encode58(bytes \o Checksum(bytes))

Split(buffer) == [body |-> SubSeq(buffer, 1, Len(buffer) - CheckBytes),
                  sum  |-> SubSeq(buffer, Len(buffer) - CheckBytes + 1, Len(buffer))]

Verified(parts) == IF Checksum(parts.body) = parts.sum THEN parts.body ELSE <<>>

CheckDecode(text) == The({IF Len(buffer) < CheckBytes THEN <<>> ELSE Verified(Split(buffer)) : buffer \in {Decoded58(text)}})

\* 0 is the error result, a negative size that of a buffer that is too small.
CheckDecodeSecure(text, room) ==
  The({IF decoded.size > room + CheckBytes THEN [size |-> -decoded.size, output |-> Zeros(room)]
       ELSE IF decoded.size < CheckBytes THEN [size |-> 0, output |-> Zeros(room)]
       ELSE The({[size |-> Len(body), output |-> body \o Zeros(room - Len(body))] :
                   body \in {Verified(Split(SubSeq(decoded.output, 1, decoded.size)))}}) :
         decoded \in {DecodeSecure(text, room + CheckBytes)}})
-----------------------------------------------------------------------------
(* Base64. *)

RequiredCharacters(numBytes) == ((numBytes + 2) \div 3) * 4

\* Three bytes to four characters: the i-th character of the code of bytes.
Encode64(bytes) ==
  LET chars   == RequiredCharacters(Len(bytes))
      padding == 2 - ((Len(bytes) + 2) % 3)
      Tri(k)  == Positional([i \in 1 .. 3 |-> Word(bytes, 3 * k + 4 - i)], ByteValues)
  IN [i \in 1 .. chars |-> IF i > chars - padding THEN Pad
                           ELSE (Tri((i - 1) \div 4) \div Radix64 ^ (3 - ((i - 1) % 4))) % Radix64]

\* The bytes of four characters; the empty sequence is the error result.
DecodeTriByte(four) ==
  LET padding == Cardinality({i \in DOMAIN four : four[i] = Pad})
      digits  == [i \in 1 .. 4 |-> IF four[5 - i] = Pad THEN 0 ELSE four[5 - i]]
      triByte == Positional(digits, Radix64)
  IN IF \E i \in DOMAIN four : four[i] # Pad /\ AlphabetIndexOf(four[i], Radix64) < 0 THEN <<>>
     ELSE [i \in 1 .. 3 - padding |-> (triByte \div ByteValues ^ (3 - i)) % ByteValues]

\* The size the first call returns, for a text of whole groups with padding at its end only.
RequiredLength(text) ==
  LET length  == Min({i \in DOMAIN text : text[i] = Pad} \cup {Len(text) + 1}) - 1
      padding == Leading(SubSeq(text, length + 1, Len(text)), Pad)
  IN IF text = <<>> \/ Len(text) % 4 # 0 \/ padding > 2 \/ length + padding # Len(text) THEN -1
     ELSE (Len(text) \div 4) * 3 - padding

\* The overload that allocates does not look at what the second call returns: the bytes of the
\* groups from a bad character on stay 0.
Decoded64(text) ==
  LET group == [i \in 1 .. Len(text) \div 4 |-> DecodeTriByte(SubSeq(text, 4 * i - 3, 4 * i))]
      good  == Leading([i \in DOMAIN group |-> group[i] # <<>>], TRUE)
      bytes == FlattenSeq(SubSeq(group, 1, good))
  IN IF RequiredLength(text) <= 0 THEN <<>>
     ELSE bytes \o Zeros(RequiredLength(text) - Len(bytes))
=============================================================================
