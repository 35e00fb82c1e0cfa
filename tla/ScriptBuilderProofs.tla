------------------------ MODULE ScriptBuilderProofs ------------------------
(***************************************************************************)
(* What is emitted is read back (ScriptIsReadBack), a call keeps the       *)
(* registers a caller may rely on (CallsKeepTheRegisters), and a script of *)
(* calls makes exactly those calls (ScriptMakesTheCalls): for bytes of any *)
(* number of values, requests of every form and scripts of every length up *)
(* to that of a place.                                                     *)
(*                                                                         *)
(* Numbers first: the digits that are written sum up to the number.  Then  *)
(* single instructions: what DecodedAt makes of the bytes of a request.    *)
(* Then the script: where each request lies in it (the layout), which      *)
(* cells ToScript patches, and the disassembly from the last instruction   *)
(* to the first.  Last the machine: running the listing is obeying the     *)
(* requests one by one, so what the requests of a member do can be proved  *)
(* member by member: to the registers, to the stack, to the calls made.    *)
(***************************************************************************)
EXTENDS ScriptBuilder, SequenceTheorems, WellFoundedInduction, TLAPS

\* The provers have no induction; a set with 0 and the successors of its
\* members has every natural number, since there is no least one outside.
LEMMA Induction ==
  ASSUME NEW S, 0 \in S, \A n \in Nat : n \in S => n + 1 \in S
  PROVE  \A n \in Nat : n \in S
  <1>. DEFINE T == Nat \ S
              R == OpToRel(<, Nat)
  <1>. SUFFICES ASSUME T # {} PROVE FALSE
    OBVIOUS
  <1>1. IsWellFoundedOn(R, Nat)
    BY NatLessThanWellFounded
  <1>2. PICK n \in T : \A m \in T : <<m, n>> \notin R
    <2>1. T \subseteq Nat
      OBVIOUS
    <2>. HIDE DEF R, T
    <2>. QED
      BY <1>1, <2>1, WFMin
  <1>3. n - 1 \in Nat /\ n - 1 < n
    OBVIOUS
  <1>4. n - 1 \notin T
    BY <1>2, <1>3 DEF OpToRel
  <1>. QED
    BY <1>3, <1>4

-----------------------------------------------------------------------------
\* Numbers.

\* f gives the powers of Base up to the w-th.
PowersUpTo(f, w) == f = [i \in 0 .. w |-> IF i = 0 THEN 1 ELSE Base * f[i - 1]]

LEMMA PowersExist ==
  ASSUME NEW w \in Nat
  PROVE  \E f : PowersUpTo(f, w)
  <1>. DEFINE S == {m \in Nat : \E f : PowersUpTo(f, m)}
  <1>1. 0 \in S
    <2>. DEFINE f == [i \in 0 .. 0 |-> 1]
    <2>1. f = [i \in 0 .. 0 |-> IF i = 0 THEN 1 ELSE Base * f[i - 1]]
      OBVIOUS
    <2>. QED
      BY <2>1 DEF PowersUpTo
  <1>2. ASSUME NEW m \in Nat, m \in S
        PROVE  m + 1 \in S
    <2>1. PICK f : PowersUpTo(f, m)
      BY <1>2
    <2>. DEFINE g == [i \in 0 .. m + 1 |-> IF i = m + 1 THEN Base * f[m] ELSE f[i]]
    <2>2. g = [i \in 0 .. m + 1 |-> IF i = 0 THEN 1 ELSE Base * g[i - 1]]
      <3>1. ASSUME NEW i \in 0 .. m + 1
            PROVE  g[i] = IF i = 0 THEN 1 ELSE Base * g[i - 1]
        <4>1. CASE i = m + 1
          BY <4>1
        <4>2. CASE i # m + 1
          <5>1. i \in 0 .. m /\ (i # 0 => i - 1 \in 0 .. m + 1 /\ i - 1 # m + 1)
            BY <4>2
          <5>2. f[i] = IF i = 0 THEN 1 ELSE Base * f[i - 1]
            BY <2>1, <5>1 DEF PowersUpTo
          <5>. QED
            BY <4>2, <5>1, <5>2
        <4>. QED
          BY <4>1, <4>2
      <3>. QED
        BY <3>1
    <2>. HIDE DEF g
    <2>. QED
      BY <2>2 DEF PowersUpTo
  <1>. HIDE DEF S
  <1>3. \A m \in Nat : m \in S
    BY <1>1, <1>2, Induction
  <1>. QED
    BY <1>3 DEF S

LEMMA PowersAre ==
  ASSUME NEW w \in Nat
  PROVE  \E f : PowersUpTo(f, w) /\ Values(w) = f[w]
  <1>. DEFINE power == CHOOSE f : PowersUpTo(f, w)
  <1>1. PowersUpTo(power, w)
    BY PowersExist
  <1>2. Values(w) = power[w]
    BY Zenon DEF Values, PowersUpTo
  <1>. QED
    BY <1>1, <1>2

LEMMA ValuesOfNone == Values(0) = 1
  <1>1. PICK f : PowersUpTo(f, 0) /\ Values(0) = f[0]
    BY PowersAre
  <1>. QED
    BY <1>1 DEF PowersUpTo

\* Two such functions agree as far as both go.
LEMMA PowersAgree ==
  ASSUME NEW v \in Nat, NEW w \in Nat, NEW f, NEW g, PowersUpTo(f, v), PowersUpTo(g, w), v <= w
  PROVE  \A i \in 0 .. v : f[i] = g[i]
  <1>. DEFINE S == {i \in Nat : i <= v => f[i] = g[i]}
  <1>1. 0 \in S
    BY DEF PowersUpTo
  <1>2. ASSUME NEW i \in Nat, i \in S
        PROVE  i + 1 \in S
    <2>. SUFFICES ASSUME i + 1 <= v PROVE f[i + 1] = g[i + 1]
      OBVIOUS
    <2>1. i + 1 \in 0 .. v /\ i + 1 \in 0 .. w /\ i + 1 # 0 /\ i + 1 - 1 = i
      OBVIOUS
    <2>2. f[i + 1] = Base * f[i] /\ g[i + 1] = Base * g[i]
      BY <2>1 DEF PowersUpTo
    <2>. QED
      BY <1>2, <2>2
  <1>. HIDE DEF S
  <1>3. \A i \in Nat : i \in S
    BY <1>1, <1>2, Induction
  <1>. QED
    BY <1>3 DEF S

LEMMA ValuesOfMore ==
  ASSUME NEW w \in Nat
  PROVE  Values(w + 1) = Base * Values(w)
  <1>1. PICK f : PowersUpTo(f, w) /\ Values(w) = f[w]
    BY PowersAre
  <1>2. PICK g : PowersUpTo(g, w + 1) /\ Values(w + 1) = g[w + 1]
    BY PowersAre
  <1>3. g[w] = f[w]
    BY <1>1, <1>2, PowersAgree
  <1>4. w + 1 \in 0 .. w + 1 /\ w + 1 # 0 /\ w + 1 - 1 = w
    OBVIOUS
  <1>5. g[w + 1] = Base * g[w]
    BY <1>2, <1>4 DEF PowersUpTo
  <1>. QED
    BY <1>1, <1>2, <1>3, <1>5

LEMMA ValuesType ==
  \A w \in Nat : Values(w) \in Nat /\ Values(w) > w
  <1>. DEFINE S == {w \in Nat : Values(w) \in Nat /\ Values(w) > w}
  <1>1. 0 \in S
    BY ValuesOfNone
  <1>2. ASSUME NEW w \in Nat, w \in S
        PROVE  w + 1 \in S
    <2>. DEFINE v == Values(w)
    <2>1. v \in Nat /\ v > w
      BY <1>2
    <2>2. Values(w + 1) = Base * v
      BY ValuesOfMore
    <2>. HIDE DEF v
    <2>3. Base * v \in Nat /\ Base * v >= 2 * v
      BY <2>1, BaseAssumption
    <2>. QED
      BY <2>1, <2>2, <2>3
  <1>. HIDE DEF S
  <1>3. \A w \in Nat : w \in S
    BY <1>1, <1>2, Induction
  <1>. QED
    BY <1>3 DEF S

LEMMA Divided ==
  ASSUME NEW n \in Nat, NEW d \in Nat \ {0}
  PROVE  n \div d \in Nat /\ n % d \in 0 .. d - 1 /\ n = d * (n \div d) + (n % d)
  OBVIOUS

\* A quotient and a remainder are the only ones.
LEMMA Division ==
  ASSUME NEW d \in Nat \ {0}, NEW u \in Nat, NEW x \in Nat, x < d
  PROVE  (d * u + x) \div d = u /\ (d * u + x) % d = x
  <1>. DEFINE n == d * u + x
              q == n \div d
  <1>1. n \in Nat
    OBVIOUS
  <1>2. q \in Nat /\ n % d \in 0 .. d - 1 /\ n = d * q + (n % d)
    <2>. HIDE DEF n
    <2>. QED
      BY <1>1, Divided
  <1>3. q <= u
    <2>. SUFFICES ASSUME q >= u + 1 PROVE FALSE
      BY <1>2
    <2>1. d * q >= d * (u + 1)
      BY <1>2
    <2>. QED
      BY <1>2, <2>1
  <1>4. q >= u
    <2>. SUFFICES ASSUME u >= q + 1 PROVE FALSE
      BY <1>2
    <2>1. d * u >= d * (q + 1)
      BY <1>2
    <2>. QED
      BY <1>2, <2>1
  <1>5. q = u
    BY <1>2, <1>3, <1>4
  <1>. QED
    BY <1>2, <1>5

\* One digit more of a number.
LEMMA DigitMore ==
  ASSUME NEW n \in Nat, NEW v \in Nat \ {0}, NEW b \in Nat \ {0}
  PROVE  n % (b * v) = (n % v) + ((n \div v) % b) * v
  <1>. DEFINE q == n \div v
              s == n % v
              u == q \div b
              t == q % b
  <1>1. q \in Nat /\ s \in 0 .. v - 1 /\ n = v * q + s
    OBVIOUS
  <1>2. u \in Nat /\ t \in 0 .. b - 1 /\ q = b * u + t
    BY <1>1
  <1>. HIDE DEF q, s, u, t
  <1>3. n = (b * v) * u + (t * v + s)
    BY <1>1, <1>2
  <1>4. t * v <= (b - 1) * v
    BY <1>2
  <1>5. t * v + s \in Nat /\ t * v + s < b * v /\ b * v \in Nat \ {0}
    BY <1>1, <1>2, <1>4
  <1>6. n % (b * v) = t * v + s
    <2>. DEFINE d == b * v
                x == t * v + s
    <2>1. d \in Nat \ {0} /\ x \in Nat /\ x < d /\ n = d * u + x
      BY <1>3, <1>5
    <2>. HIDE DEF d, x
    <2>2. n % d = x
      BY <1>2, <2>1, Division
    <2>. QED
      BY <2>2 DEF d, x
  <1>. QED
    BY <1>6 DEF q, s, t

\* f gives the sums of the first digits at p, up to w of them.
SumsUpTo(f, script, p, w) ==
  f = [i \in 0 .. w |-> IF i = 0 THEN 0 ELSE f[i - 1] + Cell(script, p + i - 1) * Values(i - 1)]

LEMMA SumsExist ==
  ASSUME NEW script, NEW p, NEW w \in Nat
  PROVE  \E f : SumsUpTo(f, script, p, w)
  <1>. DEFINE Term(i) == Cell(script, p + i - 1) * Values(i - 1)
              S == {m \in Nat : \E f : f = [i \in 0 .. m |-> IF i = 0 THEN 0 ELSE f[i - 1] + Term(i)]}
  <1>. HIDE DEF Term
  <1>1. 0 \in S
    <2>. DEFINE f == [i \in 0 .. 0 |-> 0]
    <2>1. f = [i \in 0 .. 0 |-> IF i = 0 THEN 0 ELSE f[i - 1] + Term(i)]
      OBVIOUS
    <2>. QED
      BY <2>1
  <1>2. ASSUME NEW m \in Nat, m \in S
        PROVE  m + 1 \in S
    <2>1. PICK f : f = [i \in 0 .. m |-> IF i = 0 THEN 0 ELSE f[i - 1] + Term(i)]
      BY <1>2
    <2>. DEFINE g == [i \in 0 .. m + 1 |-> IF i = m + 1 THEN f[m] + Term(i) ELSE f[i]]
    <2>2. g = [i \in 0 .. m + 1 |-> IF i = 0 THEN 0 ELSE g[i - 1] + Term(i)]
      <3>1. ASSUME NEW i \in 0 .. m + 1
            PROVE  g[i] = IF i = 0 THEN 0 ELSE g[i - 1] + Term(i)
        <4>1. CASE i = m + 1
          BY <4>1
        <4>2. CASE i # m + 1
          <5>1. i \in 0 .. m /\ (i # 0 => i - 1 \in 0 .. m + 1 /\ i - 1 # m + 1)
            BY <4>2
          <5>2. f[i] = IF i = 0 THEN 0 ELSE f[i - 1] + Term(i)
            BY <2>1, <5>1
          <5>. QED
            BY <4>2, <5>1, <5>2
        <4>. QED
          BY <4>1, <4>2
      <3>. QED
        BY <3>1
    <2>. HIDE DEF g
    <2>. QED
      BY <2>2
  <1>. HIDE DEF S
  <1>3. w \in S
    BY <1>1, <1>2, Induction
  <1>. QED
    BY <1>3 DEF S, Term, SumsUpTo

LEMMA NumberSums ==
  ASSUME NEW script, NEW p, NEW w \in Nat
  PROVE  \E f : SumsUpTo(f, script, p, w) /\ Number(script, p, w) = f[w]
  <1>. DEFINE sum == CHOOSE f : SumsUpTo(f, script, p, w)
  <1>1. SumsUpTo(sum, script, p, w)
    BY SumsExist
  <1>2. Number(script, p, w) = sum[w]
    BY Zenon DEF Number, SumsUpTo
  <1>. QED
    BY <1>1, <1>2

LEMMA CellType ==
  ASSUME NEW script \in Seq(Nat), NEW p \in Nat
  PROVE  Cell(script, p) \in Nat
  BY DEF Cell

LEMMA NumberType ==
  ASSUME NEW script \in Seq(Nat), NEW p \in Nat, NEW w \in Nat
  PROVE  Number(script, p, w) \in Nat
  <1>1. PICK f : SumsUpTo(f, script, p, w) /\ Number(script, p, w) = f[w]
    BY NumberSums
  <1>. DEFINE S == {i \in Nat : i <= w => f[i] \in Nat}
  <1>2. 0 \in S
    BY <1>1 DEF SumsUpTo
  <1>3. ASSUME NEW i \in Nat, i \in S
        PROVE  i + 1 \in S
    <2>. SUFFICES ASSUME i + 1 <= w PROVE f[i + 1] \in Nat
      OBVIOUS
    <2>1. i + 1 \in 0 .. w /\ i + 1 # 0 /\ i + 1 - 1 = i /\ p + (i + 1) - 1 = p + i
      OBVIOUS
    <2>2. f[i + 1] = f[i] + Cell(script, p + i) * Values(i)
      BY <1>1, <2>1 DEF SumsUpTo
    <2>. DEFINE c == Cell(script, p + i)
                v == Values(i)
    <2>3. c \in Nat
      <3>1. p + i \in Nat
        OBVIOUS
      <3>. QED
        BY <3>1, CellType
    <2>4. v \in Nat
      BY ValuesType
    <2>5. f[i] \in Nat
      BY <1>3
    <2>6. f[i + 1] = f[i] + c * v
      BY <2>2
    <2>. HIDE DEF c, v
    <2>. QED
      BY <2>3, <2>4, <2>5, <2>6
  <1>. HIDE DEF S
  <1>4. w \in S
    BY <1>2, <1>3, Induction
  <1>. QED
    BY <1>1, <1>4 DEF S

\* The digits of a number that fits sum up to it.
LEMMA NumberIs ==
  ASSUME NEW script, NEW p \in Nat, NEW w \in Nat, NEW n \in Nat, n < Values(w),
         \A i \in 1 .. w : Cell(script, p + i - 1) = LittleEndian(n, w)[i]
  PROVE  Number(script, p, w) = n
  <1>1. PICK f : SumsUpTo(f, script, p, w) /\ Number(script, p, w) = f[w]
    BY NumberSums
  <1>. DEFINE S == {i \in Nat : i <= w => f[i] = n % Values(i)}
  <1>2. 0 \in S
    BY <1>1, ValuesOfNone DEF SumsUpTo
  <1>3. ASSUME NEW i \in Nat, i \in S
        PROVE  i + 1 \in S
    <2>. SUFFICES ASSUME i + 1 <= w PROVE f[i + 1] = n % Values(i + 1)
      OBVIOUS
    <2>1. i + 1 \in 0 .. w /\ i + 1 \in 1 .. w /\ i + 1 # 0 /\ i + 1 - 1 = i /\ p + (i + 1) - 1 = p + i
      OBVIOUS
    <2>2. f[i + 1] = f[i] + Cell(script, p + i) * Values(i)
      BY <1>1, <2>1 DEF SumsUpTo
    <2>3. Cell(script, p + i) = (n \div Values(i)) % Base
      BY <2>1 DEF LittleEndian
    <2>. DEFINE v == Values(i)
    <2>4. v \in Nat \ {0} /\ Base \in Nat \ {0}
      BY ValuesType, BaseAssumption
    <2>5. Values(i + 1) = Base * v
      BY ValuesOfMore
    <2>6. f[i] = n % v
      BY <1>3
    <2>. HIDE DEF v
    <2>7. n % (Base * v) = (n % v) + ((n \div v) % Base) * v
      BY <2>4, DigitMore
    <2>. QED
      BY <2>2, <2>3, <2>5, <2>6, <2>7 DEF v
  <1>. HIDE DEF S
  <1>4. w \in S
    BY <1>2, <1>3, Induction
  <1>5. n % Values(w) = n
    <2>. DEFINE v == Values(w)
    <2>1. v \in Nat \ {0} /\ n < v
      BY ValuesType
    <2>. HIDE DEF v
    <2>2. n % v = n
      BY <2>1
    <2>. QED
      BY <2>2 DEF v
  <1>6. f[w] = n % Values(w)
    BY <1>4 DEF S
  <1>. QED
    BY <1>1, <1>5, <1>6

LEMMA LittleEndianType ==
  ASSUME NEW n \in Nat, NEW w \in Nat
  PROVE  LittleEndian(n, w) \in Seq(Byte) /\ Len(LittleEndian(n, w)) = w
  <1>1. ASSUME NEW i \in 1 .. w
        PROVE  (n \div Values(i - 1)) % Base \in Byte
    <2>. DEFINE v == Values(i - 1)
    <2>1. v \in Nat \ {0}
      BY ValuesType
    <2>. HIDE DEF v
    <2>2. n \div v \in Nat
      BY <2>1, Divided
    <2>3. \A q \in Nat : q % Base \in 0 .. Base - 1
      BY BaseAssumption
    <2>. QED
      BY <2>2, <2>3 DEF v, Byte
  <1>. QED
    BY <1>1 DEF LittleEndian

\* A number as the bytes of a big integer.
LEMMA SignedType ==
  ASSUME NEW n \in Nat
  PROVE  Signed(n) \in Seq(Byte)
  <1>. DEFINE Fits(w) == n < Values(w) /\ \A v \in 0 .. w - 1 : n >= Values(v)
              R == OpToRel(<, Nat)
              T == {w \in Nat : n < Values(w)}
  <1>1. T # {} /\ T \subseteq Nat
    BY ValuesType
  <1>2. PICK w \in T : \A v \in T : <<v, w>> \notin R
    <2>1. IsWellFoundedOn(R, Nat)
      BY NatLessThanWellFounded
    <2>. HIDE DEF R, T
    <2>. QED
      BY <1>1, <2>1, WFMin
  <1>3. w \in Nat /\ n < Values(w)
    BY <1>2
  <1>4. ASSUME NEW v \in 0 .. w - 1
        PROVE  n >= Values(v)
    <2>1. v \in Nat /\ v < w
      BY <1>3
    <2>2. v \notin T
      <3>1. <<v, w>> \in R
        BY <1>3, <2>1 DEF OpToRel
      <3>. HIDE DEF R, T
      <3>. QED
        BY <1>2, <3>1
    <2>. QED
      BY <2>1, <2>2, ValuesType
  <1>5. w \in 0 .. n
    BY <1>3, <1>4, ValuesType
  <1>6. \E width \in 0 .. n : Fits(width)
    BY <1>3, <1>4, <1>5
  <1>. DEFINE width == CHOOSE x \in 0 .. n : Fits(x)
  <1>7. width \in Nat
    BY <1>6
  <1>8. Signed(n) = LittleEndian(n, width) \o <<0>>
    BY DEF Signed
  <1>. HIDE DEF width
  <1>9. LittleEndian(n, width) \in Seq(Byte) /\ <<0>> \in Seq(Byte)
    BY <1>7, LittleEndianType, BaseAssumption DEF Byte
  <1>. QED
    BY <1>8, <1>9

-----------------------------------------------------------------------------
\* Counts and lengths.

\* bytes are what the cells from p on hold.
Holds(script, p, bytes) == \A j \in 1 .. Len(bytes) : Cell(script, p + j - 1) = bytes[j]

LEMMA HoldsParts ==
  ASSUME NEW script, NEW p \in Nat, NEW S, NEW a \in Seq(S), NEW b \in Seq(S),
         Holds(script, p, a \o b)
  PROVE  Holds(script, p, a) /\ Holds(script, p + Len(a), b)
  <1>1. Len(a) \in Nat /\ Len(b) \in Nat /\ Len(a \o b) = Len(a) + Len(b)
    OBVIOUS
  <1>2. ASSUME NEW j \in 1 .. Len(a)
        PROVE  Cell(script, p + j - 1) = a[j]
    <2>1. j \in 1 .. Len(a \o b) /\ (a \o b)[j] = a[j]
      BY <1>1
    <2>. QED
      BY <2>1 DEF Holds
  <1>3. ASSUME NEW j \in 1 .. Len(b)
        PROVE  Cell(script, p + Len(a) + j - 1) = b[j]
    <2>. DEFINE i == Len(a) + j
    <2>1. i \in 1 .. Len(a \o b) /\ (a \o b)[i] = b[j]
      BY <1>1
    <2>2. p + i - 1 = p + Len(a) + j - 1
      BY <1>1
    <2>3. Cell(script, p + i - 1) = (a \o b)[i]
      BY <2>1 DEF Holds
    <2>. QED
      BY <2>1, <2>2, <2>3
  <1>. QED
    BY <1>2, <1>3 DEF Holds

LEMMA WideType ==
  ASSUME NEW header \in Byte, NEW n \in Nat, NEW w \in Nat
  PROVE  /\ <<header>> \o LittleEndian(n, w) \in Seq(Byte)
         /\ Len(<<header>> \o LittleEndian(n, w)) = w + 1
  <1>. DEFINE digits == LittleEndian(n, w)
  <1>1. digits \in Seq(Byte) /\ Len(digits) = w
    BY LittleEndianType
  <1>. HIDE DEF digits
  <1>2. <<header>> \o digits \in Seq(Byte) /\ Len(<<header>> \o digits) = w + 1
    BY <1>1
  <1>. QED
    BY <1>2 DEF digits

LEMMA Headers ==
  /\ Header16 \in Byte /\ Header32 \in Byte /\ Header64 \in Byte
  /\ Header16 # Header32 /\ Header16 # Header64 /\ Header32 # Header64
  BY BaseAssumption DEF Header16, Header32, Header64, Byte

LEMMA WriteVarIntType ==
  ASSUME NEW n \in Nat
  PROVE  WriteVarInt(n) \in Seq(Byte) /\ Len(WriteVarInt(n)) > 0
  <1>1. CASE n < Header16
    <2>1. n \in Byte
      BY <1>1, BaseAssumption DEF Header16, Byte
    <2>2. WriteVarInt(n) = <<n>>
      BY <1>1 DEF WriteVarInt
    <2>. QED
      BY <2>1, <2>2
  <1>2. CASE ~(n < Header16)
    <2>1. \E header \in Byte : \E w \in Nat : WriteVarInt(n) = <<header>> \o LittleEndian(n, w)
      BY <1>2, Headers, SMTT(30) DEF WriteVarInt
    <2>2. PICK header \in Byte, w \in Nat : WriteVarInt(n) = <<header>> \o LittleEndian(n, w)
      BY <2>1
    <2>3. WriteVarInt(n) \in Seq(Byte) /\ Len(WriteVarInt(n)) = w + 1
      BY <2>2, WideType
    <2>. QED
      BY <2>3
  <1>. QED
    BY <1>1, <1>2

LEMMA WideIs ==
  ASSUME NEW script, NEW p \in Nat, NEW header \in Byte, NEW n \in Nat, NEW w \in Nat,
         n < Values(w), Holds(script, p, <<header>> \o LittleEndian(n, w))
  PROVE  Cell(script, p) = header /\ Number(script, p + 1, w) = n
  <1>. DEFINE digits == LittleEndian(n, w)
  <1>1. digits \in Seq(Byte) /\ Len(digits) = w /\ <<header>> \in Seq(Byte)
    BY LittleEndianType
  <1>2. Holds(script, p, <<header>>) /\ Holds(script, p + 1, digits)
    <2>. HIDE DEF digits
    <2>1. Len(<<header>>) = 1
      OBVIOUS
    <2>2. Holds(script, p, <<header>> \o digits)
      BY DEF digits
    <2>. QED
      BY <1>1, <2>1, <2>2, HoldsParts
  <1>3. Cell(script, p) = header
    BY <1>2 DEF Holds
  <1>4. \A i \in 1 .. w : Cell(script, p + 1 + i - 1) = digits[i]
    BY <1>1, <1>2 DEF Holds
  <1>5. p + 1 \in Nat
    OBVIOUS
  <1>. QED
    BY <1>3, <1>4, <1>5, NumberIs

\* A count is read as it was written.
LEMMA VarIntIs ==
  ASSUME NEW script, NEW p \in Nat, NEW n \in Nat, n < Values(8), Holds(script, p, WriteVarInt(n))
  PROVE  VarInt(script, p) = [value |-> n, next |-> p + Len(WriteVarInt(n))]
  <1>1. CASE n < Header16
    <2>1. WriteVarInt(n) = <<n>>
      BY <1>1 DEF WriteVarInt
    <2>2. Cell(script, p) = n /\ Len(WriteVarInt(n)) = 1
      BY <2>1 DEF Holds
    <2>3. n # Header16 /\ n # Header32 /\ n # Header64
      BY <1>1, BaseAssumption DEF Header16, Header32, Header64
    <2>. QED
      BY <2>2, <2>3 DEF VarInt
  <1>2. ASSUME NEW header \in Byte, NEW w \in {2, 4, 8}, n < Values(w),
               WriteVarInt(n) = <<header>> \o LittleEndian(n, w)
        PROVE  /\ Cell(script, p) = header /\ Number(script, p + 1, w) = n
               /\ p + 1 + w = p + Len(WriteVarInt(n))
    <2>1. Len(WriteVarInt(n)) = w + 1
      BY <1>2, WideType
    <2>. QED
      BY <1>2, <2>1, WideIs
  <1>3. CASE ~(n < Header16) /\ n < Values(2)
    <2>1. WriteVarInt(n) = <<Header16>> \o LittleEndian(n, 2)
      BY <1>3 DEF WriteVarInt
    <2>2. /\ Cell(script, p) = Header16 /\ Number(script, p + 1, 2) = n
          /\ p + 1 + 2 = p + Len(WriteVarInt(n))
      BY <1>2, <1>3, <2>1, Headers
    <2>. QED
      BY <2>2 DEF VarInt
  <1>4. CASE ~(n < Header16) /\ ~(n < Values(2)) /\ n < Values(4)
    <2>1. WriteVarInt(n) = <<Header32>> \o LittleEndian(n, 4)
      BY <1>4 DEF WriteVarInt
    <2>2. /\ Cell(script, p) = Header32 /\ Number(script, p + 1, 4) = n
          /\ p + 1 + 4 = p + Len(WriteVarInt(n))
      BY <1>2, <1>4, <2>1, Headers
    <2>. QED
      BY <2>2, Headers DEF VarInt
  <1>5. CASE ~(n < Header16) /\ ~(n < Values(2)) /\ ~(n < Values(4))
    <2>1. WriteVarInt(n) = <<Header64>> \o LittleEndian(n, 8)
      BY <1>5 DEF WriteVarInt
    <2>2. /\ Cell(script, p) = Header64 /\ Number(script, p + 1, 8) = n
          /\ p + 1 + 8 = p + Len(WriteVarInt(n))
      BY <1>2, <1>5, <2>1, Headers
    <2>. QED
      BY <2>2, Headers DEF VarInt
  <1>. QED
    BY <1>1, <1>3, <1>4, <1>5

\* Whatever is read as a count, reading goes on.
LEMMA VarIntType ==
  ASSUME NEW script \in Seq(Nat), NEW p \in Nat
  PROVE  /\ VarInt(script, p).value \in Nat
         /\ VarInt(script, p).next \in Nat /\ VarInt(script, p).next > p
  <1>1. \A w \in Nat : Number(script, p + 1, w) \in Nat
    <2>1. p + 1 \in Nat
      OBVIOUS
    <2>. QED
      BY <2>1, NumberType
  <1>2. Cell(script, p) \in Nat
    BY CellType
  <1>. DEFINE Wide(w) == [value |-> Number(script, p + 1, w), next |-> p + 1 + w]
              one == [value |-> Cell(script, p), next |-> p + 1]
  <1>3. VarInt(script, p) \in {Wide(2), Wide(4), Wide(8), one}
    BY DEF VarInt
  <1>4. \A w \in Nat : Wide(w).value \in Nat /\ Wide(w).next \in Nat /\ Wide(w).next > p
    BY <1>1, SMTT(30)
  <1>5. one.value \in Nat /\ one.next \in Nat /\ one.next > p
    BY <1>2
  <1>. HIDE DEF Wide, one
  <1>. QED
    BY <1>3, <1>4, <1>5
-----------------------------------------------------------------------------
\* Instructions.

LEMMA CodeType ==
  ASSUME NEW op \in Opcode
  PROVE  Code[op] \in Nat
  <1>1. PICK i \in DOMAIN Opcodes : Opcodes[i] = op
    BY Zenon DEF Opcode
  <1>. DEFINE j == CHOOSE k \in DOMAIN Opcodes : Opcodes[k] = op
  <1>2. j \in DOMAIN Opcodes /\ Opcodes[j] = op
    BY <1>1
  <1>3. j \in Nat /\ j > 0
    BY <1>2 DEF Opcodes
  <1>4. Code[op] = Base + j - 1
    BY DEF Code
  <1>. HIDE DEF j
  <1>. QED
    BY <1>3, <1>4, BaseAssumption

\* No two operations have the same code.
LEMMA CodesDiffer ==
  ASSUME NEW a \in Opcode, NEW b \in Opcode, Code[a] = Code[b]
  PROVE  a = b
  <1>. DEFINE Index(op) == CHOOSE k \in DOMAIN Opcodes : Opcodes[k] = op
  <1>1. ASSUME NEW op \in Opcode
        PROVE  /\ Index(op) \in DOMAIN Opcodes /\ Opcodes[Index(op)] = op
               /\ Code[op] = Base + Index(op) - 1
    <2>1. PICK i \in DOMAIN Opcodes : Opcodes[i] = op
      BY Zenon DEF Opcode
    <2>. QED
      BY <2>1 DEF Code
  <1>2. \A i \in DOMAIN Opcodes : i \in Nat
    BY DEF Opcodes
  <1>. HIDE DEF Index
  <1>3. Index(a) = Index(b)
    BY <1>1, <1>2, BaseAssumption
  <1>. QED
    BY <1>1, <1>3

LEMMA KnownOpcodes == Known \subseteq Opcode
  BY DEF Known, Bare, Unary, Binary, Ternary, WithData, WithPlace, Opcode, Opcodes

\* The operations of each form.
LEMMA Forms ==
  ASSUME NEW r \in Requests
  PROVE  /\ r.form \in {"Plain", "Label", "Length", "Load", "Throw", "Jump", "Condition", "Call"}
         /\ r.op \in Opcode /\ r.operands \in Seq(Nat) /\ r.data \in Seq(Byte) /\ r.length \in Int
  BY DEF Requests, Operations

LEMMA FormsOf ==
  ASSUME NEW r \in Requests, ~Refused(r)
  PROVE  /\ r.op \in Known /\ Len(r.operands) = OperandCount(r.op)
         /\ r.form \in {"Load", "Throw"} <=> r.op \in WithData
         /\ r.form = "Length" <=> r.op \in WithLength
         /\ Jumps(r) <=> r.op \in WithPlace
  <1>. DEFINE Single == Known \ (WithLength \cup WithData \cup WithPlace)
  <1>1. r.op \in Operations[r.form] /\ Len(r.operands) = OperandCount(r.op)
    BY DEF Requests
  <1>2. /\ Operations["Plain"] = Single /\ Operations["Label"] = {"NOP"}
        /\ Operations["Length"] = WithLength /\ Operations["Load"] = {"LOAD"}
        /\ Operations["Throw"] = {"THROW"} /\ Operations["Jump"] = {"JMP", "JMPIF", "JMPNOT"}
        /\ Operations["Condition"] = {"JMPIF", "JMPNOT"} /\ Operations["Call"] = {"CALL"}
    BY DEF Operations
  <1>3. /\ "NOP" \in Single /\ WithLength \subseteq Known /\ WithData \subseteq Known
        /\ WithPlace \subseteq Known
    BY DEF Known, WithLength, WithData, WithPlace, Bare, Binary
  <1>4. /\ WithLength \cap WithData = {} /\ WithLength \cap WithPlace = {}
        /\ WithData \cap WithPlace = {}
    BY DEF WithLength, WithData, WithPlace
  <1>5. /\ {"LOAD", "THROW"} \subseteq WithData
        /\ {"JMP", "JMPIF", "JMPNOT", "CALL"} \subseteq WithPlace
    BY DEF WithData, WithPlace
  <1>6. CASE r.form = "Plain"
    <2>1. r.op \in Single
      BY <1>1, <1>2, <1>6
    <2>. QED
      BY <1>1, <1>6, <2>1 DEF Jumps
  <1>7. CASE r.form = "Label"
    <2>1. r.op = "NOP"
      BY <1>1, <1>2, <1>7
    <2>. QED
      BY <1>1, <1>3, <1>7, <2>1 DEF Jumps
  <1>8. CASE r.form = "Length"
    <2>1. r.op \in WithLength
      BY <1>1, <1>2, <1>8
    <2>. QED
      BY <1>1, <1>3, <1>4, <1>8, <2>1 DEF Jumps
  <1>9. CASE r.form \in {"Load", "Throw"}
    <2>1. r.op \in WithData
      BY <1>1, <1>2, <1>5, <1>9
    <2>. QED
      BY <1>1, <1>3, <1>4, <1>9, <2>1 DEF Jumps
  <1>10. CASE r.form \in {"Jump", "Condition", "Call"}
    <2>1. r.op \in WithPlace
      BY <1>1, <1>2, <1>5, <1>10
    <2>. QED
      BY <1>1, <1>3, <1>4, <1>10, <2>1 DEF Jumps
  <1>. QED
    BY <1>6, <1>7, <1>8, <1>9, <1>10, Forms

\* What a request writes, by its form.
LEMMA WrittenForms ==
  ASSUME NEW r \in Requests
  PROVE  /\ Refused(r) => Written(r) = <<Code["NOP"]>> /\ ~Jumps(r)
         /\ ~Refused(r) =>
              /\ r.op \in WithLength => Written(r) = Start(r) \o WriteVarInt(r.length)
              /\ r.op \in WithData   => Written(r) = Start(r) \o WriteByteArray(r.data)
              /\ r.op \in WithPlace  => Written(r) = Start(r) \o <<0, 0>>
              /\ r.op \notin WithLength \cup WithData \cup WithPlace => Written(r) = Start(r)
         /\ Jumps(r) <=> ~Refused(r) /\ r.op \in WithPlace
  <1>1. CASE Refused(r)
    BY <1>1 DEF Written, Jumps
  <1>2. CASE ~Refused(r)
    <2>1. Start(r) \in Seq(Nat)
      <3>1. Code[r.op] \in Nat /\ r.operands \in Seq(Nat)
        BY Forms, CodeType
      <3>. QED
        BY <3>1 DEF Start
    <2>2. Start(r) \o <<>> = Start(r)
      BY <2>1
    <2>3. CASE r.form \in {"Plain", "Label"}
      <3>1. r.op \notin WithLength /\ r.op \notin WithData /\ r.op \notin WithPlace /\ ~Jumps(r)
        BY <1>2, <2>3, FormsOf DEF Jumps
      <3>2. Written(r) = Start(r)
        BY <1>2, <2>2, <2>3 DEF Written
      <3>. QED
        BY <1>2, <3>1, <3>2
    <2>4. CASE r.form = "Length"
      <3>1. r.op \in WithLength /\ r.op \notin WithData /\ r.op \notin WithPlace /\ ~Jumps(r)
        BY <1>2, <2>4, FormsOf DEF Jumps
      <3>2. Written(r) = Start(r) \o WriteVarInt(r.length)
        BY <1>2, <2>4 DEF Written
      <3>. QED
        BY <1>2, <3>1, <3>2
    <2>5. CASE r.form \in {"Load", "Throw"}
      <3>1. r.op \in WithData /\ r.op \notin WithLength /\ r.op \notin WithPlace /\ ~Jumps(r)
        BY <1>2, <2>5, FormsOf DEF Jumps
      <3>2. Written(r) = Start(r) \o WriteByteArray(r.data)
        BY <1>2, <2>5 DEF Written
      <3>. QED
        BY <1>2, <3>1, <3>2
    <2>6. CASE r.form \in {"Jump", "Condition", "Call"}
      <3>1. r.op \in WithPlace /\ r.op \notin WithLength /\ r.op \notin WithData /\ Jumps(r)
        BY <1>2, <2>6, FormsOf DEF Jumps
      <3>2. Written(r) = Start(r) \o <<0, 0>>
        BY <1>2, <2>6 DEF Written
      <3>. QED
        BY <1>2, <3>1, <3>2
    <2>. QED
      BY <2>3, <2>4, <2>5, <2>6, Forms
  <1>. QED
    BY <1>1, <1>2

LEMMA BytesAreNumbers == Seq(Byte) \subseteq Seq(Nat)
  BY BaseAssumption DEF Byte

LEMMA WrittenType ==
  ASSUME NEW r \in Requests
  PROVE  /\ Written(r) \in Seq(Nat) /\ Len(Written(r)) > 0
         /\ Start(r) \in Seq(Nat) /\ Len(Start(r)) = Len(r.operands) + 1
         /\ Jumps(r) => Len(Written(r)) = Len(Start(r)) + 2
  <1>1. Start(r) \in Seq(Nat) /\ Len(Start(r)) = Len(r.operands) + 1
    <2>1. Code[r.op] \in Nat /\ r.operands \in Seq(Nat)
      BY Forms, CodeType
    <2>. QED
      BY <2>1 DEF Start
  <1>2. Len(Start(r)) > 0
    <2>1. Len(r.operands) \in Nat
      BY Forms
    <2>. QED
      BY <1>1, <2>1
  <1>3. ASSUME NEW b \in Seq(Nat)
        PROVE  Start(r) \o b \in Seq(Nat) /\ Len(Start(r) \o b) = Len(Start(r)) + Len(b)
    <2>. DEFINE s == Start(r)
    <2>1. s \in Seq(Nat)
      BY <1>1
    <2>. HIDE DEF s
    <2>2. s \o b \in Seq(Nat) /\ Len(s \o b) = Len(s) + Len(b)
      BY <2>1
    <2>. QED
      BY <2>2 DEF s
  <1>4. CASE Refused(r)
    <2>1. Written(r) = <<Code["NOP"]>> /\ Code["NOP"] \in Nat
      BY <1>4, WrittenForms, CodeType, KnownOpcodes DEF Known, Bare
    <2>. QED
      BY <1>1, <1>4, <2>1, WrittenForms
  <1>5. CASE ~Refused(r) /\ r.op \in WithLength
    <2>1. WriteVarInt(r.length) \in Seq(Nat)
      <3>1. CASE r.length < 0
        BY <3>1 DEF WriteVarInt
      <3>2. CASE ~(r.length < 0)
        <4>1. r.length \in Nat
          BY <3>2, Forms
        <4>2. WriteVarInt(r.length) \in Seq(Byte)
          BY <4>1, WriteVarIntType
        <4>. QED
          BY <4>2, BytesAreNumbers
      <3>. QED
        BY <3>1, <3>2
    <2>2. Written(r) = Start(r) \o WriteVarInt(r.length) /\ ~Jumps(r)
      BY <1>5, WrittenForms DEF WithLength, WithPlace
    <2>. QED
      BY <1>1, <1>2, <1>3, <2>1, <2>2
  <1>6. CASE ~Refused(r) /\ r.op \in WithData
    <2>1. WriteByteArray(r.data) \in Seq(Nat)
      <3>1. r.data \in Seq(Byte) /\ Len(r.data) \in Nat
        BY Forms
      <3>2. WriteVarInt(Len(r.data)) \in Seq(Byte)
        BY <3>1, WriteVarIntType
      <3>3. WriteByteArray(r.data) \in Seq(Byte)
        BY <3>1, <3>2 DEF WriteByteArray
      <3>. QED
        BY <3>3, BytesAreNumbers
    <2>2. Written(r) = Start(r) \o WriteByteArray(r.data) /\ ~Jumps(r)
      BY <1>6, WrittenForms DEF WithData, WithPlace
    <2>. QED
      BY <1>1, <1>2, <1>3, <2>1, <2>2
  <1>7. CASE ~Refused(r) /\ r.op \in WithPlace
    <2>1. <<0, 0>> \in Seq(Nat) /\ Len(<<0, 0>>) = 2
      OBVIOUS
    <2>2. Written(r) = Start(r) \o <<0, 0>>
      BY <1>7, WrittenForms
    <2>. QED
      BY <1>1, <1>2, <1>3, <2>1, <2>2
  <1>8. CASE ~Refused(r) /\ r.op \notin WithLength \cup WithData \cup WithPlace
    <2>1. Written(r) = Start(r) /\ ~Jumps(r)
      BY <1>8, WrittenForms
    <2>. QED
      BY <1>1, <1>2, <2>1
  <1>. QED
    BY <1>4, <1>5, <1>6, <1>7, <1>8

\* The code and its operands are found.
LEMMA DecodedAtIs ==
  ASSUME NEW script, NEW p \in Nat, NEW op \in Known, NEW operands \in Seq(Nat),
         Len(operands) = OperandCount(op), Holds(script, p, <<Code[op]>> \o operands)
  PROVE  DecodedAt(script, p) = Decoded(script, op, p + 1 + Len(operands), operands)
  <1>. DEFINE ops == {o \in Known : Code[o] = Cell(script, p)}
              n == Len(operands)
  <1>1. Code[op] \in Nat /\ n \in Nat
    BY KnownOpcodes, CodeType
  <1>2. Holds(script, p, <<Code[op]>>) /\ Holds(script, p + 1, operands)
    <2>1. <<Code[op]>> \in Seq(Nat) /\ Len(<<Code[op]>>) = 1
      BY <1>1
    <2>. QED
      BY <2>1, HoldsParts
  <1>3. Cell(script, p) = Code[op]
    BY <1>2 DEF Holds
  <1>4. ops = {op}
    BY <1>3, KnownOpcodes, CodesDiffer
  <1>5. (CHOOSE o \in ops : TRUE) = op
    BY <1>4
  <1>6. [i \in 1 .. n |-> Cell(script, p + i)] = operands
    <2>1. ASSUME NEW i \in 1 .. n
          PROVE  Cell(script, p + i) = operands[i]
      <3>1. p + 1 + i - 1 = p + i
        OBVIOUS
      <3>. QED
        BY <1>2, <3>1 DEF Holds
    <2>. QED
      BY <1>1, <2>1
  <1>7. OperandCount(op) = n
    OBVIOUS
  <1>. HIDE DEF ops, n
  <1>8. DecodedAt(script, p) =
          IF ops = {} THEN Garbage
          ELSE LET o == CHOOSE o \in ops : TRUE
                   k == OperandCount(o)
               IN  Decoded(script, o, p + 1 + k, [i \in 1 .. k |-> Cell(script, p + i)])
    BY Zenon DEF DecodedAt, ops
  <1>9. ops # {}
    BY <1>4
  <1>10. DecodedAt(script, p) = Decoded(script, op, p + 1 + n, [i \in 1 .. n |-> Cell(script, p + i)])
    BY <1>5, <1>7, <1>8, <1>9
  <1>. QED
    BY <1>6, <1>10 DEF n

\* Whatever is read as an instruction, it is garbage or leads on.
LEMMA DecodedAtLeadsOn ==
  ASSUME NEW script \in Seq(Nat), NEW p \in Nat, DecodedAt(script, p).op # "garbage"
  PROVE  DecodedAt(script, p).next \in Nat /\ DecodedAt(script, p).next > p
  <1>1. ASSUME NEW q \in Nat, NEW op, NEW operands,
               Decoded(script, op, q, operands).op # "garbage"
        PROVE  /\ Decoded(script, op, q, operands).next \in Nat
               /\ Decoded(script, op, q, operands).next >= q
    <2>. DEFINE count == VarInt(script, q)
    <2>1. count.value \in Nat /\ count.next \in Nat /\ count.next > q
      BY VarIntType
    <2>. HIDE DEF count
    <2>2. Garbage.op = "garbage"
      BY DEF Garbage, Instruction
    <2>3. Decoded(script, op, q, operands).next \in {count.next, q + 2, count.next + count.value, q}
      BY <1>1, <2>2 DEF Decoded, Instruction, count
    <2>. QED
      BY <2>1, <2>3
  <1>. DEFINE ops == {o \in Known : Code[o] = Cell(script, p)}
              op  == CHOOSE o \in ops : TRUE
              n   == OperandCount(op)
              operands == [i \in 1 .. n |-> Cell(script, p + i)]
  <1>2. n \in Nat
    BY DEF OperandCount
  <1>3. ops # {}
    <2>1. Garbage.op = "garbage"
      BY DEF Garbage, Instruction
    <2>. QED
      BY <2>1 DEF DecodedAt
  <1>4. DecodedAt(script, p) = Decoded(script, op, p + 1 + n, operands)
    BY <1>3, Zenon DEF DecodedAt
  <1>. HIDE DEF ops, op, n, operands
  <1>5. p + 1 + n \in Nat /\ p + 1 + n > p
    BY <1>2
  <1>. QED
    BY <1>1, <1>4, <1>5

\* The bytes of a request when its jump is patched.
Patched(r, place) ==
  IF Jumps(r) THEN Start(r) \o <<place % Base, place \div Base>> ELSE Written(r)

\* The instruction a request asks for, when it is followed by next.
Asked(r, place, next) ==
  IF Refused(r) THEN Instruction("NOP", <<>>, <<>>, 0, -1, next)
  ELSE Instruction(r.op, r.operands, r.data, r.length, IF Jumps(r) THEN place ELSE -1, next)

LEMMA ValuesGrow == Values(2) <= Values(8)
  <1>1. ASSUME NEW w \in Nat
        PROVE  Values(w) <= Values(w + 1) /\ Values(w) \in Nat
    <2>. DEFINE v == Values(w)
    <2>1. v \in Nat /\ Values(w + 1) = Base * v
      BY ValuesType, ValuesOfMore
    <2>. HIDE DEF v
    <2>2. v <= Base * v
      BY <2>1, BaseAssumption
    <2>. QED
      BY <2>1, <2>2 DEF v
  <1>2. /\ Values(2) <= Values(2 + 1) /\ Values(3) <= Values(3 + 1) /\ Values(4) <= Values(4 + 1)
        /\ Values(5) <= Values(5 + 1) /\ Values(6) <= Values(6 + 1) /\ Values(7) <= Values(7 + 1)
    BY <1>1
  <1>3. /\ 2 + 1 = 3 /\ 3 + 1 = 4 /\ 4 + 1 = 5 /\ 5 + 1 = 6 /\ 6 + 1 = 7 /\ 7 + 1 = 8
    OBVIOUS
  <1>4. \A w \in 2 .. 8 : Values(w) \in Nat
    BY <1>1
  <1>. QED
    BY <1>2, <1>3, <1>4

LEMMA ValuesOfTwo == Values(1) = Base /\ Values(2) = Base * Base
  <1>1. Values(0 + 1) = Base * Values(0) /\ Values(1 + 1) = Base * Values(1)
    BY ValuesOfMore
  <1>. QED
    BY <1>1, ValuesOfNone, BaseAssumption

\* Two bytes hold a place.
LEMMA PlaceIs ==
  ASSUME NEW script, NEW p \in Nat, NEW place \in Nat, place < Values(2),
         Holds(script, p, <<place % Base, place \div Base>>)
  PROVE  Number(script, p, 2) = place
  <1>1. place < Base * Base
    BY ValuesOfTwo
  <1>2. place \div Base \in Nat /\ place \div Base < Base
    <2>. DEFINE q == place \div Base
    <2>0. Base \in Nat \ {0}
      BY BaseAssumption
    <2>. HIDE DEF q
    <2>1. q \in Nat /\ place = Base * q + (place % Base) /\ place % Base \in 0 .. Base - 1
      BY Zenon, <2>0, Divided DEF q
    <2>2. q < Base
      <3>. SUFFICES ASSUME q >= Base PROVE FALSE
        BY <2>1, BaseAssumption
      <3>1. Base * q >= Base * Base
        BY <2>1, BaseAssumption
      <3>. QED
        BY <1>1, <2>1, <3>1, BaseAssumption
    <2>. QED
      BY <2>1, <2>2 DEF q
  <1>3. (place \div Base) % Base = place \div Base
    <2>. DEFINE q == place \div Base
    <2>1. q \in Nat /\ q < Base
      BY <1>2
    <2>. HIDE DEF q
    <2>2. q % Base = q
      BY <2>1, BaseAssumption
    <2>. QED
      BY <2>2 DEF q
  <1>4. Cell(script, p) = place % Base /\ Cell(script, p + 1) = place \div Base
    <2>1. p + 1 - 1 = p /\ p + 2 - 1 = p + 1
      OBVIOUS
    <2>. QED
      BY <2>1 DEF Holds
  <1>5. ASSUME NEW i \in 1 .. 2
        PROVE  Cell(script, p + i - 1) = LittleEndian(place, 2)[i]
    <2>1. LittleEndian(place, 2)[i] = (place \div Values(i - 1)) % Base
      BY DEF LittleEndian
    <2>2. CASE i = 1
      <3>1. place \div 1 = place
        OBVIOUS
      <3>2. i - 1 = 0 /\ p + i - 1 = p
        BY <2>2
      <3>. QED
        BY <1>4, <2>1, <3>1, <3>2, ValuesOfNone
    <2>3. CASE i = 2
      <3>1. i - 1 = 1 /\ p + i - 1 = p + 1
        BY <2>3
      <3>. QED
        BY <1>3, <1>4, <2>1, <3>1, ValuesOfTwo
    <2>. QED
      BY <2>2, <2>3
  <1>. QED
    BY <1>5, NumberIs

\* Data whose length a reader can be told.
Short(r) == ~Refused(r) /\ r.op \in WithData => Len(r.data) < Values(8)

\* The instruction a request asks for is read from what it wrote.
LEMMA RequestIsRead ==
  ASSUME NEW script \in Seq(Nat), NEW p \in Nat, NEW r \in Requests, NEW place \in Nat,
         place < Values(2), r.length >= 0, Short(r),
         p + Len(Written(r)) <= Len(script), Holds(script, p, Patched(r, place))
  PROVE  DecodedAt(script, p) = Asked(r, place, p + Len(Written(r)))
  <1>. DEFINE q == p + 1 + Len(r.operands)
  <1>0. r.operands \in Seq(Nat)
    BY Forms
  <1>n. Len(r.operands) \in Nat
    BY <1>0
  <1>1. q \in Nat /\ p + (Len(r.operands) + 1) = q
    <2>1. \A n \in Nat : p + 1 + n \in Nat /\ p + (n + 1) = p + 1 + n
      OBVIOUS
    <2>. QED
      BY <1>n, <2>1, Zenon
  <1>. HIDE DEF q
  <1>s. Start(r) \in Seq(Nat) /\ p + Len(Start(r)) = q
    BY <1>1, WrittenType
  <1>l. ASSUME NEW b \in Seq(Nat), Written(r) = Start(r) \o b
        PROVE  p + Len(Written(r)) = q + Len(b)
    <2>. DEFINE s == Start(r)
    <2>1. s \in Seq(Nat) /\ p + Len(s) = q
      BY <1>s
    <2>. HIDE DEF s
    <2>2. Len(s \o b) = Len(s) + Len(b) /\ Len(s) \in Nat /\ Len(b) \in Nat
      BY <2>1
    <2>3. Len(Written(r)) = Len(s) + Len(b)
      BY <1>l, <2>2 DEF s
    <2>. QED
      BY <2>1, <2>2, <2>3
  <1>2. ASSUME ~Refused(r), NEW b \in Seq(Nat), Patched(r, place) = Start(r) \o b
        PROVE  /\ DecodedAt(script, p) = Decoded(script, r.op, q, r.operands)
               /\ Holds(script, q, b)
    <2>1. Holds(script, p, Start(r) \o b)
      BY <1>2
    <2>2. Holds(script, p, Start(r)) /\ Holds(script, p + Len(Start(r)), b)
      BY <1>s, <2>1, HoldsParts
    <2>3. r.op \in Known /\ Len(r.operands) = OperandCount(r.op)
      BY <1>2, FormsOf
    <2>4. Holds(script, p, <<Code[r.op]>> \o r.operands)
      BY <2>2 DEF Start
    <2>5. DecodedAt(script, p) = Decoded(script, r.op, p + 1 + Len(r.operands), r.operands)
      BY <1>0, <2>3, <2>4, DecodedAtIs
    <2>. QED
      BY <1>s, <2>2, <2>5 DEF q
  <1>3. CASE Refused(r)
    <2>1. Patched(r, place) = <<Code["NOP"]>> \o <<>> /\ Written(r) = <<Code["NOP"]>>
      BY <1>3, WrittenForms DEF Patched
    <2>2. "NOP" \in Known /\ OperandCount("NOP") = 0
      BY DEF Known, Bare, Unary, Binary, Ternary, OperandCount
    <2>3. <<>> \in Seq(Nat) /\ Len(<<>>) = 0
      OBVIOUS
    <2>4. DecodedAt(script, p) = Decoded(script, "NOP", p + 1 + 0, <<>>)
      BY <2>1, <2>2, <2>3, DecodedAtIs
    <2>5. "NOP" \notin WithLength /\ "NOP" \notin WithPlace /\ "NOP" \notin WithData
      BY DEF WithLength, WithPlace, WithData
    <2>. QED
      BY <1>3, <2>1, <2>4, <2>5 DEF Decoded, Asked
  <1>4. CASE ~Refused(r) /\ r.op \in WithLength
    <2>1. Patched(r, place) = Start(r) \o WriteVarInt(r.length) /\ r.data = <<>>
      <3>1. r.form = "Length" /\ ~Jumps(r)
        BY <1>4, WrittenForms, FormsOf DEF WithLength, WithPlace
      <3>. QED
        BY <1>4, <3>1, WrittenForms DEF Patched, Requests
    <2>2. r.length \in Nat /\ r.length < Values(8)
      <3>1. r.form = "Length"
        BY <1>4, FormsOf
      <3>2. r.length \in Int
        BY Forms
      <3>3. r.length < Values(8)
        BY <3>1 DEF Requests
      <3>. QED
        BY <3>2, <3>3
    <2>3. WriteVarInt(r.length) \in Seq(Nat)
      <3>1. WriteVarInt(r.length) \in Seq(Byte)
        BY <2>2, WriteVarIntType
      <3>. QED
        BY <3>1, BytesAreNumbers
    <2>4. /\ DecodedAt(script, p) = Decoded(script, r.op, q, r.operands)
          /\ Holds(script, q, WriteVarInt(r.length))
      BY <1>2, <1>4, <2>1, <2>3
    <2>5. VarInt(script, q) = [value |-> r.length, next |-> q + Len(WriteVarInt(r.length))]
      BY <1>1, <2>2, <2>4, VarIntIs
    <2>6. q + Len(WriteVarInt(r.length)) = p + Len(Written(r)) /\ ~Jumps(r)
      <3>1. Written(r) = Start(r) \o WriteVarInt(r.length) /\ ~Jumps(r)
        BY <1>4, WrittenForms DEF WithLength, WithPlace
      <3>. QED
        BY <1>l, <2>3, <3>1
    <2>. DEFINE next == q + Len(WriteVarInt(r.length))
    <2>. HIDE DEF next
    <2>7. Decoded(script, r.op, q, r.operands)
            = Instruction(r.op, r.operands, <<>>, r.length, -1, next)
      BY <1>4, <2>5 DEF Decoded, next
    <2>. QED
      BY <1>4, <2>1, <2>4, <2>6, <2>7 DEF Asked, next
  <1>5. CASE ~Refused(r) /\ r.op \in WithPlace
    <2>1. Jumps(r) /\ Patched(r, place) = Start(r) \o <<place % Base, place \div Base>>
      BY <1>5, WrittenForms DEF Patched
    <2>2. <<place % Base, place \div Base>> \in Seq(Nat)
      <3>1. Base \in Nat \ {0}
        BY BaseAssumption
      <3>2. place % Base \in Nat /\ place \div Base \in Nat
        BY <3>1
      <3>. QED
        BY <3>2
    <2>3. /\ DecodedAt(script, p) = Decoded(script, r.op, q, r.operands)
          /\ Holds(script, q, <<place % Base, place \div Base>>)
      BY <1>2, <1>5, <2>1, <2>2
    <2>4. Number(script, q, 2) = place
      BY <1>1, <2>3, PlaceIs
    <2>5. q + 2 = p + Len(Written(r))
      <3>1. <<0, 0>> \in Seq(Nat) /\ Len(<<0, 0>>) = 2
        OBVIOUS
      <3>2. Written(r) = Start(r) \o <<0, 0>>
        BY <1>5, WrittenForms
      <3>. QED
        BY <1>l, <3>1, <3>2
    <2>6. r.data = <<>> /\ r.length = 0 /\ r.op \notin WithLength
      <3>1. r.form \notin {"Load", "Throw"} /\ r.form # "Length" /\ r.op \notin WithLength
        BY <2>1, <1>5, FormsOf DEF Jumps, WithLength, WithPlace
      <3>. QED
        BY <3>1 DEF Requests
    <2>. QED
      BY <1>5, <2>1, <2>3, <2>4, <2>5, <2>6 DEF Decoded, Asked
  <1>6. CASE ~Refused(r) /\ r.op \in WithData
    <2>1. /\ Patched(r, place) = Start(r) \o WriteByteArray(r.data) /\ ~Jumps(r)
          /\ Written(r) = Start(r) \o WriteByteArray(r.data)
      BY <1>6, WrittenForms DEF Patched, WithData, WithPlace
    <2>2. r.length = 0 /\ r.op \notin WithLength /\ r.op \notin WithPlace
      <3>1. r.form # "Length" /\ r.op \notin WithLength /\ r.op \notin WithPlace
        BY <1>6, FormsOf DEF WithLength, WithData, WithPlace
      <3>. QED
        BY <3>1 DEF Requests
    <2>. DEFINE count == WriteVarInt(Len(r.data))
                data  == r.data
                size  == Len(data)
    <2>3. data \in Seq(Nat) /\ size \in Nat
      BY Forms, BytesAreNumbers
    <2>4. count \in Seq(Nat) /\ Len(count) \in Nat
      <3>1. count \in Seq(Byte)
        BY <2>3, WriteVarIntType
      <3>. HIDE DEF count
      <3>. QED
        BY <3>1, BytesAreNumbers
    <2>5. WriteByteArray(r.data) = count \o data
      BY DEF WriteByteArray
    <2>6. count \o data \in Seq(Nat) /\ Len(count \o data) = Len(count) + size
      <3>. HIDE DEF count, data
      <3>. QED
        BY <2>3, <2>4
    <2>7. p + Len(Written(r)) = q + Len(count) + size
      <3>1. Written(r) = Start(r) \o (count \o data)
        BY <2>1, <2>5
      <3>. HIDE DEF count, data, size
      <3>2. p + Len(Written(r)) = q + Len(count \o data)
        BY <1>l, <2>6, <3>1
      <3>. QED
        BY <1>1, <2>3, <2>4, <2>6, <3>2
    <2>8. /\ DecodedAt(script, p) = Decoded(script, r.op, q, r.operands)
          /\ Holds(script, q, count \o data)
      BY <1>2, <1>6, <2>1, <2>5, <2>6
    <2>9. Holds(script, q, count) /\ Holds(script, q + Len(count), data)
      <3>. HIDE DEF count, data
      <3>. QED
        BY <1>1, <2>3, <2>4, <2>8, HoldsParts
    <2>10. size < Values(8)
      BY <1>6 DEF Short
    <2>11. VarInt(script, q) = [value |-> size, next |-> q + Len(count)]
      BY <1>1, <2>3, <2>9, <2>10, VarIntIs
    <2>12. SubSeq(script, q + Len(count) + 1, q + Len(count) + size) = data
      <3>. DEFINE from == q + Len(count)
      <3>. HIDE DEF count, data, size
      <3>1. from \in Nat /\ from + size <= Len(script) /\ Len(script) \in Nat
        BY <1>1, <2>3, <2>4, <2>7
      <3>2. size = Len(data)
        BY DEF size
      <3>. HIDE DEF from
      <3>3. ASSUME NEW j \in 1 .. size
            PROVE  script[from + j] = data[j]
        <4>1. Cell(script, from + j - 1) = data[j]
          BY <2>9, <3>2 DEF Holds, from
        <4>2. from + j - 1 < Len(script) /\ (from + j - 1) + 1 = from + j
          BY <2>3, <3>1
        <4>. QED
          BY <4>1, <4>2 DEF Cell
      <3>4. SubSeq(script, from + 1, from + size) \in Seq(Nat)
        BY <2>3, <3>1
      <3>5. Len(SubSeq(script, from + 1, from + size)) = size
        BY <2>3, <3>1
      <3>6. ASSUME NEW j \in 1 .. size
            PROVE  SubSeq(script, from + 1, from + size)[j] = data[j]
        BY <2>3, <3>1, <3>3
      <3>7. SubSeq(script, from + 1, from + size) = data
        BY <2>3, <3>2, <3>4, <3>5, <3>6, SeqEqual
      <3>. QED
        BY <3>7 DEF from
    <2>13. q + Len(count) + size <= Len(script)
      BY <2>7
    <2>. HIDE DEF count, data, size, q
    <2>14. Decoded(script, r.op, q, r.operands)
             = Instruction(r.op, r.operands, data, 0, -1, q + Len(count) + size)
      <3>. DEFINE counted == VarInt(script, q)
      <3>1. counted.value = size /\ counted.next = q + Len(count)
        BY <2>11
      <3>. HIDE DEF counted
      <3>2. Decoded(script, r.op, q, r.operands) =
              Instruction(r.op, r.operands,
                          SubSeq(script, counted.next + 1, counted.next + counted.value), 0, -1,
                          counted.next + counted.value)
        <4>1. counted.next + counted.value <= Len(script)
          BY <2>13, <3>1
        <4>. QED
          BY <1>6, <2>2, <4>1, Zenon DEF Decoded, counted
      <3>. QED
        BY <2>12, <3>1, <3>2
    <2>. QED
      BY <1>6, <2>1, <2>2, <2>7, <2>8, <2>14 DEF Asked, data
  <1>7. CASE ~Refused(r) /\ r.op \notin WithLength \cup WithData \cup WithPlace
    <2>1. Patched(r, place) = Start(r) \o <<>> /\ Written(r) = Start(r) /\ ~Jumps(r)
      <3>1. Start(r) \in Seq(Nat)
        BY WrittenType
      <3>2. Start(r) \o <<>> = Start(r)
        BY <3>1
      <3>. QED
        BY <1>7, <3>2, WrittenForms DEF Patched
    <2>2. <<>> \in Seq(Nat)
      OBVIOUS
    <2>3. DecodedAt(script, p) = Decoded(script, r.op, q, r.operands)
      BY <1>2, <1>7, <2>1, <2>2
    <2>4. q = p + Len(Written(r))
      BY <1>s, <2>1
    <2>5. r.data = <<>> /\ r.length = 0
      <3>1. r.form \notin {"Load", "Throw"} /\ r.form # "Length"
        BY <1>7, FormsOf
      <3>. QED
        BY <3>1 DEF Requests
    <2>. QED
      BY <1>7, <2>1, <2>3, <2>4, <2>5 DEF Decoded, Asked
  <1>. QED
    BY <1>3, <1>4, <1>5, <1>6, <1>7

-----------------------------------------------------------------------------
\* Scripts.

\* What is read from p on, when listing says what is read from later places on.
ReadFrom(script, p, listing) ==
  LET i == DecodedAt(script, p)
  IN  IF p = Len(script) THEN <<>>
      ELSE IF i.op = "garbage" \/ i.next > Len(script) THEN <<Garbage>>
      ELSE <<i>> \o listing[i.next]

LEMMA ReadFromLater ==
  ASSUME NEW script \in Seq(Nat), NEW p \in 0 .. Len(script), NEW f, NEW g,
         \A q \in p + 1 .. Len(script) : f[q] = g[q]
  PROVE  ReadFrom(script, p, f) = ReadFrom(script, p, g)
  <1>. DEFINE i == DecodedAt(script, p)
  <1>1. CASE p # Len(script) /\ i.op # "garbage" /\ ~(i.next > Len(script))
    <2>1. p \in Nat /\ Len(script) \in Nat
      OBVIOUS
    <2>2. i.next \in Nat /\ i.next > p
      BY <1>1, <2>1, DecodedAtLeadsOn
    <2>. HIDE DEF i
    <2>3. i.next \in p + 1 .. Len(script)
      BY <1>1, <2>1, <2>2
    <2>4. f[i.next] = g[i.next]
      BY <2>3
    <2>. QED
      BY <2>4, Zenon DEF ReadFrom, i
  <1>2. CASE ~(p # Len(script) /\ i.op # "garbage" /\ ~(i.next > Len(script)))
    BY <1>2, Zenon DEF ReadFrom
  <1>. QED
    BY <1>1, <1>2

\* f gives what is read from each of the last k places and from the end on.
ListsFrom(f, script, k) ==
  f = [p \in Len(script) - k .. Len(script) |-> ReadFrom(script, p, f)]

LEMMA ListingExists ==
  ASSUME NEW script \in Seq(Nat)
  PROVE  \E f : ListsFrom(f, script, Len(script))
  <1>. DEFINE n == Len(script)
              S == {k \in Nat : k <= n => \E f : f = [p \in n - k .. n |-> ReadFrom(script, p, f)]}
  <1>1. n \in Nat
    OBVIOUS
  <1>2. 0 \in S
    <2>. DEFINE f == [p \in n - 0 .. n |-> <<>>]
    <2>1. ASSUME NEW p \in n - 0 .. n
          PROVE  ReadFrom(script, p, f) = <<>>
      <3>1. p = n
        BY <1>1
      <3>. QED
        BY <3>1 DEF ReadFrom
    <2>2. f = [p \in n - 0 .. n |-> ReadFrom(script, p, f)]
      BY <2>1
    <2>. HIDE DEF f
    <2>. QED
      BY <2>2
  <1>3. ASSUME NEW k \in Nat, k \in S
        PROVE  k + 1 \in S
    <2>. SUFFICES ASSUME k + 1 <= n
                  PROVE  \E f : f = [p \in n - (k + 1) .. n |-> ReadFrom(script, p, f)]
      OBVIOUS
    <2>1. PICK f : f = [p \in n - k .. n |-> ReadFrom(script, p, f)]
      BY <1>1, <1>3
    <2>. DEFINE first == n - (k + 1)
                g == [p \in first .. n |-> IF p = first THEN ReadFrom(script, p, f) ELSE f[p]]
    <2>2. first \in Nat /\ first + 1 = n - k /\ first <= n
      BY <1>1
    <2>. HIDE DEF first, n
    <2>3. \A q \in first + 1 .. n : q \in first .. n /\ q # first /\ g[q] = f[q]
      BY <1>1, <2>2
    <2>4. ASSUME NEW p \in first .. n
          PROVE  ReadFrom(script, p, f) = ReadFrom(script, p, g)
      <3>1. p \in 0 .. n /\ \A q \in p + 1 .. n : q \in first + 1 .. n
        BY <1>1, <2>2
      <3>2. \A q \in p + 1 .. n : f[q] = g[q]
        BY <2>3, <3>1
      <3>. QED
        BY <3>1, <3>2, ReadFromLater DEF n
    <2>5. ASSUME NEW p \in first .. n
          PROVE  g[p] = ReadFrom(script, p, g)
      <3>1. CASE p = first
        BY <2>4, <3>1
      <3>2. CASE p # first
        <4>1. p \in n - k .. n
          BY <1>1, <2>2, <3>2
        <4>2. f[p] = ReadFrom(script, p, f)
          BY <2>1, <4>1, Zenon
        <4>. QED
          BY <2>4, <3>2, <4>2
      <3>. QED
        BY <3>1, <3>2
    <2>6. g = [p \in first .. n |-> ReadFrom(script, p, g)]
      BY <2>5
    <2>. HIDE DEF g
    <2>. QED
      BY <2>6 DEF first
  <1>. HIDE DEF S
  <1>4. n \in S
    BY <1>1, <1>2, <1>3, Induction
  <1>. QED
    BY <1>1, <1>4 DEF S, ListsFrom

\* The disassembly is what is read from the first place on.
LEMMA DisassemblyIs ==
  ASSUME NEW script \in Seq(Nat)
  PROVE  \E f : /\ \A p \in 0 .. Len(script) : f[p] = ReadFrom(script, p, f)
                /\ Disassembly(script) = f[0]
  <1>. DEFINE Lists(f) ==
                f = [p \in 0 .. Len(script) |->
                       IF p = Len(script) THEN <<>>
                       ELSE LET i == DecodedAt(script, p)
                            IN  IF i.op = "garbage" \/ i.next > Len(script) THEN <<Garbage>>
                                ELSE <<i>> \o f[i.next]]
              listing == CHOOSE f : Lists(f)
  <1>1. \E f : Lists(f)
    <2>1. PICK f : ListsFrom(f, script, Len(script))
      BY ListingExists
    <2>2. Len(script) - Len(script) = 0
      OBVIOUS
    <2>3. f = [p \in 0 .. Len(script) |-> ReadFrom(script, p, f)]
      BY <2>1, <2>2, SMTT(30) DEF ListsFrom
    <2>4. Lists(f)
      BY <2>3, Zenon DEF ReadFrom
    <2>. QED
      BY <2>4
  <1>2. Lists(listing)
    BY <1>1
  <1>3. Disassembly(script) = listing[0]
    BY Zenon DEF Disassembly
  <1>. HIDE DEF listing
  <1>4. \A p \in 0 .. Len(script) : listing[p] = ReadFrom(script, p, listing)
    BY <1>2, Zenon DEF ReadFrom
  <1>. QED
    BY <1>3, <1>4

-----------------------------------------------------------------------------
LEMMA LenType ==
  ASSUME NEW S, NEW s \in Seq(S)
  PROVE  Len(s) \in Nat
  OBVIOUS

LEMMA Joined ==
  ASSUME NEW S, NEW a \in Seq(S), NEW b \in Seq(S)
  PROVE  /\ \A i \in 1 .. Len(a) : (a \o b)[i] = a[i]
         /\ \A i \in 1 .. Len(b) : (a \o b)[Len(a) + i] = b[i]
  OBVIOUS

LEMMA Within ==
  ASSUME NEW x \in Nat, NEW size \in Nat, NEW n \in Nat, x + size <= n
  PROVE  \A j \in 1 .. size : x + j \in 1 .. n
  OBVIOUS

\* Layouts: at[k] is where the k-th of the sequences ends in the whole.
Layout(at, seqs, whole) ==
  /\ at \in [0 .. Len(seqs) -> Nat] /\ at[0] = 0 /\ at[Len(seqs)] = Len(whole)
  /\ \A k \in 1 .. Len(seqs) :
       /\ at[k] = at[k - 1] + Len(seqs[k])
       /\ \A j \in 1 .. Len(seqs[k]) : whole[at[k - 1] + j] = seqs[k][j]

LEMMA LayoutOfOne ==
  ASSUME NEW S, NEW s \in Seq(S)
  PROVE  Layout([k \in 0 .. 1 |-> IF k = 0 THEN 0 ELSE Len(s)], <<s>>, s)
  <1>. DEFINE at == [k \in 0 .. 1 |-> IF k = 0 THEN 0 ELSE Len(s)]
  <1>1. Len(s) \in Nat /\ Len(<<s>>) = 1 /\ <<s>>[1] = s
    OBVIOUS
  <1>2. at \in [0 .. 1 -> Nat] /\ at[0] = 0 /\ at[1] = Len(s)
    BY <1>1
  <1>. HIDE DEF at
  <1>3. \A k \in 1 .. 1 : k = 1 /\ k - 1 = 0
    OBVIOUS
  <1>4. \A j \in 1 .. Len(s) : 0 + j = j
    BY <1>1
  <1>5. Layout(at, <<s>>, s)
    BY <1>1, <1>2, <1>3, <1>4 DEF Layout
  <1>. QED
    BY <1>5 DEF at

\* A place lies in the whole.
LEMMA LayoutEnds ==
  ASSUME NEW S, NEW seqs \in Seq(Seq(S)), NEW whole \in Seq(S), NEW at, Layout(at, seqs, whole)
  PROVE  \A k \in 0 .. Len(seqs) : at[k] \in Nat /\ at[k] <= Len(whole)
  <1>. DEFINE n == Len(seqs)
              T == {d \in Nat : d <= n => at[n - d] <= Len(whole)}
  <1>1. n \in Nat /\ Len(whole) \in Nat /\ at \in [0 .. n -> Nat] /\ at[n] = Len(whole)
    BY DEF Layout
  <1>2. 0 \in T
    BY <1>1
  <1>3. ASSUME NEW d \in Nat, d \in T
        PROVE  d + 1 \in T
    <2>. SUFFICES ASSUME d + 1 <= n PROVE at[n - (d + 1)] <= Len(whole)
      OBVIOUS
    <2>. DEFINE k == n - d
    <2>1. k \in 1 .. n /\ k - 1 = n - (d + 1) /\ k - 1 \in 0 .. n /\ k \in 0 .. n
      BY <1>1
    <2>2. at[k] <= Len(whole)
      BY <1>1, <1>3
    <2>. HIDE DEF k
    <2>3. seqs[k] \in Seq(S)
      BY <2>1
    <2>4. at[k] = at[k - 1] + Len(seqs[k])
      BY <2>1 DEF Layout
    <2>5. Len(seqs[k]) \in Nat
      BY <2>3, LenType
    <2>6. at[k - 1] \in Nat /\ at[k] \in Nat
      BY <1>1, <2>1
    <2>7. at[k - 1] <= Len(whole)
      BY <1>1, <2>2, <2>4, <2>5, <2>6
    <2>. QED
      BY <2>1, <2>7
  <1>. HIDE DEF T
  <1>4. \A d \in Nat : d \in T
    BY <1>2, <1>3, Induction
  <1>5. ASSUME NEW k \in 0 .. n
        PROVE  at[k] \in Nat /\ at[k] <= Len(whole)
    <2>1. n - k \in Nat /\ n - k <= n /\ n - (n - k) = k
      BY <1>1
    <2>2. at[n - (n - k)] <= Len(whole)
      BY <1>4, <2>1 DEF T
    <2>. QED
      BY <1>1, <2>1, <2>2
  <1>. QED
    BY <1>5

\* The places ct are the m + 1 of at, and from the last one on those of bt.
Grown(ct, at, m, bt, n, size) ==
  /\ \A k \in 0 .. m : ct[k] = at[k]
  /\ \A k \in 0 .. n : ct[m + k] = size + bt[k]

\* A whole after a whole.
LEMMA LayoutJoined ==
  ASSUME NEW S, NEW a \in Seq(Seq(S)), NEW b \in Seq(Seq(S)), NEW v \in Seq(S), NEW w \in Seq(S),
         NEW at, NEW bt, Layout(at, a, v), Layout(bt, b, w)
  PROVE  \E ct : Layout(ct, a \o b, v \o w) /\ Grown(ct, at, Len(a), bt, Len(b), Len(v))
  <1>. DEFINE m == Len(a)
              n == Len(b)
              ct == [k \in 0 .. m + n |-> IF k <= m THEN at[k] ELSE Len(v) + bt[k - m]]
  <1>1. /\ m \in Nat /\ n \in Nat /\ Len(v) \in Nat /\ Len(w) \in Nat
        /\ a \o b \in Seq(Seq(S)) /\ Len(a \o b) = m + n
        /\ v \o w \in Seq(S) /\ Len(v \o w) = Len(v) + Len(w)
    OBVIOUS
  <1>2. /\ at \in [0 .. m -> Nat] /\ at[0] = 0 /\ at[m] = Len(v)
        /\ bt \in [0 .. n -> Nat] /\ bt[0] = 0 /\ bt[n] = Len(w)
    BY DEF Layout
  <1>3. \A k \in 0 .. m : at[k] \in Nat /\ at[k] <= Len(v)
    BY LayoutEnds
  <1>4. \A k \in 0 .. n : bt[k] \in Nat /\ bt[k] <= Len(w)
    BY LayoutEnds
  <1>. HIDE DEF m, n
  <1>5. \A k \in 0 .. m : ct[k] = at[k]
    BY <1>1
  <1>6. ASSUME NEW k \in 0 .. n
        PROVE  ct[m + k] = Len(v) + bt[k]
    <2>1. m + k \in 0 .. m + n /\ (m + k) - m = k
      BY <1>1
    <2>2. CASE k = 0
      <3>1. ct[m] = at[m]
        BY <1>1, <1>5
      <3>. QED
        BY <1>1, <1>2, <2>2, <3>1
    <2>3. CASE k # 0
      <3>1. ~(m + k <= m)
        BY <1>1, <2>3
      <3>. QED
        BY <2>1, <3>1
    <2>. QED
      BY <2>2, <2>3
  <1>7. ct \in [0 .. m + n -> Nat]
    <2>1. ASSUME NEW k \in 0 .. m + n
          PROVE  (IF k <= m THEN at[k] ELSE Len(v) + bt[k - m]) \in Nat
      <3>1. CASE k <= m
        BY <1>1, <1>3, <3>1
      <3>2. CASE ~(k <= m)
        <4>1. k - m \in 0 .. n
          BY <1>1, <3>2
        <4>. QED
          BY <1>1, <1>4, <3>2, <4>1
      <3>. QED
        BY <3>1, <3>2
    <2>. QED
      BY <2>1
  <1>. HIDE DEF ct
  <1>8. ct[0] = 0 /\ ct[m + n] = Len(v) + Len(w)
    <2>1. 0 \in 0 .. m /\ n \in 0 .. n
      BY <1>1
    <2>. QED
      BY <1>2, <1>5, <1>6, <2>1
  <1>9. ASSUME NEW k \in 1 .. m + n
        PROVE  /\ ct[k] = ct[k - 1] + Len((a \o b)[k])
               /\ \A j \in 1 .. Len((a \o b)[k]) : (v \o w)[ct[k - 1] + j] = (a \o b)[k][j]
    <2>1. CASE k <= m
      <3>1. k \in 1 .. m /\ k \in 0 .. m /\ k - 1 \in 0 .. m
        BY <1>1, <2>1
      <3>2. (a \o b)[k] = a[k] /\ a[k] \in Seq(S)
        BY <3>1 DEF m
      <3>3. ct[k] = at[k] /\ ct[k - 1] = at[k - 1]
        BY <1>5, <3>1
      <3>4. /\ at[k] = at[k - 1] + Len(a[k])
            /\ \A j \in 1 .. Len(a[k]) : v[at[k - 1] + j] = a[k][j]
        BY <3>1 DEF Layout, m
      <3>5. Len(a[k]) \in Nat
        BY <3>2, LenType
      <3>6. at[k] <= Len(v) /\ at[k - 1] \in Nat
        BY <1>3, <3>1
      <3>7. \A j \in 1 .. Len(a[k]) : at[k - 1] + j \in 1 .. Len(v)
        BY <1>1, <3>4, <3>5, <3>6, Within
      <3>8. \A j \in 1 .. Len(a[k]) : (v \o w)[at[k - 1] + j] = a[k][j]
        BY <3>4, <3>7, Joined
      <3>. QED
        BY <3>2, <3>3, <3>4, <3>8
    <2>2. CASE ~(k <= m)
      <3>. DEFINE l == k - m
      <3>1. l \in 1 .. n /\ l \in 0 .. n /\ l - 1 \in 0 .. n /\ k = m + l /\ k - 1 = m + (l - 1)
        BY <1>1, <2>2
      <3>. HIDE DEF l
      <3>2. (a \o b)[k] = b[l] /\ b[l] \in Seq(S)
        <4>1. (a \o b)[Len(a) + l] = b[l]
          BY <3>1, Joined DEF n
        <4>2. \A i \in 1 .. Len(b) : b[i] \in Seq(S)
          OBVIOUS
        <4>. QED
          BY <3>1, <4>1, <4>2 DEF m, n
      <3>3. ct[k] = Len(v) + bt[l] /\ ct[k - 1] = Len(v) + bt[l - 1]
        BY <1>6, <3>1
      <3>4. /\ bt[l] = bt[l - 1] + Len(b[l])
            /\ \A j \in 1 .. Len(b[l]) : w[bt[l - 1] + j] = b[l][j]
        BY <3>1 DEF Layout, n
      <3>5. Len(b[l]) \in Nat
        BY <3>2, LenType
      <3>6. bt[l] <= Len(w) /\ bt[l - 1] \in Nat
        BY <1>4, <3>1
      <3>7. \A j \in 1 .. Len(b[l]) : bt[l - 1] + j \in 1 .. Len(w)
        BY <1>1, <3>4, <3>5, <3>6, Within
      <3>8. \A j \in 1 .. Len(b[l]) : (v \o w)[Len(v) + (bt[l - 1] + j)] = b[l][j]
        BY <3>4, <3>7, Joined, SMTT(30)
      <3>9. ASSUME NEW j \in 1 .. Len(b[l])
            PROVE  (Len(v) + bt[l - 1]) + j = Len(v) + (bt[l - 1] + j)
        <4>1. j \in Int
          OBVIOUS
        <4>. QED
          BY <1>1, <3>6, <4>1
      <3>10. ct[k] = ct[k - 1] + Len(b[l])
        BY <1>1, <3>3, <3>4, <3>5, <3>6
      <3>11. \A j \in 1 .. Len(b[l]) : (v \o w)[ct[k - 1] + j] = b[l][j]
        BY <3>3, <3>8, <3>9
      <3>. QED
        BY <3>2, <3>10, <3>11
    <2>. QED
      BY <2>1, <2>2
  <1>10. Layout(ct, a \o b, v \o w)
    BY <1>1, <1>7, <1>8, <1>9 DEF Layout
  <1>11. Grown(ct, at, Len(a), bt, Len(b), Len(v))
    BY <1>5, <1>6 DEF Grown, m, n
  <1>. QED
    BY <1>10, <1>11

LEMMA LayoutIncreases ==
  ASSUME NEW S, NEW seqs \in Seq(Seq(S)), NEW whole, NEW at, Layout(at, seqs, whole),
         \A k \in 1 .. Len(seqs) : Len(seqs[k]) > 0
  PROVE  \A i, k \in 0 .. Len(seqs) : i < k => at[i] < at[k]
  <1>. DEFINE n == Len(seqs)
              T == {d \in Nat : \A i \in 0 .. n : i + d + 1 <= n => at[i] < at[i + d + 1]}
  <1>1. n \in Nat /\ at \in [0 .. n -> Nat]
    BY DEF Layout
  <1>2. ASSUME NEW i \in Nat, i + 1 <= n
        PROVE  at[i] < at[i + 1]
    <2>1. i + 1 \in 1 .. n /\ i + 1 - 1 = i /\ i \in 0 .. n /\ i + 1 \in 0 .. n
      BY <1>1, <1>2
    <2>2. at[i + 1] = at[i] + Len(seqs[i + 1]) /\ Len(seqs[i + 1]) > 0
      BY <2>1 DEF Layout
    <2>3. Len(seqs[i + 1]) \in Nat
      BY <2>1, LenType
    <2>4. at[i] \in Nat
      BY <1>1, <2>1
    <2>. QED
      BY <2>2, <2>3, <2>4
  <1>. HIDE DEF n
  <1>3. 0 \in T
    <2>1. \A i \in 0 .. n : i + 0 + 1 = i + 1 /\ i \in Nat
      BY <1>1
    <2>. QED
      BY <1>2, <2>1
  <1>4. ASSUME NEW d \in Nat, d \in T
        PROVE  d + 1 \in T
    <2>1. ASSUME NEW i \in 0 .. n, i + (d + 1) + 1 <= n
          PROVE  at[i] < at[i + (d + 1) + 1]
      <3>. DEFINE k == i + d + 1
      <3>1. k \in Nat /\ k + 1 <= n /\ k <= n /\ i + (d + 1) + 1 = k + 1 /\ k \in 0 .. n /\ k + 1 \in 0 .. n
        BY <1>1, <2>1
      <3>2. at[i] < at[k]
        BY <1>4, <3>1
      <3>. HIDE DEF k
      <3>3. at[k] < at[k + 1]
        BY <1>2, <3>1
      <3>4. at[i] \in Nat /\ at[k] \in Nat /\ at[k + 1] \in Nat
        BY <1>1, <3>1
      <3>5. at[i] < at[k + 1]
        BY <3>2, <3>3, <3>4
      <3>. QED
        BY <3>1, <3>5, Zenon
    <2>. QED
      BY <2>1
  <1>. HIDE DEF T
  <1>5. \A d \in Nat : d \in T
    BY <1>3, <1>4, Induction
  <1>6. ASSUME NEW i \in 0 .. n, NEW k \in 0 .. n, i < k
        PROVE  at[i] < at[k]
    <2>. DEFINE d == k - i - 1
    <2>1. d \in Nat /\ i + d + 1 = k /\ i + d + 1 <= n
      BY <1>1, <1>6
    <2>. HIDE DEF d
    <2>2. at[i] < at[i + d + 1]
      BY <1>5, <2>1 DEF T
    <2>. QED
      BY <2>1, <2>2
  <1>. QED
    BY <1>6 DEF n

\* f gives the first i sequences one after another.
FlattensTo(f, seqs, n) == f = [i \in 1 .. n |-> IF i = 1 THEN seqs[i] ELSE f[i - 1] \o seqs[i]]

LEMMA FlattenExists ==
  ASSUME NEW seqs, NEW n \in Nat
  PROVE  \E f : FlattensTo(f, seqs, n)
  <1>. DEFINE T == {m \in Nat : \E f : FlattensTo(f, seqs, m)}
  <1>1. 0 \in T
    <2>. DEFINE f == [i \in 1 .. 0 |-> 0]
    <2>1. f = [i \in 1 .. 0 |-> IF i = 1 THEN seqs[i] ELSE f[i - 1] \o seqs[i]]
      OBVIOUS
    <2>. HIDE DEF f
    <2>. QED
      BY <2>1 DEF FlattensTo
  <1>2. ASSUME NEW m \in Nat, m \in T
        PROVE  m + 1 \in T
    <2>1. PICK f : FlattensTo(f, seqs, m)
      BY <1>2
    <2>. DEFINE last == IF m + 1 = 1 THEN seqs[m + 1] ELSE f[m] \o seqs[m + 1]
                g == [i \in 1 .. m + 1 |-> IF i = m + 1 THEN last ELSE f[i]]
    <2>. HIDE DEF last
    <2>2. ASSUME NEW i \in 1 .. m + 1
          PROVE  g[i] = IF i = 1 THEN seqs[i] ELSE g[i - 1] \o seqs[i]
      <3>1. CASE i = m + 1
        <4>1. CASE m = 0
          BY <3>1, <4>1 DEF last
        <4>2. CASE m # 0
          <5>1. m \in 1 .. m + 1 /\ m # m + 1 /\ i - 1 = m /\ i # 1 /\ m + 1 # 1
            BY <3>1, <4>2
          <5>2. g[m] = f[m] /\ g[i] = last
            BY <3>1, <5>1
          <5>. QED
            BY <3>1, <5>1, <5>2 DEF last
        <4>. QED
          BY <4>1, <4>2
      <3>2. CASE i # m + 1
        <4>1. i \in 1 .. m /\ (i # 1 => i - 1 \in 1 .. m + 1 /\ i - 1 # m + 1)
          BY <3>2
        <4>2. f[i] = IF i = 1 THEN seqs[i] ELSE f[i - 1] \o seqs[i]
          BY <2>1, <4>1, Zenon DEF FlattensTo
        <4>3. g[i] = f[i] /\ (i # 1 => g[i - 1] = f[i - 1])
          BY <3>2, <4>1
        <4>. QED
          BY <4>2, <4>3
      <3>. QED
        BY <3>1, <3>2
    <2>3. g = [i \in 1 .. m + 1 |-> g[i]]
      OBVIOUS
    <2>. HIDE DEF g
    <2>4. g = [i \in 1 .. m + 1 |-> IF i = 1 THEN seqs[i] ELSE g[i - 1] \o seqs[i]]
      BY <2>2, <2>3
    <2>5. FlattensTo(g, seqs, m + 1)
      BY <2>4 DEF FlattensTo
    <2>. QED
      BY <2>5
  <1>. HIDE DEF T
  <1>3. n \in T
    BY <1>1, <1>2, Induction
  <1>. QED
    BY <1>3 DEF T

\* The sequences, in their order, make up the flat one.
LEMMA FlattenIs ==
  ASSUME NEW S, NEW seqs \in Seq(Seq(S))
  PROVE  /\ FlattenSeq(seqs) \in Seq(S)
         /\ \E at : Layout(at, seqs, FlattenSeq(seqs))
  <1>. DEFINE n == Len(seqs)
              flatten == CHOOSE f : FlattensTo(f, seqs, n)
  <1>1. n \in Nat
    OBVIOUS
  <1>2. CASE n = 0
    <2>1. seqs = <<>> /\ FlattenSeq(seqs) = <<>>
      <3>1. seqs = <<>>
        BY <1>2
      <3>2. FlattenSeq(seqs) = seqs
        BY <1>2 DEF FlattenSeq
      <3>. QED
        BY <3>1, <3>2
    <2>. DEFINE at == [k \in 0 .. 0 |-> 0]
    <2>2. at \in [0 .. 0 -> Nat] /\ at[0] = 0
      OBVIOUS
    <2>. HIDE DEF at
    <2>3. Len(<<>>) = 0 /\ 1 .. 0 = {}
      OBVIOUS
    <2>4. Layout(at, <<>>, <<>>)
      BY <2>2, <2>3 DEF Layout
    <2>5. <<>> \in Seq(S)
      OBVIOUS
    <2>. QED
      BY <2>1, <2>4, <2>5
  <1>3. CASE n # 0
    <2>1. FlattensTo(flatten, seqs, n)
      BY <1>1, FlattenExists
    <2>2. FlattenSeq(seqs) = flatten[n]
      BY <1>3, Zenon DEF FlattenSeq, FlattensTo
    <2>. DEFINE First(i) == SubSeq(seqs, 1, i)
                T == {i \in Nat : i + 1 <= n =>
                        /\ flatten[i + 1] \in Seq(S)
                        /\ \E at : Layout(at, First(i + 1), flatten[i + 1])}
    <2>. HIDE DEF flatten, n
    <2>3. \A i \in 1 .. n : seqs[i] \in Seq(S)
      BY DEF n
    <2>f. \A j \in 1 .. n : flatten[j] = IF j = 1 THEN seqs[j] ELSE flatten[j - 1] \o seqs[j]
      BY <2>1, Zenon DEF FlattensTo
    <2>4. 0 \in T
      <3>. SUFFICES ASSUME 1 <= n
                    PROVE  flatten[1] \in Seq(S) /\ \E at : Layout(at, First(1), flatten[1])
        OBVIOUS
      <3>1. 1 \in 1 .. n
        BY <1>1
      <3>2. flatten[1] = seqs[1]
        BY <2>1, <3>1, Zenon DEF FlattensTo
      <3>3. First(1) \in Seq(Seq(S)) /\ Len(First(1)) = 1 /\ First(1)[1] = seqs[1]
        BY <3>1 DEF n
      <3>4. seqs[1] \in Seq(S)
        BY <2>3, <3>1
      <3>5. First(1) = <<seqs[1]>>
        <4>. DEFINE s == seqs[1]
        <4>. HIDE DEF First, s
        <4>1. <<s>> \in Seq(Seq(S)) /\ Len(<<s>>) = 1 /\ <<s>>[1] = s
          BY <3>4 DEF s
        <4>2. \A j \in 1 .. 1 : j = 1
          OBVIOUS
        <4>3. First(1) = <<s>>
          BY <3>3, <4>1, <4>2, SeqEqual DEF s
        <4>. QED
          BY <4>3 DEF s
      <3>. QED
        BY <3>2, <3>4, <3>5, LayoutOfOne
    <2>5. ASSUME NEW i \in Nat, i \in T
          PROVE  i + 1 \in T
      <3>. DEFINE k == i + 1
      <3>. SUFFICES ASSUME k + 1 <= n
                    PROVE  /\ flatten[k + 1] \in Seq(S)
                           /\ \E at : Layout(at, First(k + 1), flatten[k + 1])
        OBVIOUS
      <3>1. /\ k \in 1 .. n /\ k + 1 \in 1 .. n /\ k + 1 # 1 /\ k + 1 - 1 = k
        BY <1>1
      <3>2. flatten[k] \in Seq(S) /\ \E at : Layout(at, First(k), flatten[k])
        BY <1>1, <2>5, <3>1
      <3>. HIDE DEF k
      <3>3. PICK at : Layout(at, First(k), flatten[k])
        BY <3>2
      <3>. DEFINE s == seqs[k + 1]
      <3>4. s \in Seq(S)
        BY <2>3, <3>1
      <3>5. flatten[k + 1] = flatten[k] \o s
        <4>. DEFINE j == k + 1
        <4>1. j \in 1 .. n /\ j # 1 /\ j - 1 = k
          BY <3>1
        <4>. HIDE DEF j
        <4>2. flatten[j] = flatten[j - 1] \o seqs[j]
          BY <2>f, <4>1, Zenon
        <4>. QED
          BY <4>1, <4>2 DEF j
      <3>6. First(k) \in Seq(Seq(S)) /\ First(k + 1) = First(k) \o <<s>>
        <4>1. First(k) \in Seq(Seq(S)) /\ First(k + 1) \in Seq(Seq(S))
          BY <3>1 DEF n
        <4>2. Len(First(k)) = k /\ Len(First(k + 1)) = k + 1
          BY <3>1 DEF n
        <4>3. \A j \in 1 .. k + 1 : First(k + 1)[j] = seqs[j]
          BY <3>1 DEF n
        <4>4. \A j \in 1 .. k : First(k)[j] = seqs[j]
          BY <3>1 DEF n
        <4>. HIDE DEF First, s
        <4>5. <<s>> \in Seq(Seq(S)) /\ Len(<<s>>) = 1 /\ <<s>>[1] = s
          BY <3>4
        <4>6. First(k) \o <<s>> \in Seq(Seq(S)) /\ Len(First(k) \o <<s>>) = k + 1
          BY <3>1, <4>1, <4>2, <4>5
        <4>7. ASSUME NEW j \in 1 .. k + 1
              PROVE  First(k + 1)[j] = (First(k) \o <<s>>)[j]
          <5>1. CASE j = k + 1
            <6>1. (First(k) \o <<s>>)[k + 1] = s
              BY <4>1, <4>2, <4>5, Joined
            <6>. QED
              BY <4>3, <5>1, <6>1 DEF s
          <5>2. CASE j # k + 1
            <6>1. j \in 1 .. k
              BY <3>1, <5>2
            <6>2. (First(k) \o <<s>>)[j] = First(k)[j]
              BY <4>1, <4>2, <4>5, <6>1, Joined
            <6>. QED
              BY <4>3, <4>4, <6>1, <6>2
          <5>. QED
            BY <5>1, <5>2
        <4>. QED
          BY <4>1, <4>2, <4>6, <4>7, SeqEqual
      <3>7. <<s>> \in Seq(Seq(S))
        BY <3>4
      <3>. HIDE DEF s, First
      <3>8. \E bt : Layout(bt, <<s>>, s)
        BY <3>4, LayoutOfOne
      <3>9. \E ct : Layout(ct, First(k) \o <<s>>, flatten[k] \o s)
        BY <3>2, <3>3, <3>4, <3>6, <3>7, <3>8, LayoutJoined
      <3>10. flatten[k] \o s \in Seq(S)
        BY <3>2, <3>4
      <3>. QED
        BY <3>5, <3>6, <3>9, <3>10
    <2>. HIDE DEF T, First
    <2>6. n - 1 \in Nat /\ n - 1 + 1 = n
      BY <1>1, <1>3
    <2>7. n - 1 \in T
      BY <2>4, <2>5, <2>6, Induction
    <2>8. flatten[n] \in Seq(S) /\ \E at : Layout(at, First(n), flatten[n])
      <3>1. /\ flatten[n - 1 + 1] \in Seq(S)
            /\ \E at : Layout(at, First(n - 1 + 1), flatten[n - 1 + 1])
        BY <1>1, <2>6, <2>7 DEF T
      <3>. QED
        BY <2>6, <3>1
    <2>9. First(n) = seqs
      BY DEF First, n
    <2>. QED
      BY <2>2, <2>8, <2>9
  <1>. QED
    BY <1>2, <1>3

-----------------------------------------------------------------------------
\* What the calls ask for.

\* Requests without a label.
Simple == {r \in Requests : r.form \in {"Plain", "Load"}}

LEMMA TypeCodes ==
  /\ \A type \in DOMAIN TypeCode : TypeCode[type] \in Nat
  /\ {"None", "Bytes", "Number", "String"} \subseteq DOMAIN TypeCode /\ "Array" \notin DOMAIN TypeCode
  <1>1. ASSUME NEW type \in DOMAIN TypeCode
        PROVE  TypeCode[type] \in Nat
    <2>1. \E i \in DOMAIN VMTypes : VMTypes[i] = type
      BY Zenon DEF TypeCode
    <2>. DEFINE j == CHOOSE i \in DOMAIN VMTypes : VMTypes[i] = type
    <2>2. j \in DOMAIN VMTypes
      BY <2>1
    <2>3. TypeCode[type] = j - 1
      BY DEF TypeCode
    <2>4. \A i \in DOMAIN VMTypes : i - 1 \in Nat
      BY DEF VMTypes
    <2>. HIDE DEF j
    <2>. QED
      BY <2>2, <2>3, <2>4
  <1>2. {"None", "Bytes", "Number", "String"} \subseteq DOMAIN TypeCode /\ "Array" \notin DOMAIN TypeCode
    BY DEF TypeCode, VMTypes
  <1>. QED
    BY <1>1, <1>2

LEMMA EmitSimple ==
  ASSUME NEW op \in Known \ (WithLength \cup WithData \cup WithPlace), NEW operands \in Seq(Nat),
         Len(operands) = OperandCount(op)
  PROVE  Emit(op, operands) \in Simple
  <1>. DEFINE r == Emit(op, operands)
  <1>1. /\ r.form = "Plain" /\ r.op = op /\ r.operands = operands /\ r.data = <<>>
        /\ r.length = 0 /\ r.label = ""
    BY DEF Emit, Request
  <1>2. "Plain" \in DOMAIN Operations /\ op \in Operations["Plain"]
    BY DEF Operations
  <1>3. op \in Opcode /\ <<>> \in Seq(Byte)
    BY KnownOpcodes
  <1>4. r \in [form : DOMAIN Operations, op : Opcode, operands : Seq(Nat), data : Seq(Byte),
               length : Int, label : Labels \cup {""}]
    BY <1>2, <1>3 DEF Emit, Request
  <1>. HIDE DEF r
  <1>. QED
    BY <1>1, <1>2, <1>4 DEF Simple, Requests, r

LEMMA LoadSimple ==
  ASSUME NEW reg \in Nat, NEW arg \in Scalars
  PROVE  EmitLoad(reg, arg) \in Simple /\ LoadScalar(reg, arg) \in Seq(Simple)
  <1>. DEFINE r == EmitLoad(reg, arg)
              operands == <<reg, TypeCode[arg.type]>>
  <1>1. arg.bytes \in Seq(Byte) /\ TypeCode[arg.type] \in Nat
    BY TypeCodes DEF Scalars
  <1>2. operands \in Seq(Nat) /\ Len(operands) = 2
    BY <1>1
  <1>. HIDE DEF operands
  <1>3. /\ r.form = "Load" /\ r.op = "LOAD" /\ r.operands = operands /\ r.length = 0
    BY DEF EmitLoad, Request, operands
  <1>4. "Load" \in DOMAIN Operations /\ "LOAD" \in Operations["Load"]
    BY DEF Operations
  <1>5. "LOAD" \in Opcode /\ OperandCount("LOAD") = 2
    BY KnownOpcodes DEF Known, Binary, Ternary, OperandCount
  <1>6. r \in [form : DOMAIN Operations, op : Opcode, operands : Seq(Nat), data : Seq(Byte),
               length : Int, label : Labels \cup {""}]
    BY <1>1, <1>2, <1>4, <1>5 DEF EmitLoad, Request, operands
  <1>. HIDE DEF r
  <1>7. r \in Simple
    BY <1>2, <1>3, <1>4, <1>5, <1>6 DEF Simple, Requests
  <1>. QED
    BY <1>7 DEF r, LoadScalar

\* The operations of the calls.
LEMMA SimpleForms ==
  ASSUME NEW a \in Nat, NEW b \in Nat, NEW c \in Nat
  PROVE  /\ EmitPush(a) \in Simple /\ EmitPop(a) \in Simple /\ EmitInc(a) \in Simple
         /\ Emit("EXTCALL", <<a>>) \in Simple /\ Emit("SWITCH", <<a>>) \in Simple
         /\ Emit2Arg("CTX", a, b) \in Simple
         /\ Emit3Arg("PUT", a, b, c) \in Simple /\ Emit3Arg("CAT", a, b, c) \in Simple
         /\ \A type \in {"None", "Bytes", "Number"} : EmitCast(a, b, type) \in Simple
  <1>. DEFINE Single == Known \ (WithLength \cup WithData \cup WithPlace)
  <1>1. \A op \in {"PUSH", "POP", "INC", "EXTCALL", "SWITCH"} : op \in Single /\ OperandCount(op) = 1
    BY DEF Known, Bare, Unary, Binary, Ternary, WithLength, WithData, WithPlace, OperandCount
  <1>2. "CTX" \in Single /\ OperandCount("CTX") = 2
    BY DEF Known, Bare, Unary, Binary, Ternary, WithLength, WithData, WithPlace, OperandCount
  <1>3. \A op \in {"PUT", "CAT", "CAST"} : op \in Single /\ OperandCount(op) = 3
    BY DEF Known, Bare, Unary, Binary, Ternary, WithLength, WithData, WithPlace, OperandCount
  <1>4. /\ <<a>> \in Seq(Nat) /\ Len(<<a>>) = 1
        /\ <<a, b>> \in Seq(Nat) /\ Len(<<a, b>>) = 2
        /\ <<a, b, c>> \in Seq(Nat) /\ Len(<<a, b, c>>) = 3
    OBVIOUS
  <1>5. ASSUME NEW type \in {"None", "Bytes", "Number"}
        PROVE  <<a, b, TypeCode[type]>> \in Seq(Nat) /\ Len(<<a, b, TypeCode[type]>>) = 3
    <2>1. TypeCode[type] \in Nat
      BY TypeCodes
    <2>. QED
      BY <2>1
  <1>. HIDE DEF Single
  <1>6. ASSUME NEW op \in Single, NEW operands \in Seq(Nat), Len(operands) = OperandCount(op)
        PROVE  Emit(op, operands) \in Simple
    BY <1>6, EmitSimple DEF Single
  <1>7. \A op \in {"PUSH", "POP", "INC", "EXTCALL", "SWITCH"} : Emit(op, <<a>>) \in Simple
    BY <1>1, <1>4, <1>6
  <1>8. Emit("CTX", <<a, b>>) \in Simple
    BY <1>2, <1>4, <1>6
  <1>9. \A op \in {"PUT", "CAT"} : Emit(op, <<a, b, c>>) \in Simple
    BY <1>3, <1>4, <1>6
  <1>10. \A type \in {"None", "Bytes", "Number"} : Emit("CAST", <<a, b, TypeCode[type]>>) \in Simple
    BY <1>3, <1>5, <1>6
  <1>. QED
    BY <1>7, <1>8, <1>9, <1>10 DEF EmitPush, EmitPop, EmitInc, EmitCast, Emit2Arg, Emit3Arg

LEMMA SimpleSeqs ==
  /\ \A a, b \in Seq(Simple) : a \o b \in Seq(Simple)
  /\ \A r \in Simple : <<r>> \in Seq(Simple)
  /\ \A r, q \in Simple : <<r, q>> \in Seq(Simple)
  /\ \A r, q, t \in Simple : <<r, q, t>> \in Seq(Simple)
  OBVIOUS

LEMMA NumberScalar ==
  ASSUME NEW n \in Nat
  PROVE  Scalar("Number", Signed(n)) \in Scalars
  <1>1. Signed(n) \in Seq(Byte) /\ "Number" \in DOMAIN TypeCode
    BY SignedType, TypeCodes
  <1>. QED
    BY <1>1 DEF Scalar, Scalars

LEMMA LoadArrayType ==
  ASSUME NEW reg \in Nat, NEW loads \in Seq(Seq(Simple))
  PROVE  LoadArray(reg, loads) \in Seq(Simple)
  <1>. DEFINE Element(j) == loads[j]
                 \o LoadScalar(TempKey(reg), Scalar("Number", Signed(j - 1)))
                 \o <<Emit3Arg("PUT", TempVal(reg), reg, TempKey(reg))>>
              elements == [j \in DOMAIN loads |-> Element(j)]
  <1>1. TempKey(reg) \in Nat /\ TempVal(reg) \in Nat
    BY DEF TempKey, TempVal
  <1>2. ASSUME NEW j \in DOMAIN loads
        PROVE  Element(j) \in Seq(Simple)
    <2>1. j - 1 \in Nat
      OBVIOUS
    <2>2. LoadScalar(TempKey(reg), Scalar("Number", Signed(j - 1))) \in Seq(Simple)
      BY <1>1, <2>1, NumberScalar, LoadSimple
    <2>3. <<Emit3Arg("PUT", TempVal(reg), reg, TempKey(reg))>> \in Seq(Simple)
      BY <1>1, SimpleForms, SimpleSeqs
    <2>4. loads[j] \in Seq(Simple)
      OBVIOUS
    <2>. QED
      BY <2>2, <2>3, <2>4, SimpleSeqs
  <1>. HIDE DEF Element
  <1>3. elements \in Seq(Seq(Simple))
    BY <1>2
  <1>. HIDE DEF elements
  <1>4. FlattenSeq(elements) \in Seq(Simple)
    BY <1>3, FlattenIs
  <1>5. <<EmitCast(reg, reg, "None")>> \in Seq(Simple)
    BY SimpleForms, SimpleSeqs
  <1>6. LoadArray(reg, loads) = <<EmitCast(reg, reg, "None")>> \o FlattenSeq(elements)
    BY Zenon DEF LoadArray, elements, Element
  <1>. QED
    BY <1>4, <1>5, <1>6, SimpleSeqs

LEMMA LoadFlatType ==
  ASSUME NEW reg \in Nat, NEW arg \in Scalars \cup Arrays(Scalars)
  PROVE  LoadFlat(reg, arg) \in Seq(Simple)
  <1>1. CASE arg.type = "Array"
    <2>1. arg.items \in Seq(Scalars)
      BY <1>1, TypeCodes DEF Scalars, Arrays
    <2>. DEFINE loads == [j \in DOMAIN arg.items |-> LoadScalar(TempVal(reg), arg.items[j])]
                items == arg.items
    <2>2. TempVal(reg) \in Nat
      BY DEF TempVal
    <2>3. ASSUME NEW j \in DOMAIN items
          PROVE  LoadScalar(TempVal(reg), items[j]) \in Seq(Simple)
      <3>. HIDE DEF items
      <3>1. items[j] \in Scalars
        BY <2>1 DEF items
      <3>. QED
        BY <2>2, <3>1, LoadSimple
    <2>4. loads \in Seq(Seq(Simple))
      <3>. HIDE DEF items
      <3>1. loads = [j \in DOMAIN items |-> LoadScalar(TempVal(reg), items[j])]
        BY DEF items
      <3>2. items \in Seq(Scalars)
        BY <2>1 DEF items
      <3>. HIDE DEF loads
      <3>. QED
        BY <2>3, <3>1, <3>2
    <2>. HIDE DEF loads
    <2>5. LoadArray(reg, loads) \in Seq(Simple)
      BY <2>4, LoadArrayType
    <2>. QED
      BY <1>1, <2>5 DEF LoadFlat, loads
  <1>2. CASE arg.type # "Array"
    <2>1. arg \in Scalars
      BY <1>2 DEF Arrays
    <2>. QED
      BY <1>2, <2>1, LoadSimple DEF LoadFlat
  <1>. QED
    BY <1>1, <1>2

LEMMA LoadIntoRegType ==
  ASSUME NEW reg \in Nat, NEW arg \in Arguments
  PROVE  LoadIntoReg(reg, arg) \in Seq(Simple)
  <1>. DEFINE Flat == Scalars \cup Arrays(Scalars)
  <1>1. CASE arg.type = "Array"
    <2>1. arg.items \in Seq(Flat)
      BY <1>1, TypeCodes DEF Scalars, Arrays, Arguments
    <2>. DEFINE loads == [j \in DOMAIN arg.items |-> LoadFlat(TempVal(reg), arg.items[j])]
                items == arg.items
    <2>2. TempVal(reg) \in Nat
      BY DEF TempVal
    <2>3. ASSUME NEW j \in DOMAIN items
          PROVE  LoadFlat(TempVal(reg), items[j]) \in Seq(Simple)
      <3>. HIDE DEF items
      <3>1. items[j] \in Flat
        BY <2>1 DEF items
      <3>. QED
        BY <2>2, <3>1, LoadFlatType
    <2>4. loads \in Seq(Seq(Simple))
      <3>. HIDE DEF items
      <3>1. loads = [j \in DOMAIN items |-> LoadFlat(TempVal(reg), items[j])]
        BY DEF items
      <3>2. items \in Seq(Flat)
        BY <2>1 DEF items
      <3>. HIDE DEF loads, Flat
      <3>. QED
        BY <2>3, <3>1, <3>2
    <2>. HIDE DEF loads
    <2>5. LoadArray(reg, loads) \in Seq(Simple)
      BY <2>4, LoadArrayType
    <2>. QED
      BY <1>1, <2>5 DEF LoadIntoReg, loads
  <1>2. CASE arg.type # "Array"
    <2>1. arg \in Scalars
      BY <1>2 DEF Arrays, Arguments
    <2>. QED
      BY <1>2, <2>1, LoadSimple DEF LoadIntoReg
  <1>. QED
    BY <1>1, <1>2

LEMMA InsertMethodArgsType ==
  ASSUME NEW args \in Seq(Arguments)
  PROVE  InsertMethodArgs(args) \in Seq(Simple)
  <1>. DEFINE inserts == [k \in DOMAIN args |-> InsertMethodArg(args[Len(args) + 1 - k])]
  <1>1. ASSUME NEW k \in DOMAIN args
        PROVE  InsertMethodArg(args[Len(args) + 1 - k]) \in Seq(Simple)
    <2>1. Len(args) + 1 - k \in 1 .. Len(args)
      OBVIOUS
    <2>2. args[Len(args) + 1 - k] \in Arguments
      BY <2>1
    <2>3. LoadIntoReg(0, args[Len(args) + 1 - k]) \in Seq(Simple)
      BY <2>2, LoadIntoRegType
    <2>4. <<EmitPush(0)>> \in Seq(Simple)
      BY SimpleForms, SimpleSeqs
    <2>. QED
      BY <2>3, <2>4, SimpleSeqs DEF InsertMethodArg
  <1>2. inserts \in Seq(Seq(Simple))
    BY <1>1
  <1>. HIDE DEF inserts
  <1>3. FlattenSeq(inserts) \in Seq(Simple)
    BY <1>2, FlattenIs
  <1>. QED
    BY <1>3 DEF InsertMethodArgs, inserts

LEMMA TextScalar ==
  ASSUME NEW name \in Names
  PROVE  Text(name) \in Scalars
  <1>1. Utf8[name] \in Seq(Byte) /\ "String" \in DOMAIN TypeCode
    BY NamesAssumption, TypeCodes
  <1>. QED
    BY <1>1 DEF Text, Scalar, Scalars

LEMMA EmitExtCallType ==
  ASSUME NEW method \in Names, NEW reg \in Nat
  PROVE  EmitExtCall(method, reg) \in Seq(Simple)
  <1>1. LoadScalar(reg, Text(method)) \in Seq(Simple)
    BY TextScalar, LoadSimple
  <1>2. <<Emit("EXTCALL", <<reg>>)>> \in Seq(Simple)
    BY SimpleForms, SimpleSeqs
  <1>. QED
    BY <1>1, <1>2, SimpleSeqs DEF EmitExtCall

LEMMA CallInteropType ==
  ASSUME NEW method \in Names, NEW args \in Seq(Arguments)
  PROVE  CallInterop(method, args) \in Seq(Simple)
  <1>1. EmitExtCall(method, 0) \in Seq(Simple)
    BY EmitExtCallType
  <1>. QED
    BY <1>1, InsertMethodArgsType, SimpleSeqs DEF CallInterop

LEMMA CallContractType ==
  ASSUME NEW contract \in Names, NEW method \in Names, NEW args \in Seq(Arguments)
  PROVE  CallContract(contract, method, args) \in Seq(Simple)
  <1>1. InsertMethodArgs(args) \in Seq(Simple)
    BY InsertMethodArgsType
  <1>2. LoadScalar(0, Text(method)) \in Seq(Simple) /\ LoadScalar(0, Text(contract)) \in Seq(Simple)
    BY TextScalar, LoadSimple
  <1>3. <<EmitPush(0)>> \in Seq(Simple) /\ <<Emit2Arg("CTX", 0, 1), Emit("SWITCH", <<1>>)>> \in Seq(Simple)
    BY SimpleForms, SimpleSeqs
  <1>. QED
    BY <1>1, <1>2, <1>3, SimpleSeqs DEF CallContract

LEMMA CallRequestsType ==
  ASSUME NEW c \in Calls
  PROVE  CallRequests(c) \in Seq(Simple)
  <1>1. c.contract \in Names \cup {""} /\ c.method \in Names /\ c.args \in Seq(Arguments)
    BY RequestsAssumption
  <1>2. CASE c.contract = ""
    BY <1>1, <1>2, CallInteropType DEF CallRequests
  <1>3. CASE c.contract # ""
    <2>1. c.contract \in Names
      BY <1>1, <1>3
    <2>. QED
      BY <1>1, <1>3, <2>1, CallContractType DEF CallRequests
  <1>. QED
    BY <1>2, <1>3

LEMMA ArgumentSeqs ==
  /\ Scalars \subseteq Arguments
  /\ \A a, b \in Scalars : <<a, b>> \in Seq(Arguments)
  /\ \A a, b, c \in Scalars : <<a, b, c>> \in Seq(Arguments)
  <1>1. Scalars \subseteq Arguments
    BY DEF Arguments
  <1>. QED
    BY <1>1

\* The requests of goati_nft.h.
LEMMA NftRequestsType ==
  ASSUME NEW n \in Nfts
  PROVE  /\ ReadTokenToRegister(n.symbol, n.id, n.rom_reg) \in Seq(Simple)
         /\ WriteTokenFromRegister(n.symbol, n.id, n.rom_reg) \in Seq(Simple)
         /\ MintTokenContentsFromRegisters(n.symbol, n.from, n.to, n.rom_reg, n.ram_reg) \in Seq(Simple)
         /\ MintTokenIncrementingId(n.id, n.symbol, n.from, n.to, n.rom, n.ram) \in Seq(Simple)
  <1>. DEFINE a == n.rom_reg
              b == n.ram_reg
              symbol == n.symbol
              id == n.id
              from == n.from
              to == n.to
              rom == n.rom
              ram == n.ram
  <1>0. /\ symbol \in Scalars /\ id \in Scalars /\ from \in Scalars /\ to \in Scalars
        /\ rom \in Scalars /\ ram \in Scalars /\ a \in Nat /\ b \in Nat
        /\ {"Runtime.ReadToken", "Runtime.WriteToken", "Runtime.MintToken"} \subseteq Names
    BY RequestsAssumption
  <1>. HIDE DEF a, b, symbol, id, from, to, rom, ram
  <1>1. ASSUME NEW r \in Nat
        PROVE  ReadTokenToRegister(symbol, id, r) \in Seq(Simple)
    <2>1. CallInterop("Runtime.ReadToken", <<symbol, id>>) \in Seq(Simple)
      BY <1>0, ArgumentSeqs, CallInteropType
    <2>2. <<EmitPop(r)>> \in Seq(Simple)
      BY SimpleForms, SimpleSeqs
    <2>. QED
      BY <2>1, <2>2, SimpleSeqs DEF ReadTokenToRegister
  <1>2. ASSUME NEW r \in Nat
        PROVE  WriteTokenFromRegister(symbol, id, r) \in Seq(Simple)
    <2>1. InsertMethodArgs(<<symbol, id>>) \in Seq(Simple)
      BY <1>0, ArgumentSeqs, InsertMethodArgsType
    <2>2. EmitExtCall("Runtime.WriteToken", 0) \in Seq(Simple)
      BY <1>0, EmitExtCallType
    <2>3. <<EmitPush(r)>> \in Seq(Simple)
      BY SimpleForms, SimpleSeqs
    <2>. QED
      BY <2>1, <2>2, <2>3, SimpleSeqs DEF WriteTokenFromRegister
  <1>3. ASSUME NEW r \in Nat, NEW q \in Nat
        PROVE  MintTokenContentsFromRegisters(symbol, from, to, r, q) \in Seq(Simple)
    <2>1. CallInterop("Runtime.MintToken", <<from, to, symbol>>) \in Seq(Simple)
      BY <1>0, ArgumentSeqs, CallInteropType
    <2>2. <<EmitPush(q), EmitPush(r)>> \in Seq(Simple)
      BY SimpleForms, SimpleSeqs
    <2>. QED
      BY <2>1, <2>2, SimpleSeqs DEF MintTokenContentsFromRegisters
  <1>4. IncrementRAM(symbol, id, 1) \in Seq(Simple)
    <2>1. EmitCast(1, 1, "Number") \in Simple /\ EmitInc(1) \in Simple /\ EmitCast(1, 1, "Bytes") \in Simple
      BY SimpleForms
    <2>2. <<EmitCast(1, 1, "Number"), EmitInc(1), EmitCast(1, 1, "Bytes")>> \in Seq(Simple)
      BY <2>1, SimpleSeqs
    <2>. QED
      BY <1>1, <1>2, <2>2, SimpleSeqs DEF IncrementRAM
  <1>5. MintTokenIncrementingId(id, symbol, from, to, rom, ram) \in Seq(Simple)
    <2>1. LoadScalar(2, rom) \in Seq(Simple) /\ LoadScalar(0, ram) \in Seq(Simple)
      BY <1>0, LoadSimple
    <2>2. <<Emit3Arg("CAT", 2, 1, 2)>> \in Seq(Simple)
      BY SimpleForms, SimpleSeqs
    <2>3. MintTokenContentsFromRegisters(symbol, from, to, 2, 0) \in Seq(Simple)
      BY <1>3
    <2>. QED
      BY <1>4, <2>1, <2>2, <2>3, SimpleSeqs DEF MintTokenIncrementingId
  <1>6. /\ ReadTokenToRegister(symbol, id, a) \in Seq(Simple)
        /\ WriteTokenFromRegister(symbol, id, a) \in Seq(Simple)
        /\ MintTokenContentsFromRegisters(symbol, from, to, a, b) \in Seq(Simple)
    BY <1>0, <1>1, <1>2, <1>3
  <1>. QED
    BY <1>5, <1>6 DEF a, b, symbol, id, from, to, rom, ram
-----------------------------------------------------------------------------
\* The invariant.

Pieces(requests) == [k \in DOMAIN requests |-> Written(requests[k])]

\* The places of the jumps are where their two bytes are.
JumpsNoted(at, requests, places) ==
  /\ \A k \in 1 .. Len(requests) : Jumps(requests[k]) =>
       at[k] - 2 \in DOMAIN places /\ places[at[k] - 2] = requests[k].label
  /\ \A place \in DOMAIN places :
       \E k \in 1 .. Len(requests) : Jumps(requests[k]) /\ place = at[k] - 2

Mark(requests, label) ==
  {k \in 1 .. Len(requests) : Marks(requests[k]) /\ requests[k].label = label}

\* A label is behind its last NOP, and one that was only looked up at 0.
LabelsNoted(at, requests, locations) ==
  /\ \A label : \A k \in Mark(requests, label) :
       /\ label \in DOMAIN locations
       /\ \E l \in Mark(requests, label) :
            locations[label] = at[l] /\ \A i \in Mark(requests, label) : i <= l
  /\ \A label \in DOMAIN locations : Mark(requests, label) = {} => locations[label] = 0

\* The script is made of the requests.
Made(at, requests, bytes, places, locations) ==
  /\ Layout(at, Pieces(requests), bytes)
  /\ JumpsNoted(at, requests, places) /\ LabelsNoted(at, requests, locations)

Inv ==
  /\ requested \in Seq(Requests) /\ writer \in Seq(Nat)
  /\ \E at : Made(at, requested, writer, _jumpLocations, _labelLocations)

LEMMA PiecesType ==
  ASSUME NEW requests \in Seq(Requests)
  PROVE  /\ Pieces(requests) \in Seq(Seq(Nat)) /\ Len(Pieces(requests)) = Len(requests)
         /\ \A k \in 1 .. Len(requests) :
              /\ Pieces(requests)[k] = Written(requests[k])
              /\ requests[k] \in Requests
              /\ Len(Pieces(requests)[k]) > 0
  <1>1. \A k \in 1 .. Len(requests) : requests[k] \in Requests
    OBVIOUS
  <1>2. \A k \in 1 .. Len(requests) : Written(requests[k]) \in Seq(Nat) /\ Len(Written(requests[k])) > 0
    BY <1>1, WrittenType
  <1>3. Pieces(requests) \in Seq(Seq(Nat)) /\ Len(Pieces(requests)) = Len(requests)
    BY <1>2 DEF Pieces
  <1>4. \A k \in 1 .. Len(requests) : Pieces(requests)[k] = Written(requests[k])
    BY DEF Pieces
  <1>. QED
    BY <1>1, <1>2, <1>3, <1>4

LEMMA PiecesJoined ==
  ASSUME NEW a \in Seq(Requests), NEW b \in Seq(Requests)
  PROVE  Pieces(a \o b) = Pieces(a) \o Pieces(b)
  <1>. DEFINE s == Pieces(a \o b)
              t == Pieces(a) \o Pieces(b)
              m == Len(a)
              n == Len(b)
  <1>1. a \o b \in Seq(Requests) /\ Len(a \o b) = m + n /\ m \in Nat /\ n \in Nat
    OBVIOUS
  <1>2. s \in Seq(Seq(Nat)) /\ Len(s) = m + n
    BY <1>1, PiecesType
  <1>3. t \in Seq(Seq(Nat)) /\ Len(t) = m + n
    <2>. DEFINE p == Pieces(a)
                q == Pieces(b)
    <2>1. p \in Seq(Seq(Nat)) /\ q \in Seq(Seq(Nat)) /\ Len(p) = m /\ Len(q) = n
      BY PiecesType
    <2>. HIDE DEF p, q, m, n
    <2>2. p \o q \in Seq(Seq(Nat)) /\ Len(p \o q) = m + n
      BY <2>1
    <2>. QED
      BY <2>2 DEF p, q
  <1>4. ASSUME NEW k \in 1 .. m + n
        PROVE  s[k] = t[k]
    <2>1. s[k] = Written((a \o b)[k])
      BY <1>1, PiecesType
    <2>2. CASE k <= m
      <3>1. k \in 1 .. m
        BY <1>1, <2>2
      <3>2. (a \o b)[k] = a[k]
        BY <3>1, Joined
      <3>3. t[k] = Pieces(a)[k]
        BY <3>1, PiecesType, Joined
      <3>4. Pieces(a)[k] = Written(a[k])
        BY <3>1, PiecesType
      <3>. QED
        BY <2>1, <3>2, <3>3, <3>4
    <2>3. CASE ~(k <= m)
      <3>. DEFINE l == k - m
      <3>1. l \in 1 .. n /\ k = m + l
        BY <1>1, <2>3
      <3>. HIDE DEF l
      <3>2. (a \o b)[m + l] = b[l]
        BY <3>1, Joined
      <3>3. t[m + l] = Pieces(b)[l]
        BY <3>1, PiecesType, Joined
      <3>4. Pieces(b)[l] = Written(b[l])
        BY <3>1, PiecesType
      <3>. QED
        BY <2>1, <3>1, <3>2, <3>3, <3>4
    <2>. QED
      BY <2>2, <2>3
  <1>. HIDE DEF s, t, m, n
  <1>5. s = t
    BY <1>2, <1>3, <1>4, SeqEqual
  <1>. QED
    BY <1>5 DEF s, t

\* More requests after those made.
LEMMA PlacesGrow ==
  ASSUME NEW a \in Seq(Requests), NEW b \in Seq(Requests), NEW v \in Seq(Nat), NEW w \in Seq(Nat),
         NEW at, NEW bt, Layout(at, Pieces(a), v), Layout(bt, Pieces(b), w)
  PROVE  \E ct : Layout(ct, Pieces(a \o b), v \o w) /\ Grown(ct, at, Len(a), bt, Len(b), Len(v))
  <1>. DEFINE p == Pieces(a)
              q == Pieces(b)
  <1>1. p \in Seq(Seq(Nat)) /\ q \in Seq(Seq(Nat)) /\ Len(p) = Len(a) /\ Len(q) = Len(b)
    BY PiecesType
  <1>2. Layout(at, p, v) /\ Layout(bt, q, w)
    OBVIOUS
  <1>. HIDE DEF p, q
  <1>3. \E ct : Layout(ct, p \o q, v \o w) /\ Grown(ct, at, Len(p), bt, Len(q), Len(v))
    <2>1. p \in Seq(Seq(Nat)) /\ q \in Seq(Seq(Nat)) /\ v \in Seq(Nat) /\ w \in Seq(Nat)
      BY <1>1
    <2>. QED
      BY <1>2, <2>1, LayoutJoined
  <1>4. p \o q = Pieces(a \o b)
    BY PiecesJoined DEF p, q
  <1>. QED
    BY <1>1, <1>3, <1>4

\* The numbers up to m + n.
LEMMA Halves ==
  ASSUME NEW m \in Nat, NEW n \in Nat, NEW k \in 1 .. m + n
  PROVE  k \in 1 .. m \/ \E l \in 1 .. n : k = m + l
  <1>1. CASE k <= m
    BY <1>1
  <1>2. CASE ~(k <= m)
    <2>1. k - m \in 1 .. n /\ k = m + (k - m)
      BY <1>2
    <2>. QED
      BY <2>1
  <1>. QED
    BY <1>1, <1>2

\* Requests without jumps and labels; locations may gain labels at 0.
LEMMA SimpleStep ==
  ASSUME NEW a \in Seq(Requests), NEW v \in Seq(Nat), NEW places, NEW locations, NEW at,
         Made(at, a, v, places, locations),
         NEW b \in Seq(Requests), \A k \in 1 .. Len(b) : ~Jumps(b[k]) /\ ~Marks(b[k]),
         NEW w \in Seq(Nat), NEW bt, Layout(bt, Pieces(b), w),
         NEW next, DOMAIN locations \subseteq DOMAIN next,
         \A label \in DOMAIN next :
           next[label] = IF label \in DOMAIN locations THEN locations[label] ELSE 0
  PROVE  \E ct : Made(ct, a \o b, v \o w, places, next)
  <1>. DEFINE m == Len(a)
              n == Len(b)
              c == a \o b
  <1>1. m \in Nat /\ n \in Nat /\ c \in Seq(Requests) /\ Len(c) = m + n
    OBVIOUS
  <1>9. Layout(at, Pieces(a), v)
    BY DEF Made
  <1>10. PICK ct : Layout(ct, Pieces(c), v \o w) /\ Grown(ct, at, m, bt, n, Len(v))
    BY <1>9, PlacesGrow
  <1>2. /\ \A k \in 1 .. m : ct[k] = at[k] /\ c[k] = a[k]
        /\ \A k \in 1 .. n : c[m + k] = b[k]
    <2>1. \A k \in 1 .. m : k \in 0 .. m
      BY <1>1
    <2>. QED
      BY <1>10, <2>1, Joined DEF Grown
  <1>3. \A k \in 1 .. n : ~Jumps(b[k]) /\ ~Marks(b[k])
    OBVIOUS
  <1>. HIDE DEF m, n, c
  <1>4. \A k \in 1 .. m : k \in 1 .. m + n
    BY <1>1
  <1>5. ASSUME NEW k \in 1 .. m + n, Jumps(c[k]) \/ Marks(c[k])
        PROVE  k \in 1 .. m
    <2>. SUFFICES ASSUME k \notin 1 .. m PROVE FALSE
      OBVIOUS
    <2>1. PICK l \in 1 .. n : k = m + l
      BY <1>1, Halves
    <2>2. c[k] = b[l]
      BY <1>2, <2>1
    <2>. QED
      BY <1>3, <1>5, <2>2
  <1>6. JumpsNoted(ct, c, places)
    <2>1. JumpsNoted(at, a, places)
      BY DEF Made
    <2>2. ASSUME NEW k \in 1 .. m + n, Jumps(c[k])
          PROVE  ct[k] - 2 \in DOMAIN places /\ places[ct[k] - 2] = c[k].label
      <3>1. k \in 1 .. m /\ ct[k] = at[k] /\ c[k] = a[k]
        BY <1>2, <1>5, <2>2
      <3>. QED
        BY <2>1, <2>2, <3>1 DEF JumpsNoted, m
    <2>3. ASSUME NEW place \in DOMAIN places
          PROVE  \E k \in 1 .. m + n : Jumps(c[k]) /\ place = ct[k] - 2
      <3>1. PICK k \in 1 .. m : Jumps(a[k]) /\ place = at[k] - 2
        BY <2>1 DEF JumpsNoted, m
      <3>. QED
        BY <1>2, <1>4, <3>1
    <2>. QED
      BY <1>1, <2>2, <2>3 DEF JumpsNoted
  <1>7. \A label : Mark(c, label) = Mark(a, label)
    <2>1. ASSUME NEW label, NEW k \in Mark(c, label)
          PROVE  k \in Mark(a, label)
      <3>1. k \in 1 .. m + n /\ Marks(c[k]) /\ c[k].label = label
        BY <1>1 DEF Mark
      <3>2. k \in 1 .. m
        BY <1>5, <3>1
      <3>. QED
        BY <1>2, <3>1, <3>2 DEF Mark, m
    <2>2. ASSUME NEW label, NEW k \in Mark(a, label)
          PROVE  k \in Mark(c, label)
      <3>1. k \in 1 .. m /\ Marks(a[k]) /\ a[k].label = label
        BY DEF Mark, m
      <3>. QED
        BY <1>1, <1>2, <1>4, <3>1 DEF Mark
    <2>3. ASSUME NEW label
          PROVE  Mark(c, label) = Mark(a, label)
      <3>1. Mark(c, label) \subseteq Mark(a, label)
        BY <2>1
      <3>2. Mark(a, label) \subseteq Mark(c, label)
        BY <2>2
      <3>. QED
        BY <3>1, <3>2
    <2>. QED
      BY <2>3
  <1>8. LabelsNoted(ct, c, next)
    <2>1. LabelsNoted(at, a, locations)
      BY DEF Made
    <2>2. ASSUME NEW label, NEW k \in Mark(c, label)
          PROVE  /\ label \in DOMAIN next
                 /\ \E l \in Mark(c, label) :
                      next[label] = ct[l] /\ \A i \in Mark(c, label) : i <= l
      <3>1. k \in Mark(a, label)
        BY <1>7
      <3>2. label \in DOMAIN locations
        BY <2>1, <3>1 DEF LabelsNoted
      <3>3. PICK l \in Mark(a, label) :
              locations[label] = at[l] /\ \A i \in Mark(a, label) : i <= l
        BY <2>1, <3>1 DEF LabelsNoted
      <3>4. ct[l] = at[l]
        BY <1>2 DEF Mark, m
      <3>5. label \in DOMAIN next /\ next[label] = locations[label]
        BY <3>2
      <3>. QED
        BY <1>7, <3>3, <3>4, <3>5
    <2>3. ASSUME NEW label \in DOMAIN next, Mark(c, label) = {}
          PROVE  next[label] = 0
      <3>1. Mark(a, label) = {}
        BY <1>7, <2>3
      <3>2. label \in DOMAIN locations => locations[label] = 0
        BY <2>1, <3>1 DEF LabelsNoted
      <3>. QED
        BY <3>2
    <2>. QED
      BY <2>2, <2>3 DEF LabelsNoted
  <1>. QED
    BY <1>10, <1>6, <1>8 DEF Made, c

\* One more request, that may jump or be a label.
LEMMA PrimitiveStep ==
  ASSUME NEW a \in Seq(Requests), NEW v \in Seq(Nat), NEW places, NEW locations, NEW at,
         Made(at, a, v, places, locations), NEW r \in Requests, NEW end,
         end = Len(v) + Len(Written(r)), NEW nextPlaces, NEW nextLocations,
         nextPlaces = IF Jumps(r) THEN Assigned(places, end - 2, r.label) ELSE places,
         nextLocations = IF Marks(r) THEN Assigned(locations, r.label, end) ELSE locations
  PROVE  \E ct : Made(ct, a \o <<r>>, v \o Written(r), nextPlaces, nextLocations)
  <1>. DEFINE m == Len(a)
              b == <<r>>
              c == a \o b
              w == Written(r)
              bt == [k \in 0 .. 1 |-> IF k = 0 THEN 0 ELSE Len(w)]
  <1>1. m \in Nat /\ b \in Seq(Requests) /\ Len(b) = 1 /\ c \in Seq(Requests) /\ Len(c) = m + 1
    OBVIOUS
  <1>2. w \in Seq(Nat) /\ Len(w) \in Nat /\ Len(v) \in Nat
    BY WrittenType
  <1>3. Pieces(b) = <<w>>
    BY DEF Pieces
  <1>4. Layout(at, Pieces(a), v)
    BY DEF Made
  <1>. HIDE DEF w, b
  <1>5. Layout(bt, Pieces(b), w)
    BY <1>2, <1>3, LayoutOfOne
  <1>6. bt[1] = Len(w)
    OBVIOUS
  <1>. HIDE DEF bt
  <1>7. PICK ct : Layout(ct, Pieces(c), v \o w) /\ Grown(ct, at, m, bt, Len(b), Len(v))
    BY <1>1, <1>2, <1>4, <1>5, PlacesGrow
  <1>8. ct[m + 1] = end
    BY <1>1, <1>6, <1>7 DEF Grown, w
  <1>9. c[m + 1] = r
    BY <1>1, Joined DEF b
  <1>10. \A k \in 1 .. m : ct[k] = at[k] /\ c[k] = a[k]
    <2>1. \A k \in 1 .. m : k \in 0 .. m
      BY <1>1
    <2>. QED
      BY <1>1, <1>7, <2>1, Joined DEF Grown
  <1>11. \A i \in 1 .. m : ct[i] < ct[m + 1] /\ ct[i] \in Nat /\ ct[m + 1] \in Nat
    <2>. DEFINE p == Pieces(c)
    <2>1. p \in Seq(Seq(Nat)) /\ Len(p) = m + 1 /\ \A k \in 1 .. Len(p) : Len(p[k]) > 0
      BY <1>1, PiecesType
    <2>2. Layout(ct, p, v \o w)
      BY <1>7
    <2>. HIDE DEF p, c
    <2>3. \A i, k \in 0 .. Len(p) : i < k => ct[i] < ct[k]
      BY <2>1, <2>2, LayoutIncreases
    <2>4. ct \in [0 .. m + 1 -> Nat]
      BY <2>1, <2>2 DEF Layout
    <2>. HIDE DEF m
    <2>5. ASSUME NEW i \in 1 .. m
          PROVE  i \in 0 .. Len(p) /\ m + 1 \in 0 .. Len(p) /\ i < m + 1
      BY <1>1, <2>1
    <2>6. \A i \in 0 .. Len(p) : ct[i] \in Nat
      BY <2>1, <2>4
    <2>. QED
      BY <2>3, <2>5, <2>6
  <1>12. \A k \in 1 .. m + 1 : k \in 1 .. m \/ k = m + 1
    BY <1>1
  <1>13. m + 1 \in 1 .. m + 1 /\ \A k \in 1 .. m : k \in 1 .. m + 1
    BY <1>1
  <1>. HIDE DEF c
  <1>14. JumpsNoted(at, a, places) /\ LabelsNoted(at, a, locations)
    BY DEF Made
  <1>15. JumpsNoted(ct, c, nextPlaces)
    <2>1. ASSUME NEW k \in 1 .. m, Jumps(c[k])
          PROVE  ct[k] - 2 \in DOMAIN nextPlaces /\ nextPlaces[ct[k] - 2] = c[k].label
      <3>1. at[k] - 2 \in DOMAIN places /\ places[at[k] - 2] = a[k].label
        BY <1>10, <1>14, <2>1 DEF JumpsNoted, m
      <3>2. ct[k] - 2 # end - 2
        BY <1>8, <1>11
      <3>. QED
        BY <1>10, <3>1, <3>2 DEF Assigned
    <2>2. ASSUME Jumps(r)
          PROVE  end - 2 \in DOMAIN nextPlaces /\ nextPlaces[end - 2] = r.label
      BY <2>2 DEF Assigned
    <2>3. ASSUME NEW place \in DOMAIN nextPlaces
          PROVE  \E k \in 1 .. m + 1 : Jumps(c[k]) /\ place = ct[k] - 2
      <3>1. CASE place \in DOMAIN places
        <4>1. PICK k \in 1 .. m : Jumps(a[k]) /\ place = at[k] - 2
          BY <1>14, <3>1 DEF JumpsNoted, m
        <4>. QED
          BY <1>10, <1>13, <4>1
      <3>2. CASE place \notin DOMAIN places
        <4>1. Jumps(r) /\ place = end - 2
          BY <2>3, <3>2 DEF Assigned
        <4>. QED
          BY <1>8, <1>9, <1>13, <4>1
      <3>. QED
        BY <3>1, <3>2
    <2>4. ASSUME NEW k \in 1 .. m + 1, Jumps(c[k])
          PROVE  ct[k] - 2 \in DOMAIN nextPlaces /\ nextPlaces[ct[k] - 2] = c[k].label
      <3>1. CASE k \in 1 .. m
        BY <2>1, <2>4, <3>1
      <3>2. CASE k = m + 1
        BY <1>8, <1>9, <2>2, <2>4, <3>2
      <3>. QED
        BY <1>12, <3>1, <3>2
    <2>. QED
      BY <1>1, <2>3, <2>4 DEF JumpsNoted
  <1>16. ASSUME NEW label, ~(Marks(r) /\ r.label = label)
         PROVE  Mark(c, label) = Mark(a, label)
    <2>1. ASSUME NEW k \in Mark(c, label)
          PROVE  k \in Mark(a, label)
      <3>1. k \in 1 .. m + 1 /\ Marks(c[k]) /\ c[k].label = label
        BY <1>1 DEF Mark
      <3>2. k # m + 1
        BY <1>9, <1>16, <3>1
      <3>3. k \in 1 .. m
        BY <1>12, <3>1, <3>2
      <3>. QED
        BY <1>10, <3>1, <3>3 DEF Mark, m
    <2>2. ASSUME NEW k \in Mark(a, label)
          PROVE  k \in Mark(c, label)
      <3>1. k \in 1 .. m /\ Marks(a[k]) /\ a[k].label = label
        BY DEF Mark, m
      <3>. QED
        BY <1>1, <1>10, <1>13, <3>1 DEF Mark
    <2>3. Mark(c, label) \subseteq Mark(a, label) /\ Mark(a, label) \subseteq Mark(c, label)
      BY <2>1, <2>2
    <2>. QED
      BY <2>3
  <1>17. LabelsNoted(ct, c, nextLocations)
    <2>1. ASSUME NEW label, NEW k \in Mark(c, label)
          PROVE  /\ label \in DOMAIN nextLocations
                 /\ \E l \in Mark(c, label) :
                      nextLocations[label] = ct[l] /\ \A i \in Mark(c, label) : i <= l
      <3>1. CASE Marks(r) /\ r.label = label
        <4>1. label \in DOMAIN nextLocations /\ nextLocations[label] = end
          BY <3>1 DEF Assigned
        <4>2. m + 1 \in Mark(c, label)
          BY <1>1, <1>9, <1>13, <3>1 DEF Mark
        <4>3. \A i \in Mark(c, label) : i <= m + 1
          BY <1>1 DEF Mark
        <4>. QED
          BY <1>8, <4>1, <4>2, <4>3
      <3>2. CASE ~(Marks(r) /\ r.label = label)
        <4>1. Mark(c, label) = Mark(a, label)
          BY <1>16, <3>2
        <4>2. label \in DOMAIN locations
          BY <1>14, <4>1 DEF LabelsNoted
        <4>3. PICK l \in Mark(a, label) :
                locations[label] = at[l] /\ \A i \in Mark(a, label) : i <= l
          BY <1>14, <4>1 DEF LabelsNoted
        <4>4. ct[l] = at[l]
          BY <1>10 DEF Mark, m
        <4>5. label \in DOMAIN nextLocations /\ nextLocations[label] = locations[label]
          BY <3>2, <4>2 DEF Assigned
        <4>. QED
          BY <4>1, <4>3, <4>4, <4>5
      <3>. QED
        BY <3>1, <3>2
    <2>2. ASSUME NEW label \in DOMAIN nextLocations, Mark(c, label) = {}
          PROVE  nextLocations[label] = 0
      <3>1. ~(Marks(r) /\ r.label = label)
        BY <1>1, <1>9, <1>13, <2>2 DEF Mark
      <3>2. Mark(a, label) = {}
        BY <1>16, <2>2, <3>1
      <3>3. label \in DOMAIN locations /\ nextLocations[label] = locations[label]
        BY <2>2, <3>1 DEF Assigned
      <3>. QED
        BY <1>14, <3>2, <3>3 DEF LabelsNoted
    <2>. QED
      BY <2>1, <2>2 DEF LabelsNoted
  <1>. QED
    BY <1>7, <1>15, <1>17 DEF Made, c, b, w

-----------------------------------------------------------------------------
\* The steps.

LEMMA InitMade == Init => Inv
  <1>. SUFFICES ASSUME Init PROVE Inv
    OBVIOUS
  <1>. DEFINE at == [k \in 0 .. 0 |-> 0]
  <1>1. /\ requested = <<>> /\ writer = <<>> /\ _jumpLocations = [place \in {} |-> ""]
        /\ _labelLocations = [label \in {} |-> 0]
    BY DEF Init
  <1>2. requested \in Seq(Requests) /\ writer \in Seq(Nat) /\ Len(requested) = 0 /\ Len(writer) = 0
    BY <1>1
  <1>3. Pieces(requested) = <<>> /\ Len(Pieces(requested)) = 0
    BY <1>1 DEF Pieces
  <1>4. Layout(at, Pieces(requested), writer)
    BY <1>2, <1>3 DEF Layout
  <1>5. JumpsNoted(at, requested, _jumpLocations)
    BY <1>1, <1>2 DEF JumpsNoted
  <1>6. LabelsNoted(at, requested, _labelLocations)
    BY <1>1, <1>2 DEF LabelsNoted, Mark
  <1>. QED
    BY <1>2, <1>4, <1>5, <1>6 DEF Inv, Made

\* Where a request is noted is behind what it writes.
LEMMA Noted ==
  ASSUME NEW r \in Requests, writer \in Seq(Nat)
  PROVE  /\ Jumps(r) => JumpPlace(r) = Len(writer) + Len(Written(r)) - 2
         /\ Marks(r) => LabelPlace(r) = Len(writer) + Len(Written(r))
  <1>1. Len(writer) \in Nat /\ Len(Start(r)) = Len(r.operands) + 1 /\ Len(r.operands) \in Nat
    BY WrittenType, Forms
  <1>2. ASSUME Jumps(r)
        PROVE  JumpPlace(r) = Len(writer) + Len(Written(r)) - 2
    <2>1. Len(Written(r)) = Len(Start(r)) + 2
      BY <1>2, WrittenType
    <2>2. CASE r.form = "Jump"
      BY <1>1, <2>1, <2>2 DEF JumpPlace, PlaceReached
    <2>3. CASE r.form # "Jump"
      <3>1. ~Refused(r) /\ r.form \in {"Condition", "Call"}
        BY <1>2, <2>3 DEF Jumps
      <3>2. r.op \in Operations[r.form] /\ Len(r.operands) = OperandCount(r.op)
        BY <3>1 DEF Requests
      <3>3. r.op \in {"JMPIF", "JMPNOT", "CALL"}
        BY <3>1, <3>2 DEF Operations
      <3>4. Len(r.operands) = 1
        BY <3>2, <3>3 DEF OperandCount, Unary, Binary, Ternary
      <3>. QED
        BY <1>1, <2>1, <2>3, <3>4 DEF JumpPlace, PlaceAhead
    <2>. QED
      BY <2>2, <2>3
  <1>3. ASSUME Marks(r)
        PROVE  LabelPlace(r) = Len(writer) + Len(Written(r))
    <2>1. ~Refused(r)
      BY <1>3 DEF Marks, Refused
    <2>2. r.op \in Operations["Label"]
      BY <1>3, <2>1 DEF Marks, Requests
    <2>3. r.op = "NOP"
      BY <2>2 DEF Operations
    <2>4. Written(r) = Start(r)
      BY <2>1, <2>3, WrittenForms DEF WithLength, WithData, WithPlace
    <2>. QED
      BY <2>4 DEF LabelPlace
  <1>. QED
    BY <1>2, <1>3

LEMMA PrimitiveMade ==
  ASSUME Inv, NEW r \in Requests, EmitPrimitive(r)
  PROVE  Inv'
  <1>1. PICK at : Made(at, requested, writer, _jumpLocations, _labelLocations)
    BY DEF Inv
  <1>2. requested \in Seq(Requests) /\ writer \in Seq(Nat) /\ Written(r) \in Seq(Nat)
    BY WrittenType DEF Inv
  <1>. DEFINE end == Len(writer) + Len(Written(r))
  <1>3. /\ requested' = requested \o <<r>> /\ writer' = writer \o Written(r)
        /\ _jumpLocations' = IF Jumps(r) THEN Assigned(_jumpLocations, end - 2, r.label)
                             ELSE _jumpLocations
        /\ _labelLocations' = IF Marks(r) THEN Assigned(_labelLocations, r.label, end)
                              ELSE _labelLocations
    <2>1. requested' = requested \o <<r>>
      BY <1>2 DEF EmitPrimitive
    <2>. QED
      BY <1>2, <2>1, Noted DEF EmitPrimitive
  <1>. HIDE DEF end
  <1>4. \E ct : Made(ct, requested \o <<r>>, writer \o Written(r), _jumpLocations', _labelLocations')
    BY <1>1, <1>2, <1>3, PrimitiveStep DEF end
  <1>5. requested' \in Seq(Requests) /\ writer' \in Seq(Nat)
    BY <1>2, <1>3
  <1>. QED
    BY <1>3, <1>4, <1>5 DEF Inv

LEMMA SimpleNotNoted ==
  ASSUME NEW r \in Simple
  PROVE  r \in Requests /\ ~Jumps(r) /\ ~Marks(r)
  BY DEF Simple, Jumps, Marks

\* A call: its requests one behind the other.
LEMMA StepMade ==
  ASSUME Inv, NEW requests \in Seq(Simple), NEW calls, Step(requests, calls)
  PROVE  Inv'
  <1>1. PICK at : Made(at, requested, writer, _jumpLocations, _labelLocations)
    BY DEF Inv
  <1>2. requested \in Seq(Requests) /\ writer \in Seq(Nat)
    BY DEF Inv
  <1>3. requests \in Seq(Requests) /\ \A k \in 1 .. Len(requests) : ~Jumps(requests[k]) /\ ~Marks(requests[k])
    <2>1. \A k \in 1 .. Len(requests) : requests[k] \in Simple
      OBVIOUS
    <2>. QED
      BY <2>1, SimpleNotNoted
  <1>. DEFINE w == WrittenAll(requests)
  <1>4. w = FlattenSeq(Pieces(requests))
    BY DEF WrittenAll, Pieces
  <1>5. Pieces(requests) \in Seq(Seq(Nat))
    BY <1>3, PiecesType
  <1>6. w \in Seq(Nat) /\ \E bt : Layout(bt, Pieces(requests), w)
    BY <1>4, <1>5, FlattenIs
  <1>. HIDE DEF w
  <1>7. \E ct : Made(ct, requested \o requests, writer \o w, _jumpLocations, _labelLocations)
    BY <1>1, <1>2, <1>3, <1>6, SimpleStep
  <1>8. /\ requested' = requested \o requests /\ writer' = writer \o w
        /\ _jumpLocations' = _jumpLocations /\ _labelLocations' = _labelLocations
    BY DEF Step, w
  <1>. QED
    BY <1>2, <1>3, <1>6, <1>7, <1>8 DEF Inv

LEMMA EndMade ==
  ASSUME Inv, EndScript
  PROVE  Inv'
  <1>1. PICK at : Made(at, requested, writer, _jumpLocations, _labelLocations)
    BY DEF Inv
  <1>2. requested \in Seq(Requests) /\ writer \in Seq(Nat)
    BY DEF Inv
  <1>. DEFINE r == Emit("RET", <<>>)
              w == Written(r)
              b == <<r>>
              bt == [k \in 0 .. 1 |-> IF k = 0 THEN 0 ELSE Len(w)]
              next == _labelLocations'
  <1>3. r \in Simple
    <2>1. /\ "RET" \in Known \ (WithLength \cup WithData \cup WithPlace)
          /\ OperandCount("RET") = 0
      BY DEF Known, Bare, Unary, Binary, Ternary, WithLength, WithData, WithPlace, OperandCount
    <2>2. <<>> \in Seq(Nat) /\ Len(<<>>) = 0
      OBVIOUS
    <2>. QED
      BY <2>1, <2>2, EmitSimple
  <1>4. r \in Requests /\ ~Jumps(r) /\ ~Marks(r)
    BY <1>3, SimpleNotNoted
  <1>5. /\ requested' = Append(requested, r) /\ writer' = writer \o w
        /\ _jumpLocations' = _jumpLocations
        /\ next = [label \in DOMAIN _labelLocations \cup LookedUp |->
                     IF label \in DOMAIN _labelLocations THEN _labelLocations[label] ELSE 0]
    BY DEF EndScript
  <1>. HIDE DEF r
  <1>6. w \in Seq(Nat)
    BY <1>4, WrittenType
  <1>7. b \in Seq(Requests) /\ Len(b) = 1 /\ \A k \in 1 .. Len(b) : ~Jumps(b[k]) /\ ~Marks(b[k])
    BY <1>4
  <1>8. Pieces(b) = <<w>>
    BY DEF Pieces
  <1>. HIDE DEF w
  <1>9. requested' = requested \o b
    BY <1>2, <1>4, <1>5
  <1>. HIDE DEF b, next
  <1>10. Layout(bt, Pieces(b), w)
    BY <1>6, <1>8, LayoutOfOne
  <1>. HIDE DEF bt
  <1>11. /\ DOMAIN _labelLocations \subseteq DOMAIN next
         /\ \A label \in DOMAIN next :
              next[label] = IF label \in DOMAIN _labelLocations THEN _labelLocations[label] ELSE 0
    BY <1>5
  <1>12. \E ct : Made(ct, requested \o b, writer \o w, _jumpLocations, next)
    BY <1>1, <1>2, <1>6, <1>7, <1>10, <1>11, SimpleStep
  <1>13. requested' \in Seq(Requests) /\ writer' \in Seq(Nat)
    BY <1>2, <1>5, <1>6, <1>7, <1>9
  <1>. QED
    BY <1>5, <1>9, <1>12, <1>13 DEF Inv, next

\* The invariant is inductive.
LEMMA InvHolds == Spec => []Inv
  <1>1. Init => Inv
    BY InitMade
  <1>2. Inv /\ [Next]_vars => Inv'
    <2>. SUFFICES ASSUME Inv, [Next]_vars PROVE Inv'
      OBVIOUS
    <2>1. ASSUME NEW r \in Primitives, EmitPrimitive(r)
          PROVE  Inv'
      BY <2>1, RequestsAssumption, PrimitiveMade
    <2>2. ASSUME NEW c \in Calls, Call(c)
          PROVE  Inv'
      BY <2>2, CallRequestsType, StepMade DEF Call
    <2>3. ASSUME NEW n \in Nfts, Reads(n.symbol, n.id, n.rom_reg)
          PROVE  Inv'
      BY <2>3, NftRequestsType, StepMade DEF Reads
    <2>4. ASSUME NEW n \in Nfts, Writes(n.symbol, n.id, n.rom_reg)
          PROVE  Inv'
      BY <2>4, NftRequestsType, StepMade DEF Writes
    <2>5. ASSUME NEW n \in Nfts, Mints(n.symbol, n.from, n.to, n.rom_reg, n.ram_reg)
          PROVE  Inv'
      BY <2>5, NftRequestsType, StepMade DEF Mints
    <2>6. ASSUME NEW n \in Nfts, MintsIncrementing(n.id, n.symbol, n.from, n.to, n.rom, n.ram)
          PROVE  Inv'
      BY <2>6, NftRequestsType, StepMade DEF MintsIncrementing
    <2>7. CASE EndScript
      BY <2>7, EndMade
    <2>8. CASE UNCHANGED vars
      BY <2>8 DEF vars, Inv
    <2>. QED
      BY <2>1, <2>2, <2>3, <2>4, <2>5, <2>6, <2>7, <2>8 DEF Next
  <1>. QED
    BY <1>1, <1>2, PTL DEF Spec

-----------------------------------------------------------------------------
\* The script.

\* No two pieces have a cell in common.
LEMMA CellsApart ==
  ASSUME NEW n \in Nat, NEW at \in [0 .. n -> Nat], \A i, k \in 0 .. n : i < k => at[i] < at[k],
         NEW k \in 1 .. n, NEW l \in 1 .. n, NEW i \in Nat,
         at[k - 1] < i, i <= at[k], at[l - 1] < i, i <= at[l]
  PROVE  k = l
  <1>1. ASSUME NEW x \in 1 .. n, NEW y \in 1 .. n, x < y
        PROVE  at[x] \in Nat /\ at[y - 1] \in Nat /\ at[x] <= at[y - 1]
    <2>1. x \in 0 .. n /\ y - 1 \in 0 .. n /\ (x = y - 1 \/ x < y - 1)
      BY <1>1
    <2>2. at[x] \in Nat /\ at[y - 1] \in Nat
      BY <2>1
    <2>. QED
      BY <2>1, <2>2, SMTT(30)
  <1>2. ~(k < l)
    BY <1>1
  <1>3. ~(l < k)
    BY <1>1
  <1>. QED
    BY <1>2, <1>3

\* Where a label leads: behind its last NOP.
LEMMA ResolvedIs ==
  ASSUME NEW at, Made(at, requested, writer, _jumpLocations, _labelLocations),
         requested \in Seq(Requests), writer \in Seq(Nat), Len(writer) < Values(2), NEW label
  PROVE  /\ Resolved(label) \in Nat /\ Resolved(label) < Values(2)
         /\ Mark(requested, label) = {} => Resolved(label) = 0
         /\ \A k \in Mark(requested, label) : \E l \in Mark(requested, label) :
              Resolved(label) = at[l] /\ \A i \in Mark(requested, label) : i <= l
  <1>1. Values(2) \in Nat /\ Values(2) > 0
    BY ValuesType
  <1>2. LabelsNoted(at, requested, _labelLocations)
    BY DEF Made
  <1>3. \A l \in 1 .. Len(requested) : at[l] \in Nat /\ at[l] < Values(2)
    <2>. DEFINE p == Pieces(requested)
    <2>1. p \in Seq(Seq(Nat)) /\ Len(p) = Len(requested) /\ Layout(at, p, writer)
      BY PiecesType DEF Made
    <2>. HIDE DEF p
    <2>2. \A k \in 0 .. Len(p) : at[k] \in Nat /\ at[k] <= Len(writer)
      BY <2>1, LayoutEnds
    <2>3. Len(requested) \in Nat /\ Len(writer) \in Nat
      OBVIOUS
    <2>4. \A l \in 1 .. Len(requested) : l \in 0 .. Len(p)
      BY <2>1, <2>3
    <2>. QED
      BY <1>1, <2>2, <2>3, <2>4
  <1>4. ASSUME NEW k \in Mark(requested, label)
        PROVE  \E l \in Mark(requested, label) :
                 /\ Resolved(label) = at[l] /\ at[l] \in Nat /\ at[l] < Values(2)
                 /\ \A i \in Mark(requested, label) : i <= l
    <2>1. label \in DOMAIN _labelLocations
      BY <1>2 DEF LabelsNoted
    <2>2. PICK l \in Mark(requested, label) :
            _labelLocations[label] = at[l] /\ \A i \in Mark(requested, label) : i <= l
      BY <1>2 DEF LabelsNoted
    <2>3. at[l] \in Nat /\ at[l] < Values(2)
      BY <1>3 DEF Mark
    <2>. DEFINE x == at[l]
                v == Values(2)
    <2>4. x % v = x
      <3>1. x \in Nat /\ v \in Nat /\ x < v
        BY <1>1, <2>3
      <3>. HIDE DEF x, v
      <3>. QED
        BY <3>1
    <2>5. Resolved(label) = at[l]
      BY <2>1, <2>2, <2>4 DEF Resolved
    <2>. QED
      BY <2>2, <2>3, <2>5
  <1>5. ASSUME Mark(requested, label) = {}
        PROVE  Resolved(label) = 0
    <2>1. CASE label \in DOMAIN _labelLocations
      <3>1. _labelLocations[label] = 0
        BY <1>2, <1>5, <2>1 DEF LabelsNoted
      <3>. DEFINE v == Values(2)
      <3>2. 0 % v = 0
        <4>1. v \in Nat /\ v > 0
          BY <1>1
        <4>. HIDE DEF v
        <4>. QED
          BY <4>1
      <3>. QED
        BY <2>1, <3>1, <3>2 DEF Resolved
    <2>2. CASE label \notin DOMAIN _labelLocations
      BY <2>2 DEF Resolved
    <2>. QED
      BY <2>1, <2>2
  <1>6. CASE Mark(requested, label) = {}
    BY <1>1, <1>5, <1>6
  <1>7. CASE Mark(requested, label) # {}
    BY <1>4, <1>7
  <1>. QED
    BY <1>6, <1>7

LEMMA DigitsType ==
  ASSUME NEW n \in Nat
  PROVE  n % Base \in Nat /\ n \div Base \in Nat
  <1>1. Base \in Nat \ {0}
    BY BaseAssumption
  <1>. QED
    BY <1>1, Divided

LEMMA ToScriptType ==
  ASSUME NEW at, Made(at, requested, writer, _jumpLocations, _labelLocations),
         requested \in Seq(Requests), writer \in Seq(Nat), Len(writer) < Values(2)
  PROVE  ToScript \in Seq(Nat) /\ Len(ToScript) = Len(writer)
  <1>1. ASSUME NEW label
        PROVE  Resolved(label) % Base \in Nat /\ Resolved(label) \div Base \in Nat
    <2>1. Resolved(label) \in Nat
      BY ResolvedIs
    <2>. QED
      BY <2>1, DigitsType
  <1>2. \A i \in 1 .. Len(writer) : writer[i] \in Nat
    OBVIOUS
  <1>3. DOMAIN writer = 1 .. Len(writer) /\ Len(writer) \in Nat
    OBVIOUS
  <1>. DEFINE F(i) == IF i - 1 \in DOMAIN _jumpLocations THEN Resolved(_jumpLocations[i - 1]) % Base
                      ELSE IF i - 2 \in DOMAIN _jumpLocations THEN Resolved(_jumpLocations[i - 2]) \div Base
                      ELSE writer[i]
  <1>4. ToScript = [i \in 1 .. Len(writer) |-> F(i)]
    BY <1>3 DEF ToScript
  <1>5. \A i \in 1 .. Len(writer) : F(i) \in Nat
    BY <1>1, <1>2
  <1>. HIDE DEF F
  <1>. QED
    BY <1>3, <1>4, <1>5

\* Each request is in its place, with the place of its label.
LEMMA ScriptHolds ==
  ASSUME NEW at, Made(at, requested, writer, _jumpLocations, _labelLocations),
         requested \in Seq(Requests), writer \in Seq(Nat), Len(writer) < Values(2),
         NEW k \in 1 .. Len(requested)
  PROVE  Holds(ToScript, at[k - 1], Patched(requested[k], Resolved(requested[k].label)))
  <1>. DEFINE n == Len(requested)
              p == Pieces(requested)
              r == requested[k]
              w == Written(r)
              size == Len(w)
              place == Resolved(r.label)
  <1>1. n \in Nat /\ Len(writer) \in Nat /\ DOMAIN writer = 1 .. Len(writer)
    OBVIOUS
  <1>2. /\ p \in Seq(Seq(Nat)) /\ Len(p) = n /\ p[k] = w /\ Layout(at, p, writer)
        /\ \A i \in 1 .. Len(p) : Len(p[i]) > 0
    BY PiecesType DEF Made
  <1>3. /\ at \in [0 .. n -> Nat] /\ at[k] = at[k - 1] + size
        /\ \A j \in 1 .. size : writer[at[k - 1] + j] = w[j]
    BY <1>2, SMTT(30) DEF Layout
  <1>4. \A i, l \in 0 .. n : i < l => at[i] < at[l]
    <2>. HIDE DEF p, n
    <2>1. \A i, l \in 0 .. Len(p) : i < l => at[i] < at[l]
      BY <1>2, LayoutIncreases
    <2>. QED
      BY <1>2, <2>1
  <1>5. JumpsNoted(at, requested, _jumpLocations)
    BY DEF Made
  <1>6. r \in Requests /\ w \in Seq(Nat) /\ size \in Nat
    <2>1. r \in Requests
      OBVIOUS
    <2>. HIDE DEF r
    <2>. QED
      BY <2>1, WrittenType
  <1>7. at[k - 1] \in Nat /\ at[k] \in Nat /\ at[k] <= Len(writer)
    <2>1. k - 1 \in 0 .. n /\ k \in 0 .. n
      BY <1>1
    <2>. HIDE DEF p, n
    <2>2. \A i \in 0 .. Len(p) : at[i] \in Nat /\ at[i] <= Len(writer)
      BY <1>2, LayoutEnds
    <2>. QED
      BY <1>2, <2>1, <2>2
  \* The cells of a jump that are patched are its own.
  <1>8. ASSUME NEW l \in 1 .. n, Jumps(requested[l]), NEW i \in Nat, at[k - 1] < i, i <= at[k],
               i = at[l] \/ i = at[l] - 1
        PROVE  l = k
    <2>1. requested[l] \in Requests
      OBVIOUS
    <2>. DEFINE q == requested[l]
    <2>2. Len(Written(q)) = Len(Start(q)) + 2 /\ Len(Start(q)) \in Nat
      <3>. HIDE DEF q
      <3>1. q \in Requests /\ Jumps(q)
        BY <1>8, <2>1 DEF q
      <3>. QED
        BY <3>1, WrittenType
    <2>3. p[l] = Written(q)
      BY DEF Pieces
    <2>4. at[l] = at[l - 1] + Len(Written(q))
      BY <1>2, <2>3 DEF Layout
    <2>5. l - 1 \in 0 .. n /\ l \in 0 .. n
      BY <1>1
    <2>6. at[l - 1] \in Nat /\ at[l] \in Nat
      BY <1>3, <2>5
    <2>8. k \in 1 .. n
      OBVIOUS
    <2>. HIDE DEF q, n, p
    <2>7. at[l - 1] < i /\ i <= at[l]
      BY <1>8, <2>2, <2>4, <2>6, SMTT(30)
    <2>. QED
      BY <1>1, <1>3, <1>4, <1>8, <2>7, <2>8, CellsApart
  <1>9. ASSUME NEW j \in 1 .. size
        PROVE  LET i == at[k - 1] + j IN
                 /\ i \in Nat /\ at[k - 1] < i /\ i <= at[k] /\ i \in DOMAIN writer
                 /\ Cell(ToScript, at[k - 1] + j - 1) = ToScript[i]
    <2>. DEFINE x == at[k - 1]
                y == at[k]
                i == x + j
    <2>5. x \in Nat /\ y = x + size /\ y <= Len(writer)
      BY <1>3, <1>7
    <2>1. /\ i \in Nat /\ x < i /\ i <= y /\ i \in DOMAIN writer /\ i - 1 < Len(writer)
          /\ x + j - 1 = i - 1 /\ i - 1 + 1 = i
      <3>. HIDE DEF size, x, y
      <3>. QED
        BY <1>1, <1>6, <2>5
    <2>3. Len(ToScript) = Len(writer)
      BY ToScriptType
    <2>4. Cell(ToScript, i - 1) = ToScript[i]
      BY <2>1, <2>3 DEF Cell
    <2>. QED
      BY <2>1, <2>4
  \* Another cell is as it was written.
  <1>10. ASSUME NEW j \in 1 .. size, ~Jumps(r) \/ j < size - 1
         PROVE  ToScript[at[k - 1] + j] = w[j]
    <2>. DEFINE i == at[k - 1] + j
    <2>1. i \in Nat /\ at[k - 1] < i /\ i <= at[k] /\ i \in DOMAIN writer
      BY <1>9
    <2>2. writer[i] = w[j]
      BY <1>3
    <2>3. ASSUME NEW l \in 1 .. n, Jumps(requested[l])
          PROVE  i # at[l] /\ i # at[l] - 1
      <3>1. SUFFICES ASSUME i = at[l] \/ i = at[l] - 1 PROVE FALSE
        OBVIOUS
      <3>2. l = k
        BY <1>8, <2>1, <2>3, <3>1
      <3>3. j < size - 1
        BY <1>10, <2>3, <3>2
      <3>. DEFINE x == at[k - 1]
                  y == at[k]
      <3>4. x \in Nat /\ y = x + size
        BY <1>3, <1>7
      <3>5. x + j # y /\ x + j # y - 1
        <4>. HIDE DEF size, x, y
        <4>. QED
          BY <1>6, <3>3, <3>4
      <3>. QED
        BY <3>1, <3>2, <3>5
    <2>4. \A l \in 1 .. n : at[l] \in Nat
      <3>1. \A l \in 1 .. n : l \in 0 .. n
        BY <1>1
      <3>. QED
        BY <1>3, <3>1
    <2>. HIDE DEF i
    <2>5. i - 1 \notin DOMAIN _jumpLocations
      <3>1. SUFFICES ASSUME i - 1 \in DOMAIN _jumpLocations PROVE FALSE
        OBVIOUS
      <3>2. PICK l \in 1 .. n : Jumps(requested[l]) /\ i - 1 = at[l] - 2
        BY <1>5, <3>1 DEF JumpsNoted
      <3>. DEFINE y == at[l]
      <3>3. y \in Nat /\ i # y - 1 /\ i - 1 = y - 2
        BY <2>3, <2>4, <3>2
      <3>. HIDE DEF y
      <3>. QED
        BY <2>1, <3>3
    <2>6. i - 2 \notin DOMAIN _jumpLocations
      <3>1. SUFFICES ASSUME i - 2 \in DOMAIN _jumpLocations PROVE FALSE
        OBVIOUS
      <3>2. PICK l \in 1 .. n : Jumps(requested[l]) /\ i - 2 = at[l] - 2
        BY <1>5, <3>1 DEF JumpsNoted
      <3>. DEFINE y == at[l]
      <3>3. y \in Nat /\ i # y /\ i - 2 = y - 2
        BY <2>3, <2>4, <3>2
      <3>. HIDE DEF y
      <3>. QED
        BY <2>1, <3>3
    <2>. QED
      BY <2>1, <2>2, <2>5, <2>6 DEF ToScript, i
  <1>11. CASE ~Jumps(r)
    <2>1. Patched(r, place) = w
      BY <1>11 DEF Patched
    <2>2. \A j \in 1 .. size : Cell(ToScript, at[k - 1] + j - 1) = w[j]
      BY <1>9, <1>10, <1>11
    <2>. QED
      BY <2>1, <2>2 DEF Holds
  <1>12. CASE Jumps(r)
    <2>. DEFINE s == Start(r)
                digits == <<place % Base, place \div Base>>
                start == Len(s)
    <2>1. s \in Seq(Nat) /\ start \in Nat /\ size = start + 2
      BY <1>6, <1>12, WrittenType, SMTT(30)
    <2>2. w = s \o <<0, 0>> /\ Patched(r, place) = s \o digits
      BY <1>6, <1>12, WrittenForms DEF Patched
    <2>3. place \in Nat
      BY ResolvedIs
    <2>4. digits \in Seq(Nat) /\ Len(digits) = 2 /\ <<0, 0>> \in Seq(Nat)
      <3>1. place % Base \in Nat /\ place \div Base \in Nat
        BY <2>3, DigitsType
      <3>. HIDE DEF place
      <3>. QED
        BY <3>1
    <2>5. Len(s \o digits) = start + 2
      BY <2>1, <2>4
    <2>6. at[k] - 2 \in DOMAIN _jumpLocations /\ _jumpLocations[at[k] - 2] = r.label
      BY <1>5, <1>12 DEF JumpsNoted
    <2>12. /\ at[k] - 1 \in DOMAIN writer /\ at[k] - 1 - 1 = at[k] - 2 /\ at[k] \in DOMAIN writer
           /\ at[k - 1] < at[k] /\ at[k - 1] + (start + 1) = at[k] - 1
           /\ at[k - 1] + (start + 2) = at[k]
      <3>. DEFINE x == at[k - 1]
                  y == at[k]
      <3>1. x \in Nat /\ y = x + (start + 2) /\ y \in Nat /\ y <= Len(writer)
        <4>. HIDE DEF size, start
        <4>. QED
          BY <1>3, <1>7, <2>1
      <3>2. /\ y - 1 \in DOMAIN writer /\ y - 1 - 1 = y - 2 /\ y \in DOMAIN writer
            /\ x < y /\ x + (start + 1) = y - 1 /\ x + (start + 2) = y
        <4>. HIDE DEF start, x, y
        <4>. QED
          BY <1>1, <2>1, <3>1
      <3>. QED
        BY <3>2
    <2>7. at[k] - 1 \notin DOMAIN _jumpLocations
      <3>1. SUFFICES ASSUME at[k] - 1 \in DOMAIN _jumpLocations PROVE FALSE
        OBVIOUS
      <3>2. PICK l \in 1 .. n : Jumps(requested[l]) /\ at[k] - 1 = at[l] - 2
        BY <1>5, <3>1 DEF JumpsNoted
      <3>3. at[l] \in Nat
        <4>1. l \in 0 .. n
          BY <1>1
        <4>. QED
          BY <1>3, <4>1
      <3>4. at[k] = at[l] - 1 /\ at[k - 1] < at[k]
        <4>1. at[k] \in Nat
          BY <1>7
        <4>. DEFINE y == at[k]
                    z == at[l]
        <4>2. y = z - 1
          <5>1. y \in Nat /\ z \in Nat /\ y - 1 = z - 2
            BY <3>2, <3>3, <4>1
          <5>. HIDE DEF y, z
          <5>. QED
            BY <5>1
        <4>. QED
          BY <2>12, <4>2
      <3>5. l = k
        BY <1>7, <1>8, <3>2, <3>4
      <3>. QED
        BY <1>7, <3>4, <3>5
    <2>8. ToScript[at[k] - 1] = place % Base
      BY <2>6, <2>12 DEF ToScript
    <2>9. ToScript[at[k]] = place \div Base
      BY <2>6, <2>7, <2>12 DEF ToScript
    <2>10. ASSUME NEW j \in 1 .. size
           PROVE  ToScript[at[k - 1] + j] = (s \o digits)[j]
      <3>. HIDE DEF place
      <3>1. CASE j \in 1 .. start
        <4>1. j < size - 1
          BY <2>1, <3>1
        <4>2. w[j] = s[j] /\ (s \o digits)[j] = s[j]
          BY <2>1, <2>2, <2>4, <3>1, Joined
        <4>. QED
          BY <1>10, <4>1, <4>2
      <3>2. CASE j = start + 1
        <4>1. (s \o digits)[j] = digits[1]
          BY <2>1, <2>4, <3>2, Joined
        <4>2. at[k - 1] + j = at[k] - 1
          BY <2>12, <3>2
        <4>. QED
          BY <2>8, <4>1, <4>2
      <3>3. CASE j = start + 2
        <4>1. (s \o digits)[j] = digits[2]
          BY <2>1, <2>4, <3>3, Joined
        <4>2. at[k - 1] + j = at[k]
          BY <2>12, <3>3
        <4>. QED
          BY <2>9, <4>1, <4>2
      <3>4. j \in 1 .. start \/ j = start + 1 \/ j = start + 2
        <4>. HIDE DEF size, start
        <4>. QED
          BY <2>1
      <3>. QED
        BY <3>1, <3>2, <3>3, <3>4
    <2>11. \A j \in 1 .. size : Cell(ToScript, at[k - 1] + j - 1) = (s \o digits)[j]
      BY <1>9, <2>10
    <2>. HIDE DEF s, digits, size
    <2>. QED
      BY <2>1, <2>2, <2>5, <2>11 DEF Holds, start
  <1>. QED
    BY <1>11, <1>12

-----------------------------------------------------------------------------
\* What is read.

\* The requests are in the script as they are in the bytes, the jumps with places.
Placed(script, requests, bytes, at, places) ==
  /\ Layout(at, Pieces(requests), bytes) /\ Len(script) = Len(bytes)
  /\ \A k \in 1 .. Len(requests) :
       /\ requests[k].length >= 0 /\ Short(requests[k]) /\ places[k] \in Nat /\ places[k] < Values(2)
       /\ Holds(script, at[k - 1], Patched(requests[k], places[k]))

\* Requests in their places are read as what they ask for.
LEMMA ListingIs ==
  ASSUME NEW script \in Seq(Nat), NEW requests \in Seq(Requests), NEW bytes \in Seq(Nat), NEW at,
         NEW places, Placed(script, requests, bytes, at, places)
  PROVE  Disassembly(script) = [k \in 1 .. Len(requests) |-> Asked(requests[k], places[k], at[k])]
  <1>. DEFINE n == Len(requests)
              size == Len(script)
              p == Pieces(requests)
              A(k) == Asked(requests[k], places[k], at[k])
              S == {A(k) : k \in 1 .. n}
              Rest(d) == [j \in 1 .. d |-> A(n - d + j)]
  <1>1. n \in Nat /\ size \in Nat
    OBVIOUS
  <1>0. Layout(at, p, bytes) /\ size = Len(bytes)
    BY DEF Placed
  <1>2. PICK f : (\A q \in 0 .. size : f[q] = ReadFrom(script, q, f)) /\ Disassembly(script) = f[0]
    BY DisassemblyIs
  <1>3. /\ p \in Seq(Seq(Nat)) /\ Len(p) = n /\ Layout(at, p, bytes)
        /\ \A k \in 1 .. Len(p) : Len(p[k]) > 0
    BY <1>0, PiecesType
  <1>4. /\ \A i, k \in 0 .. n : i < k => at[i] < at[k]
        /\ \A k \in 0 .. n : at[k] \in Nat /\ at[k] <= size
        /\ at[0] = 0 /\ at[n] = size
    <2>. HIDE DEF p, n
    <2>1. \A i, k \in 0 .. Len(p) : i < k => at[i] < at[k]
      BY <1>3, LayoutIncreases
    <2>2. \A k \in 0 .. Len(p) : at[k] \in Nat /\ at[k] <= Len(bytes)
      BY <1>3, LayoutEnds
    <2>3. at[0] = 0 /\ at[Len(p)] = Len(bytes)
      BY <1>3 DEF Layout
    <2>. QED
      BY <1>0, <1>3, <2>1, <2>2, <2>3
  <1>5. ASSUME NEW k \in 1 .. n
        PROVE  f[at[k - 1]] = <<A(k)>> \o f[at[k]]
    <2>. DEFINE r == requests[k]
                q == at[k - 1]
                i == DecodedAt(script, q)
    <2>1. k - 1 \in 0 .. n /\ k \in 0 .. n /\ k - 1 < k
      BY <1>1
    <2>2. q \in Nat /\ at[k] \in Nat /\ q < at[k] /\ at[k] <= size
      BY <1>4, <2>1
    <2>3. r \in Requests
      OBVIOUS
    <2>4. at[k] = q + Len(Written(r))
      <3>1. p[k] = Written(r)
        BY DEF Pieces
      <3>. QED
        BY <1>3, <3>1 DEF Layout
    <2>5. /\ r.length >= 0 /\ Short(r) /\ places[k] \in Nat /\ places[k] < Values(2)
          /\ Holds(script, q, Patched(r, places[k]))
      BY DEF Placed
    <2>6. i = Asked(r, places[k], at[k])
      <3>. HIDE DEF r, q, size
      <3>1. q + Len(Written(r)) <= Len(script)
        BY <2>2, <2>4 DEF size
      <3>. QED
        BY <1>0, <2>2, <2>3, <2>4, <2>5, <3>1, RequestIsRead DEF i
    <2>7. Asked(r, places[k], at[k]).op # "garbage" /\ Asked(r, places[k], at[k]).next = at[k]
      <3>. HIDE DEF r
      <3>1. "garbage" \notin Known
        BY DEF Known, Bare, Unary, Binary, Ternary, WithData, WithPlace
      <3>2. ~Refused(r) => r.op \in Known
        BY <2>3, FormsOf
      <3>. QED
        BY <3>1, <3>2 DEF Asked, Instruction
    <2>8. f[q] = ReadFrom(script, q, f)
      <3>1. q \in 0 .. size
        <4>. HIDE DEF q, size
        <4>. QED
          BY <1>1, <2>2
      <3>. QED
        BY <1>2, <3>1
    <2>9. q # Len(script) /\ ~(i.op = "garbage" \/ i.next > Len(script))
      <3>. HIDE DEF i, r
      <3>1. i.op # "garbage" /\ i.next = at[k]
        BY <2>6, <2>7
      <3>. HIDE DEF q
      <3>. QED
        BY <1>1, <2>2, <3>1
    <2>10. ReadFrom(script, q, f) = <<i>> \o f[i.next]
      BY <2>9 DEF ReadFrom
    <2>. HIDE DEF i
    <2>. QED
      BY <2>6, <2>7, <2>8, <2>10
  <1>6. \A k \in 1 .. n : A(k) \in S
    OBVIOUS
  <1>. HIDE DEF A, S, p
  <1>7. ASSUME NEW d \in 0 .. n
        PROVE  Rest(d) \in Seq(S) /\ Len(Rest(d)) = d
    <2>1. d \in Nat /\ \A j \in 1 .. d : n - d + j \in 1 .. n
      BY <1>1
    <2>. DEFINE B(j) == A(n - d + j)
    <2>2. \A j \in 1 .. d : B(j) \in S
      BY <1>6, <2>1
    <2>. HIDE DEF B
    <2>3. [j \in 1 .. d |-> B(j)] \in [1 .. d -> S]
      BY <2>2
    <2>. DEFINE b == [j \in 1 .. d |-> B(j)]
    <2>4. b \in Seq(S) /\ Len(b) = d
      <3>1. DOMAIN b = 1 .. d /\ b \in [1 .. d -> S]
        BY <2>3
      <3>2. d \in Nat
        BY <2>1
      <3>. HIDE DEF b
      <3>. QED
        BY <3>1, <3>2, SeqDef
    <2>. QED
      BY <2>4 DEF B
  <1>8. ASSUME NEW d \in Nat, d + 1 <= n
        PROVE  Rest(d + 1) = <<A(n - d)>> \o Rest(d)
    <2>. DEFINE s == Rest(d + 1)
                t == Rest(d)
                k == n - d
    <2>1. d \in 0 .. n /\ d + 1 \in 0 .. n /\ k \in 1 .. n
      BY <1>1, <1>8
    <2>2. s \in Seq(S) /\ Len(s) = d + 1 /\ t \in Seq(S) /\ Len(t) = d
      BY <1>7, <2>1
    <2>3. <<A(k)>> \in Seq(S) /\ Len(<<A(k)>>) = 1
      BY <1>6, <2>1
    <2>4. ASSUME NEW j \in 1 .. d + 1
          PROVE  s[j] = (<<A(k)>> \o t)[j]
      <3>1. s[j] = A(n - (d + 1) + j)
        OBVIOUS
      <3>2. CASE j = 1
        <4>1. n - (d + 1) + j = k
          BY <1>1, <3>2
        <4>2. (<<A(k)>> \o t)[j] = A(k)
          <5>. HIDE DEF t, k
          <5>. QED
            BY <2>2, <2>3, <3>2
        <4>. QED
          BY <3>1, <4>1, <4>2
      <3>3. CASE j # 1
        <4>1. j - 1 \in 1 .. d /\ n - (d + 1) + j = n - d + (j - 1) /\ 1 + (j - 1) = j
          BY <1>1, <3>3
        <4>2. t[j - 1] = A(n - d + (j - 1))
          BY <4>1
        <4>3. (<<A(k)>> \o t)[j] = t[j - 1]
          <5>. HIDE DEF t, k
          <5>1. (<<A(k)>> \o t)[Len(<<A(k)>>) + (j - 1)] = t[j - 1]
            BY <2>2, <2>3, <4>1, Joined
          <5>. QED
            BY <2>3, <4>1, <5>1
        <4>. QED
          BY <3>1, <4>1, <4>2, <4>3
      <3>. QED
        BY <3>2, <3>3
    <2>. HIDE DEF s, t, k
    <2>5. <<A(k)>> \o t \in Seq(S) /\ Len(<<A(k)>> \o t) = d + 1
      BY <2>2, <2>3
    <2>6. s = <<A(k)>> \o t
      BY <2>2, <2>4, <2>5, SeqEqual
    <2>. QED
      BY <2>6 DEF s, t, k
  <1>. DEFINE T == {d \in Nat : d <= n => f[at[n - d]] = Rest(d)}
  <1>9. 0 \in T
    <2>1. n - 0 = n
      BY <1>1
    <2>2. f[at[n]] = <<>>
      <3>1. at[n] \in 0 .. size
        BY <1>1, <1>4
      <3>2. f[at[n]] = ReadFrom(script, at[n], f)
        BY <1>2, <3>1
      <3>. QED
        BY <1>4, <3>2 DEF ReadFrom
    <2>3. Rest(0) = <<>>
      OBVIOUS
    <2>. QED
      BY <2>1, <2>2, <2>3
  <1>10. ASSUME NEW d \in Nat, d \in T
         PROVE  d + 1 \in T
    <2>1. ASSUME d + 1 <= n
          PROVE  f[at[n - (d + 1)]] = Rest(d + 1)
      <3>1. n - d \in 1 .. n /\ n - d - 1 = n - (d + 1) /\ d <= n
        BY <1>1, <2>1
      <3>2. f[at[n - d]] = Rest(d)
        BY <1>10, <3>1
      <3>3. f[at[n - d - 1]] = <<A(n - d)>> \o f[at[n - d]]
        BY <1>5, <3>1
      <3>4. Rest(d + 1) = <<A(n - d)>> \o Rest(d)
        BY <1>8, <2>1
      <3>. HIDE DEF Rest
      <3>. QED
        BY <3>1, <3>2, <3>3, <3>4
    <2>. HIDE DEF Rest
    <2>. QED
      BY <2>1
  <1>. HIDE DEF T
  <1>11. n \in T
    BY <1>1, <1>9, <1>10, Induction
  <1>12. f[at[0]] = Rest(n)
    <2>1. n - n = 0 /\ n <= n
      BY <1>1
    <2>. QED
      BY <1>11, <2>1 DEF T
  <1>13. Rest(n) = [k \in 1 .. n |-> A(k)]
    <2>1. \A j \in 1 .. n : n - n + j = j
      BY <1>1
    <2>. QED
      BY <2>1
  <1>. QED
    BY <1>2, <1>4, <1>12, <1>13 DEF A

\* A request in a script that can be read has data that can be read.
LEMMA WrittenIsShort ==
  ASSUME NEW r \in Requests, Len(Written(r)) < Values(2)
  PROVE  Short(r)
  <1>. SUFFICES ASSUME ~Refused(r), r.op \in WithData PROVE Len(r.data) < Values(8)
    BY DEF Short
  <1>. DEFINE start == Start(r)
              count == WriteVarInt(Len(r.data))
              data == r.data
  <1>1. Written(r) = start \o (count \o data)
    BY WrittenForms DEF WriteByteArray
  <1>2. start \in Seq(Nat) /\ data \in Seq(Nat) /\ count \in Seq(Nat)
    <2>1. data \in Seq(Nat) /\ Len(data) \in Nat
      BY Forms, BytesAreNumbers
    <2>2. count \in Seq(Byte)
      BY <2>1, WriteVarIntType
    <2>. HIDE DEF count, data
    <2>. QED
      BY <2>1, <2>2, BytesAreNumbers, WrittenType DEF start
  <1>. HIDE DEF start, count, data
  <1>3. Len(data) <= Len(Written(r)) /\ Len(data) \in Nat /\ Len(Written(r)) \in Nat
    BY <1>1, <1>2
  <1>4. Values(2) \in Nat /\ Values(8) \in Nat /\ Values(2) <= Values(8)
    BY ValuesType, ValuesGrow
  <1>5. Len(data) < Values(8)
    BY <1>3, <1>4
  <1>. QED
    BY <1>5 DEF data

\* The instructions of a listing are those asked for.
Lists(listing, requests, at, places) ==
  listing = [k \in 1 .. Len(requests) |-> Asked(requests[k], places[k], at[k])]

LEMMA ListingOfReadable ==
  ASSUME Inv, Readable, NEW at, Made(at, requested, writer, _jumpLocations, _labelLocations)
  PROVE  Lists(Listing, requested, at, [k \in 1 .. Len(requested) |-> Resolved(requested[k].label)])
  <1>2. requested \in Seq(Requests) /\ writer \in Seq(Nat) /\ Len(requested) \in Nat
    BY DEF Inv
  <1>3. /\ Len(writer) < Values(2) /\ DOMAIN requested = 1 .. Len(requested)
        /\ \A k \in 1 .. Len(requested) : requested[k].length >= 0
    BY <1>2 DEF Readable
  <1>. DEFINE n == Len(requested)
              places == [k \in 1 .. n |-> Resolved(requested[k].label)]
              p == Pieces(requested)
  <1>4. ToScript \in Seq(Nat) /\ Len(ToScript) = Len(writer)
    BY <1>2, <1>3, ToScriptType
  <1>5. \A label : Resolved(label) \in Nat /\ Resolved(label) < Values(2)
    BY <1>2, <1>3, ResolvedIs
  <1>6. \A k \in 1 .. n : /\ places[k] = Resolved(requested[k].label)
                          /\ places[k] \in Nat /\ places[k] < Values(2)
    BY <1>5
  <1>. HIDE DEF places
  <1>7. \A k \in 1 .. n : Holds(ToScript, at[k - 1], Patched(requested[k], places[k]))
    BY <1>2, <1>3, <1>6, ScriptHolds
  <1>8. Layout(at, p, writer)
    BY DEF Made
  <1>9. ASSUME NEW k \in 1 .. n
        PROVE  Short(requested[k])
    <2>1. p \in Seq(Seq(Nat)) /\ Len(p) = n /\ p[k] = Written(requested[k]) /\ requested[k] \in Requests
      BY <1>2, PiecesType
    <2>. HIDE DEF p
    <2>2. k - 1 \in 0 .. Len(p) /\ k \in 0 .. Len(p) /\ k \in 1 .. Len(p)
      BY <1>2, <2>1
    <2>3. at[k] \in Nat /\ at[k] <= Len(writer) /\ at[k - 1] \in Nat
      BY <1>2, <1>8, <2>1, <2>2, LayoutEnds
    <2>4. at[k] = at[k - 1] + Len(p[k])
      BY <1>8, <2>2 DEF Layout
    <2>5. Len(p[k]) \in Nat /\ Len(writer) \in Nat /\ Values(2) \in Nat
      <3>1. p[k] \in Seq(Nat)
        BY <2>1, <2>2
      <3>. QED
        BY <1>2, <3>1, LenType, ValuesType
    <2>6. Len(p[k]) < Values(2)
      BY <1>3, <2>3, <2>4, <2>5
    <2>. QED
      BY <2>1, <2>6, WrittenIsShort
  <1>. DEFINE script == ToScript
  <1>. HIDE DEF script, p
  <1>10. /\ script \in Seq(Nat) /\ Len(script) = Len(writer)
         /\ \A k \in 1 .. n : Holds(script, at[k - 1], Patched(requested[k], places[k]))
    BY <1>4, <1>7 DEF script
  <1>11. Placed(script, requested, writer, at, places)
    BY <1>3, <1>6, <1>8, <1>9, <1>10 DEF Placed, p
  <1>12. Disassembly(script) = [k \in 1 .. n |-> Asked(requested[k], places[k], at[k])]
    BY <1>2, <1>10, <1>11, ListingIs
  <1>. QED
    BY <1>12 DEF Lists, Listing, script, places

LEMMA InvReadsBack == Inv => ScriptReadsBack
  <1>. SUFFICES ASSUME Inv, Readable PROVE MeansAll(Listing)
    BY DEF ScriptReadsBack
  <1>1. PICK at : Made(at, requested, writer, _jumpLocations, _labelLocations)
    BY DEF Inv
  <1>2. requested \in Seq(Requests) /\ writer \in Seq(Nat) /\ Len(requested) \in Nat
    BY DEF Inv
  <1>3. /\ Len(writer) < Values(2) /\ DOMAIN requested = 1 .. Len(requested)
        /\ \A k \in 1 .. Len(requested) : requested[k].length >= 0
    BY <1>2 DEF Readable
  <1>. DEFINE n == Len(requested)
              places == [k \in 1 .. n |-> Resolved(requested[k].label)]
  <1>5. ASSUME NEW label
        PROVE  /\ Resolved(label) \in Nat /\ Resolved(label) < Values(2)
               /\ Mark(requested, label) = {} => Resolved(label) = 0
               /\ \A k \in Mark(requested, label) : \E l \in Mark(requested, label) :
                    Resolved(label) = at[l] /\ \A i \in Mark(requested, label) : i <= l
    BY <1>1, <1>2, <1>3, ResolvedIs
  <1>6. \A k \in 1 .. n : /\ places[k] = Resolved(requested[k].label)
                          /\ places[k] \in Nat /\ places[k] < Values(2)
    BY <1>5
  <1>. HIDE DEF places
  <1>8. Listing = [k \in 1 .. n |-> Asked(requested[k], places[k], at[k])]
    BY <1>1, ListingOfReadable DEF Lists, places
  <1>. HIDE DEF n
  <1>9. n \in Nat /\ DOMAIN requested = 1 .. n
    BY <1>2, <1>3 DEF n
  <1>10. Len(Listing) = n /\ DOMAIN Listing = 1 .. n
    BY <1>8, <1>9
  <1>11. \A k \in 1 .. n : Listing[k].next = at[k]
    BY <1>8 DEF Asked, Instruction
  <1>12. ASSUME NEW label
         PROVE  PlaceOf(label, Listing) = Resolved(label)
    <2>. DEFINE mark == Mark(requested, label)
                Latest(k) == \A l \in mark : l <= k
    <2>1. mark = {k \in DOMAIN requested : requested[k].form = "Label" /\ requested[k].label = label}
      BY <1>9 DEF Mark, Marks, n
    <2>2. PlaceOf(label, Listing) = IF mark = {} THEN 0 ELSE Listing[CHOOSE k \in mark : Latest(k)].next
      BY <2>1 DEF PlaceOf
    <2>3. mark \subseteq 1 .. n
      BY DEF Mark, n
    <2>4. CASE mark = {}
      BY <1>5, <2>2, <2>4
    <2>5. CASE mark # {}
      <3>1. PICK l \in mark : Resolved(label) = at[l] /\ Latest(l)
        BY <1>5, <2>5
      <3>. DEFINE m == CHOOSE k \in mark : Latest(k)
      <3>2. m \in mark /\ Latest(m)
        BY <3>1
      <3>. HIDE DEF m
      <3>3. m = l
        <4>1. m \in Int /\ l \in Int
          BY <1>9, <2>3, <3>1, <3>2
        <4>2. m <= l /\ l <= m
          BY <3>1, <3>2
        <4>. QED
          BY <4>1, <4>2
      <3>4. Listing[m].next = at[l]
        BY <1>11, <2>3, <3>2, <3>3
      <3>. QED
        BY <2>2, <2>5, <3>1, <3>4 DEF m
    <2>. QED
      BY <2>4, <2>5
  <1>13. ASSUME NEW k \in 1 .. n
         PROVE  Means(Listing[k], requested[k], Listing)
    <2>. DEFINE r == requested[k]
    <2>1. r \in Requests
      BY <1>2, <1>9
    <2>2. Listing[k] = Asked(r, Resolved(r.label), at[k])
      BY <1>6, <1>8 DEF n
    <2>. HIDE DEF r
    <2>3. CASE Refused(r)
      BY <2>2, <2>3 DEF Means, Asked, Instruction, r
    <2>4. CASE ~Refused(r)
      <3>1. Jumps(r) <=> r.op \in WithPlace
        BY <2>1, <2>4, WrittenForms
      <3>2. PlaceOf(r.label, Listing) = Resolved(r.label)
        BY <1>12
      <3>. HIDE DEF r
      <3>3. Means(Listing[k], r, Listing)
        BY <2>2, <2>4, <3>1, <3>2 DEF Means, Asked, Instruction
      <3>. QED
        BY <3>3 DEF r
    <2>. QED
      BY <2>3, <2>4
  <1>. QED
    BY <1>9, <1>10, <1>13 DEF MeansAll, n

\* Whatever was emitted and called, a script that fits the 16 bits of its
\* places disassembles into the instructions asked for, one for one, with their
\* operands and data, and each jump leads behind the last NOP of its label:
\* the Emit... members, EmitLabel and ToScript of scriptbuilder.h agree.
THEOREM ScriptIsReadBack == Spec => []ScriptReadsBack
  <1>1. Inv => ScriptReadsBack
    BY InvReadsBack
  <1>. QED
    BY <1>1, InvHolds, PTL

-----------------------------------------------------------------------------
\* Machines.

IsMachine(m) ==
  /\ m = [regs |-> m.regs, stack |-> m.stack, calls |-> m.calls, ram |-> m.ram, fault |-> m.fault]
  /\ m.regs = [r \in Registers |-> m.regs[r]]

\* n differs from m in what is in the registers of rs.
Changes(m, n, rs) ==
  /\ IsMachine(m) /\ IsMachine(n)
  /\ n.stack = m.stack /\ n.calls = m.calls /\ n.ram = m.ram /\ n.fault = m.fault
  /\ \A r \in Registers \ rs : n.regs[r] = m.regs[r]

\* n differs from m, if not in its registers.
KeepsAll(m, n) == IsMachine(m) /\ IsMachine(n) /\ n.regs = m.regs

LEMMA MachineIs ==
  ASSUME NEW regs, NEW stack, NEW calls, NEW ram, NEW fault, regs = [r \in Registers |-> regs[r]]
  PROVE  IsMachine([regs |-> regs, stack |-> stack, calls |-> calls, ram |-> ram, fault |-> fault])
  BY DEF IsMachine

LEMMA SetChanges ==
  ASSUME NEW m, IsMachine(m), NEW r, NEW value
  PROVE  Changes(m, Set(m, r, value), {r}) /\ (r \in Registers => Set(m, r, value).regs[r] = value)
  <1>. DEFINE n == Set(m, r, value)
              old == m.regs
  <1>1. n = [regs |-> [m.regs EXCEPT ![r] = value], stack |-> m.stack, calls |-> m.calls,
             ram |-> m.ram, fault |-> m.fault]
    BY DEF Set, IsMachine
  <1>2. old = [s \in Registers |-> old[s]]
    BY DEF IsMachine
  <1>3. [m.regs EXCEPT ![r] = value] = [s \in Registers |-> IF s = r THEN value ELSE old[s]]
    <2>. HIDE DEF old
    <2>1. [old EXCEPT ![r] = value] = [s \in Registers |-> IF s = r THEN value ELSE old[s]]
      BY <1>2
    <2>. QED
      BY <2>1 DEF old
  <1>. DEFINE new == [s \in Registers |-> IF s = r THEN value ELSE old[s]]
  <1>4. /\ n.regs = new /\ n.stack = m.stack /\ n.calls = m.calls /\ n.ram = m.ram /\ n.fault = m.fault
        /\ n = [regs |-> new, stack |-> m.stack, calls |-> m.calls, ram |-> m.ram, fault |-> m.fault]
    BY <1>1, <1>3
  <1>5. new = [s \in Registers |-> new[s]] /\ \A s \in Registers : new[s] = IF s = r THEN value ELSE old[s]
    OBVIOUS
  <1>. HIDE DEF n, new
  <1>6. IsMachine(n)
    BY <1>4, <1>5 DEF IsMachine
  <1>. QED
    BY <1>4, <1>5, <1>6 DEF Changes, n, old

LEMMA ExceptKeeps ==
  ASSUME NEW m, IsMachine(m), NEW x
  PROVE  /\ KeepsAll(m, [m EXCEPT !.stack = x])
         /\ KeepsAll(m, [m EXCEPT !.calls = x])
         /\ KeepsAll(m, [m EXCEPT !.ram = x])
         /\ KeepsAll(m, [m EXCEPT !.fault = x])
  BY DEF KeepsAll, IsMachine

\* The registers an instruction writes to.
Targets(op, operands) ==
  IF op \in {"LOAD", "POP", "INC"} THEN {operands[1]}
  ELSE IF op \in {"MOVE", "COPY", "CAST", "PUT", "CTX"} THEN {operands[2]}
  ELSE IF op = "CAT" THEN {operands[3]} ELSE {}

LEMMA KeepsTransitive ==
  ASSUME NEW m, NEW n, NEW o, KeepsAll(m, n), KeepsAll(n, o)
  PROVE  KeepsAll(m, o)
  BY DEF KeepsAll

LEMMA CalledKeeps ==
  ASSUME NEW m, IsMachine(m), NEW k, NEW contract, NEW method, NEW args
  PROVE  /\ KeepsAll(m, Pop(m, k)) /\ KeepsAll(m, Faulted(m))
         /\ KeepsAll(m, Called(m, contract, method, args))
         /\ KeepsAll(m, Interop(m, method, args))
  <1>1. KeepsAll(m, Pop(m, k)) /\ KeepsAll(m, Pop(m, Len(args))) /\ KeepsAll(m, Faulted(m))
    BY ExceptKeeps, Zenon DEF Pop, Faulted
  <1>. DEFINE called == Called(m, contract, method, args)
              interop == Called(m, "", method, args)
  <1>2. KeepsAll(Pop(m, Len(args)), called) /\ KeepsAll(Pop(m, Len(args)), interop)
    <2>1. IsMachine(Pop(m, Len(args)))
      BY <1>1 DEF KeepsAll
    <2>. QED
      BY <2>1, ExceptKeeps, Zenon DEF Called
  <1>3. KeepsAll(m, called) /\ KeepsAll(m, interop)
    BY <1>1, <1>2, KeepsTransitive, Zenon
  <1>4. Interop(m, method, args) = interop \/ KeepsAll(interop, Interop(m, method, args))
    <2>1. IsMachine(interop)
      BY <1>3 DEF KeepsAll
    <2>. DEFINE o == interop
    <2>2. Interop(m, method, args) = o \/ (\E x : Interop(m, method, args) = [o EXCEPT !.stack = x])
                                       \/ (\E x : Interop(m, method, args) = [o EXCEPT !.ram = x])
      BY Zenon DEF Interop
    <2>. HIDE DEF o
    <2>3. (\A x : KeepsAll(o, [o EXCEPT !.stack = x])) /\ (\A x : KeepsAll(o, [o EXCEPT !.ram = x]))
      BY <2>1, ExceptKeeps, Zenon DEF o
    <2>4. Interop(m, method, args) = o \/ KeepsAll(o, Interop(m, method, args))
      BY <2>2, <2>3, Zenon
    <2>. QED
      BY <2>4 DEF o
  <1>. HIDE DEF interop, called
  <1>5. KeepsAll(m, Interop(m, method, args))
    BY <1>3, <1>4, KeepsTransitive, ZenonT(40)
  <1>. QED
    BY <1>1, <1>3, <1>5 DEF called

\* What each operation does.
LEMMA EffectOf ==
  ASSUME NEW m, NEW i
  PROVE  /\ i.op \in {"NOP", "RET"} => Effect(m, i) = m
         /\ i.op = "LOAD" => Effect(m, i) = Set(m, i.operands[1], Scalar(TypeOf(i.operands[2]), i.data))
         /\ i.op \in {"MOVE", "COPY"} => Effect(m, i) = Set(m, i.operands[2], m.regs[i.operands[1]])
         /\ i.op = "PUSH" => Effect(m, i) = [m EXCEPT !.stack = <<m.regs[i.operands[1]]>> \o m.stack]
         /\ i.op = "CAST" => Effect(m, i) =
              Set(m, i.operands[2],
                  IF TypeOf(i.operands[3]) = "None" THEN Nothing
                  ELSE Scalar(TypeOf(i.operands[3]), m.regs[i.operands[1]].bytes))
  BY DEF Effect

LEMMA EffectOfPop ==
  ASSUME NEW m, NEW i, i.op = "POP"
  PROVE  Effect(m, i) = IF m.stack # <<>> THEN Pop(Set(m, i.operands[1], Head(m.stack)), 1) ELSE Faulted(m)
  BY DEF Effect

LEMMA EffectOfInc ==
  ASSUME NEW m, NEW i, i.op = "INC"
  PROVE  LET value == m.regs[i.operands[1]]
         IN  Effect(m, i) = IF value.type = "Number"
                            THEN Set(m, i.operands[1], Scalar("Number", Incremented(value.bytes)))
                            ELSE Faulted(m)
  BY DEF Effect, Incremented

LEMMA EffectOfCat ==
  ASSUME NEW m, NEW i, i.op = "CAT"
  PROVE  LET first  == m.regs[i.operands[1]]
             second == m.regs[i.operands[2]]
         IN  Effect(m, i) = IF first.type = "Bytes" /\ second.type = "Bytes"
                            THEN Set(m, i.operands[3], Scalar("Bytes", first.bytes \o second.bytes))
                            ELSE Faulted(m)
  BY DEF Effect

LEMMA EffectOfPut ==
  ASSUME NEW m, NEW i, i.op = "PUT"
  PROVE  LET value == m.regs[i.operands[1]]
             array == m.regs[i.operands[2]]
             key   == m.regs[i.operands[3]]
         IN  Effect(m, i) = IF array.type \in {"None", "Struct"} /\ key.type = "Number"
                            THEN Set(m, i.operands[2],
                                     [type |-> "Struct", bytes |-> <<>>,
                                      entries |-> array.entries \cup {<<key.bytes, value>>}])
                            ELSE Faulted(m)
  BY DEF Effect

LEMMA EffectOfContext ==
  ASSUME NEW m, NEW i, i.op = "CTX"
  PROVE  Effect(m, i) = IF m.regs[i.operands[1]].type = "String"
                        THEN Set(m, i.operands[2], Scalar("Object", m.regs[i.operands[1]].bytes))
                        ELSE Faulted(m)
  BY DEF Effect

LEMMA EffectOfCall ==
  ASSUME NEW m, NEW i, i.op = "EXTCALL"
  PROVE  LET name == MethodOf(m.regs[i.operands[1]], m.stack)
         IN  Effect(m, i) = IF name # "" THEN Interop(m, name, SubSeq(m.stack, 1, Arity[name]))
                            ELSE Faulted(m)
  BY DEF Effect

LEMMA EffectOfSwitch ==
  ASSUME NEW m, NEW i, i.op = "SWITCH"
  PROVE  LET object == m.regs[i.operands[1]]
             name   == MethodOf(Head(m.stack), Tail(m.stack))
         IN  Effect(m, i) = IF object.type = "Object" /\ m.stack # <<>> /\ name # ""
                            THEN Called(Pop(m, 1), CHOOSE c \in Names : Utf8[c] = object.bytes, name,
                                        SubSeq(m.stack, 2, Arity[name] + 1))
                            ELSE Faulted(m)
  BY SMTT(30) DEF Effect

LEMMA EffectOfOthers ==
  ASSUME NEW m, NEW i, i.op \notin Performed
  PROVE  Effect(m, i) = Faulted(m)
  BY DEF Effect, Performed

\* An instruction writes to its targets only.
LEMMA EffectKeeps ==
  ASSUME NEW m, IsMachine(m), NEW i
  PROVE  /\ IsMachine(Effect(m, i))
         /\ \A r \in Registers \ Targets(i.op, i.operands) : Effect(m, i).regs[r] = m.regs[r]
  <1>. DEFINE n == Effect(m, i)
              a == i.operands[1]
              b == i.operands[2]
              c == i.operands[3]
  <1>1. \/ n = m \/ n = Faulted(m)
        \/ i.op = "LOAD" /\ \E v : n = Set(m, a, v)
        \/ i.op \in {"MOVE", "COPY", "CAST", "PUT", "CTX"} /\ \E v : n = Set(m, b, v)
        \/ i.op = "PUSH" /\ \E x : n = [m EXCEPT !.stack = x]
        \/ i.op = "POP" /\ \E v : n = Pop(Set(m, a, v), 1)
        \/ i.op = "INC" /\ \E v : n = Set(m, a, v)
        \/ i.op = "CAT" /\ \E v : n = Set(m, c, v)
        \/ i.op = "EXTCALL" /\ \E name, args : n = Interop(m, name, args)
        \/ i.op = "SWITCH" /\ \E contract, name, args : n = Called(Pop(m, 1), contract, name, args)
    <2>1. CASE i.op \in {"NOP", "RET"}
      BY <2>1, EffectOf
    <2>2. CASE i.op \in {"LOAD", "MOVE", "COPY", "PUSH", "CAST"}
      <3>1. i.op = "LOAD" => n = Set(m, a, Scalar(TypeOf(b), i.data))
        BY EffectOf, Zenon
      <3>2. i.op \in {"MOVE", "COPY"} => n = Set(m, b, m.regs[a])
        BY EffectOf, Zenon
      <3>3. i.op = "PUSH" => n = [m EXCEPT !.stack = <<m.regs[a]>> \o m.stack]
        BY EffectOf, Zenon
      <3>4. i.op = "CAST" =>
              n = Set(m, b, IF TypeOf(c) = "None" THEN Nothing ELSE Scalar(TypeOf(c), m.regs[a].bytes))
        BY EffectOf, Zenon
      <3>. HIDE DEF n, a, b, c
      <3>. QED
        BY <2>2, <3>1, <3>2, <3>3, <3>4
    <2>3. CASE i.op = "POP"
      BY <2>3, EffectOfPop
    <2>4. CASE i.op = "INC"
      BY <2>4, EffectOfInc
    <2>5. CASE i.op = "CAT"
      BY <2>5, EffectOfCat
    <2>6. CASE i.op = "PUT"
      BY <2>6, EffectOfPut
    <2>7. CASE i.op = "CTX"
      BY <2>7, EffectOfContext
    <2>8. CASE i.op = "EXTCALL"
      BY <2>8, EffectOfCall
    <2>9. CASE i.op = "SWITCH"
      <3>1. \/ n = Faulted(m)
            \/ \E contract, name : n = Called(Pop(m, 1), contract, name, SubSeq(m.stack, 2, Arity[name] + 1))
        BY <2>9, EffectOfSwitch, Zenon
      <3>. HIDE DEF n
      <3>2. n = Faulted(m) \/ \E contract, name, args : n = Called(Pop(m, 1), contract, name, args)
        BY <3>1, Zenon
      <3>. QED
        BY <2>9, <3>2
    <2>10. CASE i.op \notin Performed
      BY <2>10, EffectOfOthers
    <2>. QED
      BY <2>1, <2>2, <2>3, <2>4, <2>5, <2>6, <2>7, <2>8, <2>9, <2>10 DEF Performed
  <1>. HIDE DEF n
  <1>2. ASSUME NEW r, NEW v, n = Set(m, r, v) \/ n = Pop(Set(m, r, v), 1), Targets(i.op, i.operands) = {r}
        PROVE  IsMachine(n) /\ \A s \in Registers \ Targets(i.op, i.operands) : n.regs[s] = m.regs[s]
    <2>1. Changes(m, Set(m, r, v), {r})
      BY SetChanges
    <2>2. KeepsAll(Set(m, r, v), Pop(Set(m, r, v), 1))
      BY <2>1, CalledKeeps DEF Changes
    <2>. QED
      BY <1>2, <2>1, <2>2 DEF Changes, KeepsAll
  <1>3. ASSUME KeepsAll(m, n)
        PROVE  IsMachine(n) /\ \A s \in Registers \ Targets(i.op, i.operands) : n.regs[s] = m.regs[s]
    BY <1>3 DEF KeepsAll
  <1>4. KeepsAll(m, m) /\ KeepsAll(m, Faulted(m)) /\ (\A x : KeepsAll(m, [m EXCEPT !.stack = x]))
    BY CalledKeeps, ExceptKeeps, Zenon DEF KeepsAll
  <1>5. ASSUME NEW name, NEW args
        PROVE  KeepsAll(m, Interop(m, name, args))
    BY CalledKeeps
  <1>6. ASSUME NEW contract, NEW name, NEW args
        PROVE  KeepsAll(m, Called(Pop(m, 1), contract, name, args))
    <2>1. KeepsAll(m, Pop(m, 1)) /\ IsMachine(Pop(m, 1))
      BY CalledKeeps DEF KeepsAll
    <2>2. KeepsAll(Pop(m, 1), Called(Pop(m, 1), contract, name, args))
      BY <2>1, CalledKeeps
    <2>. QED
      BY <2>1, <2>2, KeepsTransitive
  <1>7. /\ i.op \in {"LOAD", "POP", "INC"} => Targets(i.op, i.operands) = {a}
        /\ i.op \in {"MOVE", "COPY", "CAST", "PUT", "CTX"} => Targets(i.op, i.operands) = {b}
        /\ i.op = "CAT" => Targets(i.op, i.operands) = {c}
    BY DEF Targets
  <1>8. IsMachine(n) /\ \A r \in Registers \ Targets(i.op, i.operands) : n.regs[r] = m.regs[r]
    <2>1. CASE n = m \/ n = Faulted(m)
      BY <1>3, <1>4, <2>1, Zenon
    <2>2. CASE i.op = "LOAD" /\ \E v : n = Set(m, a, v)
      BY <1>2, <1>7, <2>2
    <2>3. CASE i.op \in {"MOVE", "COPY", "CAST", "PUT", "CTX"} /\ \E v : n = Set(m, b, v)
      BY <1>2, <1>7, <2>3
    <2>4. CASE i.op = "PUSH" /\ \E x : n = [m EXCEPT !.stack = x]
      <3>1. KeepsAll(m, n)
        BY <1>4, <2>4, Zenon
      <3>. QED
        BY <1>3, <3>1, Zenon
    <2>5. CASE i.op = "POP" /\ \E v : n = Pop(Set(m, a, v), 1)
      BY <1>2, <1>7, <2>5
    <2>6. CASE i.op = "INC" /\ \E v : n = Set(m, a, v)
      BY <1>2, <1>7, <2>6
    <2>7. CASE i.op = "CAT" /\ \E v : n = Set(m, c, v)
      BY <1>2, <1>7, <2>7
    <2>8. CASE i.op = "EXTCALL" /\ \E name, args : n = Interop(m, name, args)
      <3>1. KeepsAll(m, n)
        BY <1>5, <2>8, Zenon
      <3>. QED
        BY <1>3, <3>1, Zenon
    <2>9. CASE i.op = "SWITCH" /\ \E contract, name, args : n = Called(Pop(m, 1), contract, name, args)
      <3>1. KeepsAll(m, n)
        BY <1>6, <2>9, Zenon
      <3>. QED
        BY <1>3, <3>1, Zenon
    <2>. QED
      BY <1>1, <2>1, <2>2, <2>3, <2>4, <2>5, <2>6, <2>7, <2>8, <2>9, Zenon
  <1>. QED
    BY <1>8 DEF n

-----------------------------------------------------------------------------
\* Runs.

\* What a machine does at a request.
Obeyed(m, r) == IF Refused(r) THEN m ELSE Executed(m, r)

LEMMA ObeyedKeeps ==
  ASSUME NEW m, IsMachine(m), NEW r
  PROVE  /\ IsMachine(Obeyed(m, r))
         /\ \A s \in Registers \ Targets(r.op, r.operands) : Obeyed(m, r).regs[s] = m.regs[s]
  <1>. DEFINE n == Obeyed(m, r)
  <1>1. n = m \/ n = Faulted(m) \/ n = Effect(m, r)
    BY Zenon DEF Obeyed, Executed
  <1>2. /\ KeepsAll(m, Faulted(m)) /\ KeepsAll(m, m)
        /\ IsMachine(Effect(m, r))
        /\ \A s \in Registers \ Targets(r.op, r.operands) : Effect(m, r).regs[s] = m.regs[s]
    <2>1. KeepsAll(m, Faulted(m)) /\ KeepsAll(m, m)
      BY CalledKeeps DEF KeepsAll
    <2>. QED
      BY <2>1, EffectKeeps
  <1>. HIDE DEF n
  <1>3. CASE n = m \/ n = Faulted(m)
    <2>1. KeepsAll(m, n)
      BY <1>2, <1>3
    <2>. QED
      BY <2>1 DEF KeepsAll, n
  <1>4. CASE n = Effect(m, r)
    BY <1>2, <1>4 DEF n
  <1>. QED
    BY <1>1, <1>3, <1>4

\* An instruction has the effect of the request that asked for it.
LEMMA AskedIsObeyed ==
  ASSUME NEW m, NEW r, NEW place, NEW next
  PROVE  Executed(m, Asked(r, place, next)) = Obeyed(m, r)
  <1>. DEFINE i == Asked(r, place, next)
  <1>1. CASE Refused(r)
    <2>1. i.op = "NOP"
      BY <1>1 DEF Asked, Instruction
    <2>. HIDE DEF i
    <2>2. RegisterCount("NOP") = 0
      BY DEF RegisterCount, OperandCount, Ternary, Binary, Unary
    <2>3. Executed(m, i) = Effect(m, i)
      BY <2>1, <2>2 DEF Executed
    <2>. QED
      BY <1>1, <2>1, <2>3, EffectOf DEF Obeyed, i
  <1>2. CASE ~Refused(r)
    <2>1. i.op = r.op /\ i.operands = r.operands /\ i.data = r.data
      BY <1>2 DEF Asked, Instruction
    <2>. HIDE DEF i
    <2>2. Effect(m, i) = Effect(m, r)
      BY <2>1 DEF Effect
    <2>3. Executed(m, i) = Executed(m, r)
      BY <2>1, <2>2 DEF Executed
    <2>. QED
      BY <1>2, <2>3 DEF Obeyed, i
  <1>. QED
    BY <1>1, <1>2

\* t lists the machines before the requests and after each.
Traces(t, m, requests) ==
  t[0] = m /\ \A k \in 1 .. Len(requests) : t[k] = Obeyed(t[k - 1], requests[k])

RunsTo(m, requests, n) == \E t : Traces(t, m, requests) /\ t[Len(requests)] = n

LEMMA RunsToOne ==
  ASSUME NEW S, NEW requests \in Seq(S), NEW m, NEW n, NEW o,
         RunsTo(m, requests, n), RunsTo(m, requests, o)
  PROVE  n = o
  <1>. DEFINE size == Len(requests)
  <1>1. PICK t : Traces(t, m, requests) /\ t[size] = n
    BY DEF RunsTo
  <1>2. PICK u : Traces(u, m, requests) /\ u[size] = o
    BY DEF RunsTo
  <1>. DEFINE T == {k \in Nat : k <= size => t[k] = u[k]}
  <1>3. size \in Nat
    OBVIOUS
  <1>. HIDE DEF size
  <1>4. 0 \in T
    BY <1>1, <1>2 DEF Traces
  <1>5. ASSUME NEW k \in Nat, k \in T
        PROVE  k + 1 \in T
    <2>. SUFFICES ASSUME k + 1 <= size PROVE t[k + 1] = u[k + 1]
      OBVIOUS
    <2>1. t[k] = u[k]
      BY <1>3, <1>5
    <2>. DEFINE j == k + 1
    <2>2. j \in 1 .. size /\ j - 1 = k
      BY <1>3
    <2>. HIDE DEF j
    <2>3. t[j] = Obeyed(t[j - 1], requests[j]) /\ u[j] = Obeyed(u[j - 1], requests[j])
      BY <1>1, <1>2, <2>2 DEF Traces, size
    <2>4. t[j] = u[j]
      BY <2>1, <2>2, <2>3
    <2>. QED
      BY <2>4 DEF j
  <1>. HIDE DEF T
  <1>6. size \in T
    BY <1>3, <1>4, <1>5, Induction
  <1>. QED
    BY <1>1, <1>2, <1>3, <1>6 DEF T

LEMMA RunsNone ==
  ASSUME NEW m, NEW n
  PROVE  RunsTo(m, <<>>, n) => n = m
  BY DEF RunsTo, Traces

LEMMA RunsSingle ==
  ASSUME NEW m, NEW n, NEW r
  PROVE  RunsTo(m, <<r>>, n) => n = Obeyed(m, r)
  <1>1. Len(<<r>>) = 1 /\ <<r>>[1] = r /\ 1 \in 1 .. 1 /\ 1 - 1 = 0
    OBVIOUS
  <1>. QED
    BY <1>1 DEF RunsTo, Traces

\* A run has a machine between two parts.
LEMMA RunsParted ==
  ASSUME NEW S, NEW a \in Seq(S), NEW b \in Seq(S), NEW m, NEW o, RunsTo(m, a \o b, o)
  PROVE  \E n : RunsTo(m, a, n) /\ RunsTo(n, b, o)
  <1>. DEFINE x == Len(a)
              y == Len(b)
              ab == a \o b
  <1>1. x \in Nat /\ y \in Nat /\ Len(ab) = x + y
    OBVIOUS
  <1>2. (\A k \in 1 .. x : ab[k] = a[k]) /\ \A k \in 1 .. y : ab[x + k] = b[k]
    BY Joined
  <1>3. PICK t : Traces(t, m, ab) /\ t[x + y] = o
    BY <1>1 DEF RunsTo
  <1>. DEFINE u == [k \in 0 .. y |-> t[x + k]]
  <1>. HIDE DEF x, y, ab
  <1>4. t[0] = m /\ \A k \in 1 .. x + y : t[k] = Obeyed(t[k - 1], ab[k])
    BY <1>1, <1>3 DEF Traces
  <1>5. RunsTo(m, a, t[x])
    <2>1. \A k \in 1 .. x : k \in 1 .. x + y
      BY <1>1
    <2>2. Traces(t, m, a)
      BY <1>2, <1>4, <2>1 DEF Traces, x
    <2>. QED
      BY <2>2 DEF RunsTo, x
  <1>6. RunsTo(t[x], b, o)
    <2>1. u[0] = t[x] /\ u[y] = o
      BY <1>1, <1>3
    <2>2. ASSUME NEW k \in 1 .. y
          PROVE  u[k] = Obeyed(u[k - 1], b[k])
      <3>. DEFINE l == x + k
      <3>1. l \in 1 .. x + y /\ l - 1 = x + (k - 1) /\ k \in 0 .. y /\ k - 1 \in 0 .. y
        BY <1>1
      <3>2. t[l] = Obeyed(t[l - 1], ab[l])
        BY <1>4, <3>1
      <3>3. u[k] = t[l] /\ u[k - 1] = t[x + (k - 1)] /\ ab[l] = b[k]
        BY <1>2, <3>1
      <3>. HIDE DEF l, u
      <3>. QED
        BY <3>1, <3>2, <3>3
    <2>. HIDE DEF u
    <2>3. Traces(u, t[x], b)
      BY <2>1, <2>2 DEF Traces, y
    <2>. QED
      BY <2>1, <2>3 DEF RunsTo, y
  <1>. QED
    BY <1>5, <1>6

\* A run of many parts has a machine between any two.
LEMMA RunsFlat ==
  ASSUME NEW S, NEW seqs \in Seq(Seq(S)), NEW m, NEW n, RunsTo(m, FlattenSeq(seqs), n)
  PROVE  \E ms : /\ ms[0] = m /\ ms[Len(seqs)] = n
                 /\ \A k \in 1 .. Len(seqs) : RunsTo(ms[k - 1], seqs[k], ms[k])
  <1>. DEFINE flat == FlattenSeq(seqs)
              size == Len(seqs)
  <1>1. flat \in Seq(S)
    BY FlattenIs
  <1>2. PICK at : Layout(at, seqs, flat)
    BY FlattenIs
  <1>3. PICK t : Traces(t, m, flat) /\ t[Len(flat)] = n
    BY DEF RunsTo
  <1>. DEFINE ms == [k \in 0 .. size |-> t[at[k]]]
  <1>. HIDE DEF flat
  <1>4. size \in Nat /\ at[0] = 0 /\ at[size] = Len(flat)
    BY <1>2 DEF Layout
  <1>5. \A k \in 0 .. size : at[k] \in Nat /\ at[k] <= Len(flat)
    BY <1>1, <1>2, LayoutEnds
  <1>6. ms[0] = m /\ ms[size] = n
    BY <1>3, <1>4 DEF Traces
  <1>7. ASSUME NEW k \in 1 .. size
        PROVE  RunsTo(ms[k - 1], seqs[k], ms[k])
    <2>. DEFINE x == at[k - 1]
                y == Len(seqs[k])
                s == seqs[k]
                u == [j \in 0 .. y |-> t[x + j]]
    <2>1. k - 1 \in 0 .. size /\ k \in 0 .. size
      BY <1>4
    <2>2. at[k] = x + y /\ \A j \in 1 .. y : flat[x + j] = s[j]
      BY <1>2 DEF Layout
    <2>3. y \in Nat
      <3>1. seqs[k] \in Seq(S)
        OBVIOUS
      <3>. QED
        BY <3>1, LenType
    <2>4. ms[k - 1] = t[x] /\ ms[k] = t[x + y] /\ x \in Nat /\ x + y <= Len(flat) /\ Len(flat) \in Nat
      BY <1>1, <1>5, <2>1, <2>2
    <2>5. \A j \in 1 .. Len(flat) : t[j] = Obeyed(t[j - 1], flat[j])
      BY <1>3 DEF Traces
    <2>. HIDE DEF x, y, s, ms
    <2>6. u[0] = t[x] /\ u[y] = t[x + y]
      BY <2>3, <2>4
    <2>7. ASSUME NEW j \in 1 .. y
          PROVE  u[j] = Obeyed(u[j - 1], s[j])
      <3>. DEFINE l == x + j
      <3>1. l \in 1 .. Len(flat) /\ l - 1 = x + (j - 1) /\ j \in 0 .. y /\ j - 1 \in 0 .. y
        BY <2>3, <2>4
      <3>2. t[l] = Obeyed(t[l - 1], flat[l])
        BY <2>5, <3>1
      <3>3. u[j] = t[l] /\ u[j - 1] = t[x + (j - 1)] /\ flat[l] = s[j]
        BY <2>2, <3>1
      <3>. HIDE DEF l, u
      <3>. QED
        BY <3>1, <3>2, <3>3
    <2>. HIDE DEF u
    <2>8. Traces(u, t[x], s)
      BY <2>6, <2>7 DEF Traces, y, s
    <2>9. RunsTo(t[x], s, t[x + y])
      BY <2>6, <2>8 DEF RunsTo, y, s
    <2>. QED
      BY <2>4, <2>9 DEF s
  <1>. HIDE DEF ms
  <1>. QED
    BY <1>6, <1>7

\* f gives the machines after the first n instructions of a listing.
MachinesUpTo(f, listing, n) ==
  f = [k \in 0 .. n |-> IF k = 0 THEN Machine ELSE Executed(f[k - 1], listing[k])]

LEMMA MachinesExist ==
  ASSUME NEW listing, NEW n \in Nat
  PROVE  \E f : MachinesUpTo(f, listing, n)
  <1>. DEFINE Then(m, k) == Executed(m, listing[k])
              First == Machine
              S == {l \in Nat : \E f : f = [k \in 0 .. l |-> IF k = 0 THEN First ELSE Then(f[k - 1], k)]}
  <1>. HIDE DEF Then, First
  <1>1. 0 \in S
    <2>. DEFINE f == [k \in 0 .. 0 |-> First]
    <2>1. f = [k \in 0 .. 0 |-> IF k = 0 THEN First ELSE Then(f[k - 1], k)]
      OBVIOUS
    <2>. QED
      BY <2>1
  <1>2. ASSUME NEW l \in Nat, l \in S
        PROVE  l + 1 \in S
    <2>1. PICK f : f = [k \in 0 .. l |-> IF k = 0 THEN First ELSE Then(f[k - 1], k)]
      BY <1>2
    <2>. DEFINE g == [k \in 0 .. l + 1 |-> IF k = l + 1 THEN Then(f[l], k) ELSE f[k]]
    <2>2. ASSUME NEW k \in 0 .. l + 1
          PROVE  g[k] = IF k = 0 THEN First ELSE Then(g[k - 1], k)
      <3>1. CASE k = l + 1
        <4>1. k # 0 /\ k - 1 = l /\ l \in 0 .. l + 1 /\ l # l + 1
          BY <3>1
        <4>. QED
          BY <3>1, <4>1
      <3>2. CASE k # l + 1
        <4>1. k \in 0 .. l /\ (k # 0 => k - 1 \in 0 .. l + 1 /\ k - 1 # l + 1)
          BY <3>2
        <4>2. f[k] = IF k = 0 THEN First ELSE Then(f[k - 1], k)
          BY <2>1, <4>1
        <4>. QED
          BY <3>2, <4>1, <4>2
      <3>. QED
        BY <3>1, <3>2
    <2>3. g = [k \in 0 .. l + 1 |-> IF k = 0 THEN First ELSE Then(g[k - 1], k)]
      BY <2>2
    <2>. HIDE DEF g
    <2>. QED
      BY <2>3
  <1>. HIDE DEF S
  <1>3. n \in S
    BY <1>1, <1>2, Induction
  <1>. QED
    BY <1>3 DEF S, Then, First, MachinesUpTo

\* Running a listing obeys the requests it lists.
LEMMA RunIs ==
  ASSUME NEW requests \in Seq(Requests), NEW listing, NEW at, NEW places,
         Lists(listing, requests, at, places)
  PROVE  RunsTo(Machine, requests, Run(listing))
  <1>. DEFINE n == Len(requests)
              after == CHOOSE f : MachinesUpTo(f, listing, n)
  <1>1. n \in Nat /\ Len(listing) = n
    BY DEF Lists
  <1>2. MachinesUpTo(after, listing, n)
    BY <1>1, MachinesExist
  <1>3. Run(listing) = after[n]
    <2>1. Run(listing) = (CHOOSE f : f = [k \in 0 .. Len(listing) |-> IF k = 0 THEN Machine ELSE Executed(f[k - 1], listing[k])])[Len(listing)]
      BY Zenon DEF Run
    <2>. QED
      BY <1>1, <2>1 DEF MachinesUpTo
  <1>. HIDE DEF after
  <1>4. after[0] = Machine
    <2>1. 0 \in 0 .. n
      BY <1>1
    <2>. HIDE DEF n
    <2>. QED
      BY <1>2, <2>1, Zenon DEF MachinesUpTo
  <1>5. ASSUME NEW k \in 1 .. n
        PROVE  after[k] = Obeyed(after[k - 1], requests[k])
    <2>1. k \in 0 .. n /\ k # 0
      BY <1>1
    <2>2. listing[k] = Asked(requests[k], places[k], at[k])
      BY DEF Lists
    <2>. HIDE DEF n
    <2>3. after[k] = Executed(after[k - 1], listing[k])
      BY <1>2, <2>1, Zenon DEF MachinesUpTo
    <2>4. after[k] = Executed(after[k - 1], Asked(requests[k], places[k], at[k]))
      BY <2>2, <2>3, Zenon
    <2>. HIDE DEF after
    <2>5. Executed(after[k - 1], Asked(requests[k], places[k], at[k])) = Obeyed(after[k - 1], requests[k])
      BY AskedIsObeyed
    <2>. QED
      BY <2>4, <2>5
  <1>6. Traces(after, Machine, requests)
    BY <1>4, <1>5 DEF Traces
  <1>. QED
    BY <1>3, <1>6 DEF RunsTo

LEMMA MachineIsOne == IsMachine(Machine)
  <1>. DEFINE regs == [r \in Registers |-> Nothing]
  <1>1. regs = [r \in Registers |-> regs[r]]
    OBVIOUS
  <1>2. Machine = [regs |-> regs, stack |-> <<>>, calls |-> <<>>, ram |-> [id \in {} |-> <<>>], fault |-> FALSE]
    BY DEF Machine
  <1>. HIDE DEF regs
  <1>. QED
    BY <1>1, <1>2, MachineIs, Zenon

\* Jumps make a script bend.
Straight(requests) == \A k \in 1 .. Len(requests) : Refused(requests[k]) \/ requests[k].op \notin WithPlace

LEMMA StraightIs ==
  ASSUME NEW requests \in Seq(Requests), NEW listing, NEW at, NEW places,
         Lists(listing, requests, at, places)
  PROVE  StraightLine(listing) <=> Straight(requests)
  <1>. DEFINE n == Len(requests)
  <1>1. DOMAIN listing = 1 .. n
    BY DEF Lists
  <1>2. ASSUME NEW k \in 1 .. n
        PROVE  listing[k].op \notin WithPlace \cup {"garbage"}
                 <=> Refused(requests[k]) \/ requests[k].op \notin WithPlace
    <2>1. listing[k] = Asked(requests[k], places[k], at[k])
      BY DEF Lists
    <2>2. listing[k].op = IF Refused(requests[k]) THEN "NOP" ELSE requests[k].op
      BY <2>1 DEF Asked, Instruction
    <2>3. requests[k] \in Requests
      OBVIOUS
    <2>4. ~Refused(requests[k]) => requests[k].op \in Known
      BY <2>3, FormsOf
    <2>5. "garbage" \notin Known /\ "NOP" \notin WithPlace
      BY DEF Known, Bare, Unary, Binary, Ternary, WithData, WithPlace
    <2>. HIDE DEF n
    <2>. QED
      BY <2>2, <2>4, <2>5
  <1>. QED
    BY <1>1, <1>2 DEF StraightLine, Straight

-----------------------------------------------------------------------------
\* Registers.

\* Requests that write to no other registers than those of T.
Confined(T) == {r \in Simple : Targets(r.op, r.operands) \subseteq T}

LEMMA ConfinedForms ==
  ASSUME NEW T, NEW a \in Nat, NEW b \in Nat, NEW c \in Nat
  PROVE  /\ EmitPush(a) \in Confined(T)
         /\ Emit("EXTCALL", <<a>>) \in Confined(T) /\ Emit("SWITCH", <<a>>) \in Confined(T)
         /\ b \in T => /\ Emit2Arg("CTX", a, b) \in Confined(T)
                       /\ Emit3Arg("PUT", a, b, c) \in Confined(T)
                       /\ EmitCast(a, b, "None") \in Confined(T)
         /\ a \in T => \A arg \in Scalars : EmitLoad(a, arg) \in Confined(T)
  <1>1. Targets("PUSH", <<a>>) = {} /\ Targets("EXTCALL", <<a>>) = {} /\ Targets("SWITCH", <<a>>) = {}
    BY DEF Targets
  <1>2. EmitPush(a) \in Confined(T)
    BY <1>1, SimpleForms DEF Confined, EmitPush, Emit, Request
  <1>3. Emit("EXTCALL", <<a>>) \in Confined(T) /\ Emit("SWITCH", <<a>>) \in Confined(T)
    BY <1>1, SimpleForms DEF Confined, Emit, Request
  <1>4. /\ Targets("CTX", <<a, b>>) = {b} /\ Targets("PUT", <<a, b, c>>) = {b}
        /\ \A code : Targets("CAST", <<a, b, code>>) = {b} /\ Targets("LOAD", <<a, code>>) = {a}
    BY DEF Targets
  <1>5. ASSUME b \in T
        PROVE  Emit2Arg("CTX", a, b) \in Confined(T)
    BY <1>4, <1>5, SimpleForms DEF Confined, Emit2Arg, Emit, Request
  <1>6. ASSUME b \in T
        PROVE  Emit3Arg("PUT", a, b, c) \in Confined(T)
    BY <1>4, <1>6, SimpleForms DEF Confined, Emit3Arg, Emit, Request
  <1>7. ASSUME b \in T
        PROVE  EmitCast(a, b, "None") \in Confined(T)
    <2>. DEFINE r == EmitCast(a, b, "None")
    <2>1. r.op = "CAST" /\ r.operands = <<a, b, TypeCode["None"]>>
      BY DEF EmitCast, Emit, Request
    <2>2. r \in Simple
      BY SimpleForms
    <2>. HIDE DEF r
    <2>3. Targets(r.op, r.operands) = {b}
      BY <1>4, <2>1
    <2>4. r \in Confined(T)
      BY <1>7, <2>2, <2>3 DEF Confined
    <2>. QED
      BY <2>4 DEF r
  <1>8. ASSUME a \in T, NEW arg \in Scalars
        PROVE  EmitLoad(a, arg) \in Confined(T)
    <2>. DEFINE r == EmitLoad(a, arg)
    <2>1. r.op = "LOAD" /\ r.operands = <<a, TypeCode[arg.type]>>
      BY DEF EmitLoad, Request
    <2>2. r \in Simple
      BY LoadSimple
    <2>. HIDE DEF r
    <2>3. Targets(r.op, r.operands) = {a}
      BY <1>4, <2>1
    <2>4. r \in Confined(T)
      BY <1>8, <2>2, <2>3 DEF Confined
    <2>. QED
      BY <2>4 DEF r
  <1>. QED
    BY <1>2, <1>3, <1>5, <1>6, <1>7, <1>8

LEMMA ConfinedSeqs ==
  ASSUME NEW T
  PROVE  /\ \A a, b \in Seq(Confined(T)) : a \o b \in Seq(Confined(T))
         /\ \A r \in Confined(T) : <<r>> \in Seq(Confined(T))
         /\ \A r, q \in Confined(T) : <<r, q>> \in Seq(Confined(T))
  OBVIOUS

LEMMA ConfinedLoad ==
  ASSUME NEW T, NEW reg \in Nat, reg \in T, NEW arg \in Scalars
  PROVE  LoadScalar(reg, arg) \in Seq(Confined(T))
  BY ConfinedForms, ConfinedSeqs DEF LoadScalar

LEMMA ConfinedArray ==
  ASSUME NEW T, NEW reg \in Nat, reg \in T, NEW loads \in Seq(Seq(Confined(T))),
         loads # <<>> => TempKey(reg) \in T
  PROVE  LoadArray(reg, loads) \in Seq(Confined(T))
  <1>. DEFINE Element(j) == loads[j]
                 \o LoadScalar(TempKey(reg), Scalar("Number", Signed(j - 1)))
                 \o <<Emit3Arg("PUT", TempVal(reg), reg, TempKey(reg))>>
              elements == [j \in DOMAIN loads |-> Element(j)]
  <1>1. TempKey(reg) \in Nat /\ TempVal(reg) \in Nat
    BY DEF TempKey, TempVal
  <1>2. ASSUME NEW j \in DOMAIN loads
        PROVE  Element(j) \in Seq(Confined(T))
    <2>1. j - 1 \in Nat /\ loads # <<>>
      OBVIOUS
    <2>2. LoadScalar(TempKey(reg), Scalar("Number", Signed(j - 1))) \in Seq(Confined(T))
      BY <1>1, <2>1, NumberScalar, ConfinedLoad
    <2>3. <<Emit3Arg("PUT", TempVal(reg), reg, TempKey(reg))>> \in Seq(Confined(T))
      BY <1>1, ConfinedForms, ConfinedSeqs
    <2>4. loads[j] \in Seq(Confined(T))
      OBVIOUS
    <2>. QED
      BY <2>2, <2>3, <2>4, ConfinedSeqs
  <1>. HIDE DEF Element
  <1>3. elements \in Seq(Seq(Confined(T)))
    <2>. DEFINE C == Seq(Confined(T))
    <2>1. loads \in Seq(C) /\ \A j \in DOMAIN loads : Element(j) \in C
      BY <1>2
    <2>. HIDE DEF C
    <2>2. elements \in Seq(C)
      BY <2>1
    <2>. QED
      BY <2>2 DEF C
  <1>. HIDE DEF elements
  <1>4. FlattenSeq(elements) \in Seq(Confined(T))
    BY <1>3, FlattenIs
  <1>5. <<EmitCast(reg, reg, "None")>> \in Seq(Confined(T))
    BY ConfinedForms, ConfinedSeqs
  <1>6. LoadArray(reg, loads) = <<EmitCast(reg, reg, "None")>> \o FlattenSeq(elements)
    BY Zenon DEF LoadArray, elements, Element
  <1>. QED
    BY <1>4, <1>5, <1>6, ConfinedSeqs

\* The first n elements of an array as a value.
Built(n, values) ==
  IF n = 0 THEN Nothing
  ELSE [type |-> "Struct", bytes |-> <<>>, entries |-> {<<Signed(j - 1), values[j]>> : j \in 1 .. n}]

Flat == Scalars \cup Arrays(Scalars)

LEMMA FlatValueIs ==
  ASSUME NEW arg \in Flat
  PROVE  /\ arg.type = "Array" => /\ arg.items \in Seq(Scalars)
                                  /\ FlatValue(arg) = Built(Len(arg.items), arg.items)
         /\ arg.type # "Array" => arg \in Scalars /\ FlatValue(arg) = arg /\ FlatValue(arg).entries = {}
  <1>1. CASE arg.type = "Array"
    <2>1. arg.items \in Seq(Scalars)
      BY <1>1, TypeCodes DEF Flat, Scalars, Arrays
    <2>. DEFINE items == arg.items
    <2>2. FlatValue(arg) = IF items = <<>> THEN Nothing
            ELSE [type |-> "Struct", bytes |-> <<>>, entries |-> {<<Signed(j - 1), items[j]>> : j \in DOMAIN items}]
      BY <1>1 DEF FlatValue
    <2>3. items \in Seq(Scalars)
      BY <2>1
    <2>. HIDE DEF items
    <2>4. DOMAIN items = 1 .. Len(items) /\ (items = <<>> <=> Len(items) = 0)
      BY <2>3
    <2>5. FlatValue(arg) = Built(Len(items), items)
      BY <2>2, <2>4 DEF Built
    <2>. QED
      BY <1>1, <2>1, <2>5 DEF items
  <1>2. CASE arg.type # "Array"
    <2>1. arg \in Scalars
      BY <1>2 DEF Flat, Arrays
    <2>2. arg.entries = {}
      BY <2>1 DEF Scalars
    <2>. QED
      BY <1>2, <2>1, <2>2 DEF FlatValue
  <1>. QED
    BY <1>1, <1>2

LEMMA ValueOfIs ==
  ASSUME NEW arg \in Arguments
  PROVE  /\ arg.type = "Array" =>
              /\ arg.items \in Seq(Flat)
              /\ ValueOf(arg) = Built(Len(arg.items), [j \in 1 .. Len(arg.items) |-> FlatValue(arg.items[j])])
         /\ arg.type # "Array" => arg \in Scalars /\ ValueOf(arg) = arg /\ arg.entries = {}
  <1>1. CASE arg.type = "Array"
    <2>1. arg.items \in Seq(Flat)
      BY <1>1, TypeCodes DEF Arguments, Flat, Scalars, Arrays
    <2>. DEFINE n == Len(arg.items)
                values == [j \in 1 .. n |-> FlatValue(arg.items[j])]
                whole == ArrayOf(values)
    <2>2. n \in Nat /\ DOMAIN arg.items = 1 .. n
      BY <2>1
    <2>3. ValueOf(arg) = FlatValue(whole)
      BY <1>1, <2>2 DEF ValueOf
    <2>4. whole.type = "Array" /\ whole.items = values
      BY DEF ArrayOf
    <2>5. DOMAIN values = 1 .. n
      OBVIOUS
    <2>. HIDE DEF values, n
    <2>6. values = <<>> <=> n = 0
      <3>1. n = 0 => values = <<>>
        <4>1. n = 0 => values = [j \in {} |-> FlatValue(arg.items[j])]
          BY DEF values
        <4>. QED
          BY <4>1
      <3>. QED
        BY <2>2, <2>5, <3>1
    <2>. HIDE DEF whole
    <2>7. FlatValue(whole) = Built(n, values)
      BY <2>4, <2>5, <2>6 DEF FlatValue, Built
    <2>. QED
      BY <1>1, <2>1, <2>3, <2>7 DEF values, n
  <1>2. CASE arg.type # "Array"
    <2>1. arg \in Scalars
      BY <1>2 DEF Arguments, Arrays
    <2>2. arg.entries = {}
      BY <2>1 DEF Scalars
    <2>. QED
      BY <1>2, <2>1, <2>2 DEF ValueOf
  <1>. QED
    BY <1>1, <1>2

LEMMA ConfinedFlat ==
  ASSUME NEW T, NEW reg \in Nat, reg \in T, NEW arg \in Flat,
         FlatValue(arg).entries # {} => {TempVal(reg), TempKey(reg)} \subseteq T
  PROVE  LoadFlat(reg, arg) \in Seq(Confined(T))
  <1>1. CASE arg.type = "Array"
    <2>. DEFINE items == arg.items
                loads == [j \in DOMAIN items |-> LoadScalar(TempVal(reg), items[j])]
                C == Seq(Confined(T))
    <2>1. items \in Seq(Scalars) /\ FlatValue(arg) = Built(Len(items), items)
      BY <1>1, FlatValueIs
    <2>2. LoadFlat(reg, arg) = LoadArray(reg, loads)
      BY <1>1 DEF LoadFlat
    <2>. HIDE DEF items
    <2>3. ASSUME NEW j \in DOMAIN items
          PROVE  /\ {TempVal(reg), TempKey(reg)} \subseteq T
                 /\ LoadScalar(TempVal(reg), items[j]) \in C
      <3>1. Len(items) # 0 /\ j \in 1 .. Len(items)
        BY <2>1
      <3>2. <<Signed(j - 1), items[j]>> \in FlatValue(arg).entries
        BY <2>1, <3>1 DEF Built
      <3>3. TempVal(reg) \in T /\ TempVal(reg) \in Nat /\ items[j] \in Scalars
        BY <2>1, <3>2 DEF TempVal
      <3>. QED
        BY <3>2, <3>3, ConfinedLoad
    <2>. HIDE DEF C
    <2>4. loads \in Seq(C) /\ (loads # <<>> => \E j : j \in DOMAIN items)
      BY <2>1, <2>3
    <2>. HIDE DEF loads
    <2>5. loads # <<>> => TempKey(reg) \in T
      BY <2>3, <2>4
    <2>. QED
      BY <2>2, <2>4, <2>5, ConfinedArray DEF C
  <1>2. CASE arg.type # "Array"
    <2>1. arg \in Scalars
      BY <1>2, FlatValueIs
    <2>. QED
      BY <1>2, <2>1, ConfinedLoad DEF LoadFlat
  <1>. QED
    BY <1>1, <1>2

LEMMA ConfinedInto ==
  ASSUME NEW T, 0 \in T, NEW arg \in Arguments,
         Depth(ValueOf(arg)) # 0 => 0 .. Depth(ValueOf(arg)) + 1 \subseteq T
  PROVE  LoadIntoReg(0, arg) \in Seq(Confined(T))
  <1>1. CASE arg.type = "Array"
    <2>. DEFINE items == arg.items
                n == Len(items)
                value == ValueOf(arg)
                loads == [j \in DOMAIN items |-> LoadFlat(TempVal(0), items[j])]
                C == Seq(Confined(T))
    <2>1. items \in Seq(Flat) /\ value = Built(n, [j \in 1 .. n |-> FlatValue(items[j])])
      BY <1>1, ValueOfIs
    <2>2. LoadIntoReg(0, arg) = LoadArray(0, loads)
      BY <1>1 DEF LoadIntoReg
    <2>. HIDE DEF items, value
    <2>3. ASSUME NEW j \in DOMAIN items
          PROVE  TempKey(0) \in T /\ LoadFlat(TempVal(0), items[j]) \in C
      <3>1. n # 0 /\ j \in 1 .. n /\ items[j] \in Flat
        BY <2>1
      <3>. DEFINE e == <<Signed(j - 1), FlatValue(items[j])>>
      <3>2. e \in value.entries /\ e[2] = FlatValue(items[j])
        <4>1. value.entries = {<<Signed(l - 1), [k \in 1 .. n |-> FlatValue(items[k])][l]>> : l \in 1 .. n}
          BY <2>1, <3>1 DEF Built
        <4>. HIDE DEF n
        <4>2. [k \in 1 .. n |-> FlatValue(items[k])][j] = FlatValue(items[j])
          BY <3>1
        <4>3. <<Signed(j - 1), [k \in 1 .. n |-> FlatValue(items[k])][j]>> \in value.entries
          BY <3>1, <4>1
        <4>. QED
          BY <4>2, <4>3
      <3>. HIDE DEF e
      <3>3. Depth(value) \in {1, 2} /\ (e[2].entries # {} => Depth(value) = 2)
        BY <3>2 DEF Depth
      <3>4. /\ Depth(value) # 0 /\ 0 .. Depth(value) + 1 \subseteq T
            /\ \A r \in {0, 1, 2} : r \in 0 .. Depth(value) + 1
            /\ Depth(value) = 2 => 3 \in 0 .. Depth(value) + 1
        BY <3>3 DEF value
      <3>5. TempVal(0) = 1 /\ TempKey(0) = 2 /\ TempVal(1) = 2 /\ TempKey(1) = 3
        BY DEF TempVal, TempKey
      <3>6. 1 \in T /\ 2 \in T /\ (FlatValue(items[j]).entries # {} => 3 \in T)
        BY <3>2, <3>3, <3>4
      <3>7. LoadFlat(1, items[j]) \in C
        BY <3>1, <3>5, <3>6, ConfinedFlat
      <3>. QED
        BY <3>5, <3>6, <3>7
    <2>. HIDE DEF C
    <2>4. loads \in Seq(C) /\ (loads # <<>> => \E j : j \in DOMAIN items)
      <3>1. items \in Seq(Flat) /\ \A j \in DOMAIN items : LoadFlat(TempVal(0), items[j]) \in C
        BY <2>1, <2>3
      <3>. QED
        BY <3>1
    <2>. HIDE DEF loads
    <2>5. loads # <<>> => TempKey(0) \in T
      BY <2>3, <2>4
    <2>. QED
      BY <2>2, <2>4, <2>5, ConfinedArray DEF C
  <1>2. CASE arg.type # "Array"
    <2>1. arg \in Scalars
      BY <1>2, ValueOfIs
    <2>. QED
      BY <1>2, <2>1, ConfinedLoad DEF LoadIntoReg
  <1>. QED
    BY <1>1, <1>2

LEMMA ConfinedArgs ==
  ASSUME NEW T, NEW args \in Seq(Arguments),
         \A k \in DOMAIN args : LoadIntoReg(0, args[k]) \in Seq(Confined(T))
  PROVE  InsertMethodArgs(args) \in Seq(Confined(T))
  <1>. DEFINE inserts == [k \in DOMAIN args |-> InsertMethodArg(args[Len(args) + 1 - k])]
              C == Seq(Confined(T))
  <1>1. ASSUME NEW k \in DOMAIN args
        PROVE  InsertMethodArg(args[Len(args) + 1 - k]) \in C
    <2>1. Len(args) + 1 - k \in DOMAIN args
      OBVIOUS
    <2>2. LoadIntoReg(0, args[Len(args) + 1 - k]) \in C
      BY <2>1
    <2>3. <<EmitPush(0)>> \in C
      BY ConfinedForms, ConfinedSeqs
    <2>. QED
      BY <2>2, <2>3, ConfinedSeqs DEF InsertMethodArg
  <1>. HIDE DEF C
  <1>2. inserts \in Seq(C)
    BY <1>1
  <1>. HIDE DEF inserts
  <1>3. FlattenSeq(inserts) \in C
    BY <1>2, FlattenIs DEF C
  <1>. QED
    BY <1>3 DEF InsertMethodArgs, inserts, C

LEMMA ConfinedCall ==
  ASSUME NEW c \in Calls
  PROVE  CallRequests(c) \in Seq(Confined(Overwritten(Arrives(c))))
  <1>. DEFINE T == Overwritten(Arrives(c))
              args == c.args
              values == [k \in DOMAIN args |-> ValueOf(args[k])]
              deep(v) == IF Depth(v) = 0 THEN {} ELSE 0 .. Depth(v) + 1
  <1>1. c.contract \in Names \cup {""} /\ c.method \in Names /\ args \in Seq(Arguments)
        /\ c \in [contract : Names \cup {""}, method : Names, args : Seq(Arguments)]
    BY RequestsAssumption
  <1>2. Arrives(c).contract = c.contract /\ Arrives(c).args = values
    BY <1>1 DEF Arrives
  <1>3. T = {0} \cup (IF c.contract = "" THEN {} ELSE {1})
                \cup UNION {deep(v) : v \in {values[k] : k \in DOMAIN values}}
    <2>. DEFINE d == Arrives(c)
    <2>1. Overwritten(d) = {0} \cup (IF d.contract = "" THEN {} ELSE {1})
                \cup UNION {deep(v) : v \in {d.args[k] : k \in DOMAIN d.args}}
      BY Zenon DEF Overwritten
    <2>. HIDE DEF d, values, deep
    <2>2. d.contract = c.contract /\ d.args = values
      BY <1>2 DEF d
    <2>. QED
      BY <2>1, <2>2 DEF d
  <1>. HIDE DEF T, deep
  <1>4. 0 \in T /\ (c.contract # "" => 1 \in T)
    BY <1>3
  <1>5. ASSUME NEW k \in DOMAIN args
        PROVE  LoadIntoReg(0, args[k]) \in Seq(Confined(T))
    <2>1. args[k] \in Arguments
      <3>1. args \in Seq(Arguments) /\ k \in DOMAIN args
        BY <1>1
      <3>. HIDE DEF args
      <3>2. \A s \in Seq(Arguments) : \A j \in DOMAIN s : s[j] \in Arguments
        OBVIOUS
      <3>. QED
        BY <3>1, <3>2
    <2>2. deep(ValueOf(args[k])) \subseteq T
      <3>1. values[k] \in {values[j] : j \in DOMAIN values} /\ values[k] = ValueOf(args[k])
        OBVIOUS
      <3>. HIDE DEF values
      <3>. QED
        BY <1>3, <3>1
    <2>. QED
      BY <1>4, <2>1, <2>2, ConfinedInto DEF deep
  <1>. HIDE DEF args
  <1>6. InsertMethodArgs(args) \in Seq(Confined(T))
    BY <1>1, <1>5, ConfinedArgs
  <1>7. \A name \in Names : LoadScalar(0, Text(name)) \in Seq(Confined(T))
    BY <1>4, TextScalar, ConfinedLoad
  <1>8. <<Emit("EXTCALL", <<0>>)>> \in Seq(Confined(T)) /\ <<EmitPush(0)>> \in Seq(Confined(T))
    BY ConfinedForms, ConfinedSeqs
  <1>9. CASE c.contract = ""
    <2>1. CallRequests(c) = InsertMethodArgs(args) \o (LoadScalar(0, Text(c.method)) \o <<Emit("EXTCALL", <<0>>)>>)
      BY <1>9 DEF CallRequests, CallInterop, EmitExtCall, args
    <2>2. LoadScalar(0, Text(c.method)) \o <<Emit("EXTCALL", <<0>>)>> \in Seq(Confined(T))
      BY <1>1, <1>7, <1>8, ConfinedSeqs
    <2>. QED
      BY <1>6, <2>1, <2>2, ConfinedSeqs DEF T
  <1>10. CASE c.contract # ""
    <2>1. <<Emit2Arg("CTX", 0, 1), Emit("SWITCH", <<1>>)>> \in Seq(Confined(T))
      BY <1>4, <1>10, ConfinedForms, ConfinedSeqs
    <2>2. CallRequests(c) = InsertMethodArgs(args) \o LoadScalar(0, Text(c.method)) \o <<EmitPush(0)>>
            \o LoadScalar(0, Text(c.contract)) \o <<Emit2Arg("CTX", 0, 1), Emit("SWITCH", <<1>>)>>
      BY <1>10 DEF CallRequests, CallContract, args
    <2>3. LoadScalar(0, Text(c.method)) \in Seq(Confined(T)) /\ LoadScalar(0, Text(c.contract)) \in Seq(Confined(T))
      BY <1>1, <1>7, <1>10
    <2>. QED
      BY <1>6, <1>8, <2>1, <2>2, <2>3, ConfinedSeqs DEF T
  <1>. QED
    BY <1>9, <1>10

\* A run of such requests leaves the other registers alone.
LEMMA ConfinedRun ==
  ASSUME NEW T, NEW requests \in Seq(Confined(T)), NEW m, IsMachine(m), NEW n, RunsTo(m, requests, n)
  PROVE  IsMachine(n) /\ \A r \in Registers \ T : n.regs[r] = m.regs[r]
  <1>. DEFINE size == Len(requests)
  <1>1. PICK t : Traces(t, m, requests) /\ t[size] = n
    BY DEF RunsTo
  <1>. DEFINE Kept(o) == IsMachine(o) /\ \A r \in Registers \ T : o.regs[r] = m.regs[r]
              S == {k \in Nat : k <= size => Kept(t[k])}
  <1>2. size \in Nat
    OBVIOUS
  <1>3. 0 \in S
    BY <1>1 DEF Traces
  <1>4. ASSUME NEW k \in Nat, k \in S
        PROVE  k + 1 \in S
    <2>. DEFINE j == k + 1
    <2>. SUFFICES ASSUME j <= size PROVE Kept(t[j])
      OBVIOUS
    <2>1. j \in 1 .. size /\ j - 1 = k /\ k <= size
      BY <1>2
    <2>2. Kept(t[k])
      BY <1>4, <2>1
    <2>3. requests[j] \in Confined(T)
      BY <2>1
    <2>. HIDE DEF j
    <2>4. t[j] = Obeyed(t[k], requests[j])
      BY <1>1, <2>1 DEF Traces
    <2>5. Targets(requests[j].op, requests[j].operands) \subseteq T
      BY <2>3 DEF Confined
    <2>. DEFINE o == t[k]
                r == requests[j]
    <2>6. IsMachine(o)
      BY <2>2
    <2>. HIDE DEF o, r
    <2>7. IsMachine(Obeyed(o, r)) /\ \A s \in Registers \ Targets(r.op, r.operands) : Obeyed(o, r).regs[s] = o.regs[s]
      BY <2>6, ObeyedKeeps
    <2>8. Kept(o) /\ Targets(r.op, r.operands) \subseteq T /\ t[j] = Obeyed(o, r)
      BY <2>2, <2>4, <2>5 DEF o, r
    <2>. QED
      BY <2>7, <2>8
  <1>. HIDE DEF S
  <1>5. size \in S
    BY <1>2, <1>3, <1>4, Induction
  <1>. QED
    BY <1>1, <1>2, <1>5 DEF S

\* A machine runs into a machine.
LEMMA MachineRun ==
  ASSUME NEW S, NEW requests \in Seq(S), NEW m, IsMachine(m), NEW n, RunsTo(m, requests, n)
  PROVE  IsMachine(n)
  <1>. DEFINE size == Len(requests)
  <1>1. PICK t : Traces(t, m, requests) /\ t[size] = n
    BY DEF RunsTo
  <1>. DEFINE K == {k \in Nat : k <= size => IsMachine(t[k])}
  <1>2. size \in Nat
    OBVIOUS
  <1>3. 0 \in K
    BY <1>1 DEF Traces
  <1>4. ASSUME NEW k \in Nat, k \in K
        PROVE  k + 1 \in K
    <2>. DEFINE j == k + 1
    <2>. SUFFICES ASSUME j <= size PROVE IsMachine(t[j])
      OBVIOUS
    <2>1. j \in 1 .. size /\ j - 1 = k /\ k <= size
      BY <1>2
    <2>2. IsMachine(t[k])
      BY <1>4, <2>1
    <2>. HIDE DEF j
    <2>3. t[j] = Obeyed(t[k], requests[j])
      BY <1>1, <2>1 DEF Traces
    <2>. QED
      BY <2>2, <2>3, ObeyedKeeps
  <1>. HIDE DEF K
  <1>5. size \in K
    BY <1>2, <1>3, <1>4, Induction
  <1>. QED
    BY <1>1, <1>2, <1>5 DEF K

\* EndScript asks for a RET.
LEMMA EndSimple == Emit("RET", <<>>) \in Simple
  <1>1. /\ "RET" \in Known \ (WithLength \cup WithData \cup WithPlace)
        /\ OperandCount("RET") = 0
    BY DEF Known, Bare, Unary, Binary, Ternary, WithLength, WithData, WithPlace, OperandCount
  <1>2. <<>> \in Seq(Nat) /\ Len(<<>>) = 0
    OBVIOUS
  <1>. QED
    BY <1>1, <1>2, EmitSimple

\* What any step asks for follows what was asked for.
LEMMA NextAppends ==
  ASSUME Inv, Next
  PROVE  /\ before' = Len(requested)
         /\ \E more \in Seq(Requests) : requested' = requested \o more
  <1>0. requested \in Seq(Requests) /\ Seq(Simple) \subseteq Seq(Requests)
    BY DEF Inv, Simple
  <1>1. ASSUME NEW requests \in Seq(Simple), NEW calls, Step(requests, calls)
        PROVE  before' = Len(requested) /\ \E more \in Seq(Requests) : requested' = requested \o more
    BY <1>0, <1>1 DEF Step, MayAdd
  <1>2. ASSUME NEW r \in Requests, requested' = Append(requested, r)
        PROVE  \E more \in Seq(Requests) : requested' = requested \o more
    <2>1. <<r>> \in Seq(Requests) /\ requested' = requested \o <<r>>
      BY <1>0, <1>2
    <2>. QED
      BY <2>1
  <1>3. ASSUME NEW r \in Primitives, EmitPrimitive(r)
        PROVE  before' = Len(requested) /\ \E more \in Seq(Requests) : requested' = requested \o more
    <2>1. r \in Requests /\ requested' = Append(requested, r) /\ before' = Len(requested)
      BY <1>3, RequestsAssumption DEF EmitPrimitive, MayAdd
    <2>. QED
      BY <1>2, <2>1
  <1>4. ASSUME NEW c \in Calls, Call(c)
        PROVE  \E requests \in Seq(Simple) : \E calls : Step(requests, calls)
    BY <1>4, CallRequestsType DEF Call
  <1>5. ASSUME NEW n \in Nfts, Reads(n.symbol, n.id, n.rom_reg)
        PROVE  \E requests \in Seq(Simple) : \E calls : Step(requests, calls)
    BY <1>5, NftRequestsType DEF Reads
  <1>6. ASSUME NEW n \in Nfts, Writes(n.symbol, n.id, n.rom_reg)
        PROVE  \E requests \in Seq(Simple) : \E calls : Step(requests, calls)
    BY <1>6, NftRequestsType DEF Writes
  <1>7. ASSUME NEW n \in Nfts, Mints(n.symbol, n.from, n.to, n.rom_reg, n.ram_reg)
        PROVE  \E requests \in Seq(Simple) : \E calls : Step(requests, calls)
    BY <1>7, NftRequestsType DEF Mints
  <1>8. ASSUME NEW n \in Nfts, MintsIncrementing(n.id, n.symbol, n.from, n.to, n.rom, n.ram)
        PROVE  \E requests \in Seq(Simple) : \E calls : Step(requests, calls)
    BY <1>8, NftRequestsType DEF MintsIncrementing
  <1>9. CASE EndScript
    <2>1. Emit("RET", <<>>) \in Requests
      BY EndSimple DEF Simple
    <2>2. requested' = Append(requested, Emit("RET", <<>>)) /\ before' = Len(requested)
      BY <1>9 DEF EndScript
    <2>. QED
      BY <1>2, <2>1, <2>2
  <1>. QED
    BY <1>1, <1>3, <1>4, <1>5, <1>6, <1>7, <1>8, <1>9 DEF Next

\* The members called before the last one asked for a part of what is asked for.
Before == Inv /\ before \in 0 .. Len(requested)

LEMMA BeforeHolds == Spec => []Before
  <1>1. Init => Before
    <2>1. Init => before = 0 /\ requested = <<>>
      BY DEF Init
    <2>. QED
      BY <2>1, InitMade DEF Before
  <1>2. Before /\ Inv' /\ [Next]_vars => Before'
    <2>. SUFFICES ASSUME Before, Inv', [Next]_vars PROVE Before'
      OBVIOUS
    <2>1. CASE Next
      <3>1. PICK more \in Seq(Requests) : requested' = requested \o more
        BY <2>1, NextAppends DEF Before
      <3>2. before' = Len(requested) /\ requested \in Seq(Requests)
        BY <2>1, NextAppends DEF Before, Inv
      <3>3. before' \in 0 .. Len(requested')
        BY <3>1, <3>2
      <3>. QED
        BY <3>3 DEF Before
    <2>2. CASE UNCHANGED vars
      BY <2>2 DEF vars, Before
    <2>. QED
      BY <2>1, <2>2
  <1>. QED
    BY <1>1, <1>2, InvHolds, PTL DEF Spec

\* The first instructions of a listing are those of the first requests.
LEMMA ListsPart ==
  ASSUME NEW requests \in Seq(Requests), NEW listing, NEW at, NEW places,
         Lists(listing, requests, at, places), NEW x \in 0 .. Len(requests)
  PROVE  /\ SubSeq(requests, 1, x) \in Seq(Requests)
         /\ Lists(SubSeq(listing, 1, x), SubSeq(requests, 1, x), at, places)
  <1>. DEFINE n == Len(requests)
              part == SubSeq(requests, 1, x)
              A(k) == Asked(requests[k], places[k], at[k])
              S == {A(k) : k \in 1 .. n}
  <1>1. n \in Nat /\ x \in Nat /\ x <= n
    OBVIOUS
  <1>2. part \in Seq(Requests) /\ Len(part) = x /\ \A k \in 1 .. x : part[k] = requests[k]
    BY <1>1
  <1>3. listing = [k \in 1 .. n |-> A(k)]
    BY DEF Lists
  <1>4. \A k \in 1 .. n : A(k) \in S
    OBVIOUS
  <1>. HIDE DEF A, S
  <1>5. listing \in Seq(S) /\ Len(listing) = n /\ \A k \in 1 .. n : listing[k] = A(k)
    BY <1>1, <1>3, <1>4
  <1>. HIDE DEF n, part
  <1>6. SubSeq(listing, 1, x) = [k \in 1 .. x |-> A(k)]
    BY <1>1, <1>5
  <1>7. \A k \in 1 .. x : A(k) = Asked(part[k], places[k], at[k])
    BY <1>2 DEF A
  <1>8. SubSeq(listing, 1, x) = [k \in 1 .. Len(part) |-> Asked(part[k], places[k], at[k])]
    BY <1>2, <1>6, <1>7
  <1>. QED
    BY <1>2, <1>8 DEF Lists, part

LEMMA StraightParts ==
  ASSUME NEW a \in Seq(Requests), NEW b \in Seq(Requests)
  PROVE  Straight(a \o b) <=> Straight(a) /\ Straight(b)
  <1>. DEFINE Free(r) == Refused(r) \/ r.op \notin WithPlace
              x == Len(a)
              y == Len(b)
              ab == a \o b
  <1>1. x \in Nat /\ y \in Nat /\ Len(ab) = x + y
    OBVIOUS
  <1>2. (\A k \in 1 .. x : ab[k] = a[k]) /\ \A k \in 1 .. y : ab[x + k] = b[k]
    BY Joined
  <1>3. Straight(ab) <=> \A k \in 1 .. x + y : Free(ab[k])
    BY <1>1 DEF Straight
  <1>4. (Straight(a) <=> \A k \in 1 .. x : Free(a[k])) /\ (Straight(b) <=> \A k \in 1 .. y : Free(b[k]))
    BY DEF Straight
  <1>. HIDE DEF Free, x, y, ab
  <1>5. (\A k \in 1 .. x : k \in 1 .. x + y) /\ \A k \in 1 .. y : x + k \in 1 .. x + y
    BY <1>1
  <1>6. \A k \in 1 .. x + y : k \in 1 .. x \/ \E l \in 1 .. y : k = x + l
    BY <1>1, Halves
  <1>7. (\A k \in 1 .. x + y : Free(ab[k])) <=> (\A k \in 1 .. x : Free(a[k])) /\ \A k \in 1 .. y : Free(b[k])
    <2>1. ASSUME \A k \in 1 .. x + y : Free(ab[k])
          PROVE  (\A k \in 1 .. x : Free(a[k])) /\ \A k \in 1 .. y : Free(b[k])
      <3>1. \A k \in 1 .. x : Free(ab[k])
        BY <1>5, <2>1
      <3>2. \A k \in 1 .. y : Free(ab[x + k])
        BY <1>5, <2>1
      <3>. QED
        BY <1>2, <3>1, <3>2
    <2>2. ASSUME \A k \in 1 .. x : Free(a[k]), \A k \in 1 .. y : Free(b[k]), NEW k \in 1 .. x + y
          PROVE  Free(ab[k])
      BY <1>2, <1>6, <2>2
    <2>. QED
      BY <2>1, <2>2
  <1>. QED
    BY <1>3, <1>4, <1>7 DEF ab

LEMMA StraightSimple ==
  ASSUME NEW requests \in Seq(Simple)
  PROVE  requests \in Seq(Requests) /\ Straight(requests)
  <1>1. \A r \in Simple : r \in Requests /\ ~Jumps(r)
    BY SimpleNotNoted
  <1>2. \A k \in 1 .. Len(requests) : requests[k] \in Simple
    OBVIOUS
  <1>3. \A k \in 1 .. Len(requests) : Refused(requests[k]) \/ requests[k].op \notin WithPlace
    BY <1>1, <1>2, FormsOf
  <1>4. Simple \subseteq Requests
    BY <1>1
  <1>. QED
    BY <1>3, <1>4 DEF Straight

LEMMA CutInTwo ==
  ASSUME NEW S, NEW s \in Seq(S), NEW x \in 0 .. Len(s)
  PROVE  s = SubSeq(s, 1, x) \o SubSeq(s, x + 1, Len(s))
  <1>1. /\ 1 \in 1 .. Len(s) + 1 /\ x \in 1 - 1 .. Len(s) /\ Len(s) \in x .. Len(s)
    OBVIOUS
  <1>2. SubSeq(s, 1, x) \o SubSeq(s, x + 1, Len(s)) = SubSeq(s, 1, Len(s))
    BY <1>1, ConcatAdjacentSubSeq
  <1>. QED
    BY <1>2, SubSeqFull

LEMMA BeforeKeeps == Before => CallsKeepRegisters
  <1>. SUFFICES ASSUME Before, Readable, NEW c \in Calls,
                       SubSeq(requested, before + 1, Len(requested)) = CallRequests(c)
                PROVE  KeepsAcross(Arrives(c), Listing)
    BY DEF CallsKeepRegisters
  <1>. DEFINE n == Len(requested)
              a == SubSeq(requested, 1, before)
              b == CallRequests(c)
              T == Overwritten(Arrives(c))
              places == [k \in 1 .. n |-> Resolved(requested[k].label)]
              first == SubSeq(Listing, 1, before)
  <1>1. Inv /\ requested \in Seq(Requests) /\ before \in 0 .. n /\ n \in Nat
    BY DEF Before, Inv
  <1>2. PICK at : Made(at, requested, writer, _jumpLocations, _labelLocations)
    BY <1>1 DEF Inv
  <1>3. Lists(Listing, requested, at, places)
    BY <1>1, <1>2, ListingOfReadable
  <1>4. a \in Seq(Requests) /\ Lists(first, a, at, places)
    BY <1>1, <1>3, ListsPart
  <1>5. b \in Seq(Confined(T))
    BY ConfinedCall
  <1>6. b \in Seq(Simple)
    BY CallRequestsType
  <1>7. b \in Seq(Requests) /\ Straight(b)
    BY <1>6, StraightSimple
  <1>8. requested = a \o b
    BY <1>1, CutInTwo
  <1>. HIDE DEF n, a, b, T, places, first
  <1>9. StraightLine(Listing) <=> Straight(a)
    <2>1. StraightLine(Listing) <=> Straight(requested)
      BY <1>1, <1>3, StraightIs
    <2>2. Straight(a \o b) <=> Straight(a) /\ Straight(b)
      BY <1>4, <1>7, StraightParts
    <2>. QED
      BY <1>7, <1>8, <2>1, <2>2
  <1>10. StraightLine(first) <=> Straight(a)
    BY <1>4, StraightIs
  <1>11. CASE Straight(a)
    <2>1. MachineAfter(Listing) = Run(Listing) /\ MachineAfter(first) = Run(first)
      BY <1>9, <1>10, <1>11 DEF MachineAfter
    <2>2. RunsTo(Machine, a \o b, Run(Listing)) /\ RunsTo(Machine, a, Run(first))
      BY <1>1, <1>3, <1>4, <1>8, RunIs
    <2>3. PICK m : RunsTo(Machine, a, m) /\ RunsTo(m, b, Run(Listing))
      BY <1>4, <1>7, <2>2, RunsParted
    <2>4. m = Run(first)
      BY <1>4, <2>2, <2>3, RunsToOne
    <2>5. IsMachine(m)
      BY <1>4, <2>3, MachineIsOne, MachineRun
    <2>6. \A r \in Registers \ T : Run(Listing).regs[r] = m.regs[r]
      BY <1>5, <2>3, <2>5, ConfinedRun
    <2>. QED
      BY <2>1, <2>4, <2>6 DEF KeepsAcross, KeepsRegisters, T, first
  <1>12. CASE ~Straight(a)
    <2>1. MachineAfter(Listing) = Machine /\ MachineAfter(first) = Machine
      BY <1>9, <1>10, <1>12 DEF MachineAfter
    <2>. QED
      BY <2>1 DEF KeepsAcross, KeepsRegisters, first
  <1>. QED
    BY <1>11, <1>12

\* After a call every register that its arguments do not need holds what it
\* held before: CallContract, CallInterop and the LoadIntoReg they load their
\* arguments with use the registers 0 to 3 and only as many as arrays are deep.
THEOREM CallsKeepTheRegisters == Spec => []CallsKeepRegisters
  <1>1. Before => CallsKeepRegisters
    BY BeforeKeeps
  <1>. QED
    BY <1>1, BeforeHolds, PTL

-----------------------------------------------------------------------------
\* Instructions.

LEMMA ObeyedPlain ==
  ASSUME NEW m, NEW op, NEW operands, \A k \in 1 .. RegisterCount(op) : operands[k] \in Registers
  PROVE  Obeyed(m, Emit(op, operands)) = Effect(m, Emit(op, operands))
  <1>. DEFINE r == Emit(op, operands)
  <1>1. r.form = "Plain" /\ r.op = op /\ r.operands = operands
    BY DEF Emit, Request
  <1>. HIDE DEF r
  <1>2. ~Refused(r)
    BY <1>1 DEF Refused
  <1>3. Obeyed(m, r) = Effect(m, r)
    BY <1>1, <1>2 DEF Obeyed, Executed
  <1>. QED
    BY <1>3 DEF r

LEMMA OperandsAre ==
  ASSUME NEW op, NEW operands
  PROVE  Emit(op, operands).op = op /\ Emit(op, operands).operands = operands
  BY DEF Emit, Request

\* How many registers an operation needs.
LEMMA RegistersOf ==
  ASSUME NEW a \in Registers, NEW b \in Registers, NEW c \in Registers, NEW d
  PROVE  /\ \A op \in {"PUSH", "POP", "INC", "EXTCALL", "SWITCH"} :
              \A k \in 1 .. RegisterCount(op) : <<a>>[k] \in Registers
         /\ \A k \in 1 .. RegisterCount("CTX") : <<a, b>>[k] \in Registers
         /\ \A k \in 1 .. RegisterCount("CAST") : <<a, b, d>>[k] \in Registers
         /\ \A op \in {"PUT", "CAT"} : \A k \in 1 .. RegisterCount(op) : <<a, b, c>>[k] \in Registers
  <1>1. \A op \in {"PUSH", "POP", "INC", "EXTCALL", "SWITCH"} : RegisterCount(op) = 1
    BY DEF RegisterCount, OperandCount, Unary, Binary, Ternary
  <1>2. RegisterCount("CTX") = 2 /\ RegisterCount("CAST") = 2
    BY DEF RegisterCount, OperandCount, Unary, Binary, Ternary
  <1>3. \A op \in {"PUT", "CAT"} : RegisterCount(op) = 3
    BY DEF RegisterCount, OperandCount, Unary, Binary, Ternary
  <1>4. (\A k \in 1 .. 1 : k = 1) /\ (\A k \in 1 .. 2 : k = 1 \/ k = 2) /\ \A k \in 1 .. 3 : k = 1 \/ k = 2 \/ k = 3
    OBVIOUS
  <1>5. /\ \A k \in 1 .. 1 : <<a>>[k] \in Registers
        /\ \A k \in 1 .. 2 : <<a, b>>[k] \in Registers
        /\ \A k \in 1 .. 2 : <<a, b, d>>[k] \in Registers
        /\ \A k \in 1 .. 3 : <<a, b, c>>[k] \in Registers
    BY <1>4
  <1>. QED
    BY <1>1, <1>2, <1>3, <1>5

LEMMA ObeyedPush ==
  ASSUME NEW m, NEW a \in Registers
  PROVE  Obeyed(m, EmitPush(a)) = [m EXCEPT !.stack = <<m.regs[a]>> \o m.stack]
  <1>. DEFINE r == Emit("PUSH", <<a>>)
  <1>1. Obeyed(m, r) = Effect(m, r)
    BY RegistersOf, ObeyedPlain
  <1>2. r.op = "PUSH" /\ r.operands = <<a>> /\ <<a>>[1] = a
    BY OperandsAre
  <1>. HIDE DEF r
  <1>3. Effect(m, r) = [m EXCEPT !.stack = <<m.regs[a]>> \o m.stack]
    BY <1>2, EffectOf
  <1>. QED
    BY <1>1, <1>3 DEF EmitPush, r

LEMMA ObeyedPop ==
  ASSUME NEW m, NEW a \in Registers, m.stack # <<>>
  PROVE  Obeyed(m, EmitPop(a)) = Pop(Set(m, a, Head(m.stack)), 1)
  <1>. DEFINE r == Emit("POP", <<a>>)
  <1>1. Obeyed(m, r) = Effect(m, r)
    BY RegistersOf, ObeyedPlain
  <1>2. r.op = "POP" /\ r.operands = <<a>> /\ <<a>>[1] = a
    BY OperandsAre
  <1>. HIDE DEF r
  <1>3. Effect(m, r) = Pop(Set(m, a, Head(m.stack)), 1)
    BY <1>2, EffectOfPop
  <1>. QED
    BY <1>1, <1>3 DEF EmitPop, r

LEMMA ObeyedInc ==
  ASSUME NEW m, NEW a \in Registers, m.regs[a].type = "Number"
  PROVE  Obeyed(m, EmitInc(a)) = Set(m, a, Scalar("Number", Incremented(m.regs[a].bytes)))
  <1>. DEFINE r == Emit("INC", <<a>>)
  <1>1. Obeyed(m, r) = Effect(m, r)
    BY RegistersOf, ObeyedPlain
  <1>2. r.op = "INC" /\ r.operands = <<a>> /\ <<a>>[1] = a
    BY OperandsAre
  <1>. HIDE DEF r
  <1>3. Effect(m, r) = Set(m, a, Scalar("Number", Incremented(m.regs[a].bytes)))
    BY <1>2, EffectOfInc
  <1>. QED
    BY <1>1, <1>3 DEF EmitInc, r

\* A code is the code of its type.
LEMMA TypeOfCode ==
  ASSUME NEW type \in DOMAIN TypeCode
  PROVE  TypeOf(TypeCode[type]) = type
  <1>1. \E i \in DOMAIN VMTypes : VMTypes[i] = type
    BY Zenon DEF TypeCode
  <1>. DEFINE j == CHOOSE i \in DOMAIN VMTypes : VMTypes[i] = type
  <1>2. j \in DOMAIN VMTypes /\ VMTypes[j] = type
    BY <1>1
  <1>3. TypeCode[type] = j - 1
    BY DEF TypeCode
  <1>. HIDE DEF j
  <1>4. DOMAIN VMTypes = 1 .. 9 /\ Len(VMTypes) = 9
    BY DEF VMTypes
  <1>5. j - 1 < 9 /\ (j - 1) + 1 = j
    BY <1>2, <1>4
  <1>. QED
    BY <1>2, <1>3, <1>4, <1>5 DEF TypeOf

LEMMA ObeyedCast ==
  ASSUME NEW m, NEW a \in Registers
  PROVE  /\ Obeyed(m, EmitCast(a, a, "None")) = Set(m, a, Nothing)
         /\ \A type \in {"Bytes", "Number"} :
              Obeyed(m, EmitCast(a, a, type)) = Set(m, a, Scalar(type, m.regs[a].bytes))
  <1>1. ASSUME NEW type \in {"None", "Bytes", "Number"}
        PROVE  Obeyed(m, EmitCast(a, a, type)) =
                 Set(m, a, IF type = "None" THEN Nothing ELSE Scalar(type, m.regs[a].bytes))
    <2>. DEFINE code == TypeCode[type]
                r == Emit("CAST", <<a, a, code>>)
    <2>1. TypeOf(code) = type
      BY TypeCodes, TypeOfCode
    <2>. HIDE DEF code
    <2>2. Obeyed(m, r) = Effect(m, r)
      BY RegistersOf, ObeyedPlain
    <2>3. r.op = "CAST" /\ r.operands = <<a, a, code>>
      BY OperandsAre
    <2>4. <<a, a, code>>[1] = a /\ <<a, a, code>>[2] = a /\ <<a, a, code>>[3] = code
      OBVIOUS
    <2>. HIDE DEF r
    <2>5. Effect(m, r) = Set(m, a, IF type = "None" THEN Nothing ELSE Scalar(type, m.regs[a].bytes))
      <3>1. Effect(m, r) =
              Set(m, r.operands[2],
                  IF TypeOf(r.operands[3]) = "None" THEN Nothing
                  ELSE Scalar(TypeOf(r.operands[3]), m.regs[r.operands[1]].bytes))
        BY <2>3, EffectOf, Zenon
      <3>2. r.operands[1] = a /\ r.operands[2] = a /\ TypeOf(r.operands[3]) = type
        BY <2>1, <2>3, <2>4
      <3>. QED
        BY <3>1, <3>2, Zenon
    <2>. QED
      BY <2>2, <2>5 DEF EmitCast, r, code
  <1>. QED
    BY <1>1

TakesElements(m, reg) == m.regs[reg].type \in {"None", "Struct"}

Longer(array, key, value) ==
  [type |-> "Struct", bytes |-> <<>>, entries |-> array.entries \cup {<<key.bytes, value>>}]

LEMMA ObeyedPut ==
  ASSUME NEW m, NEW a \in Registers, NEW b \in Registers, NEW c \in Registers,
         TakesElements(m, b), m.regs[c].type = "Number"
  PROVE  Obeyed(m, Emit3Arg("PUT", a, b, c)) = Set(m, b, Longer(m.regs[b], m.regs[c], m.regs[a]))
  <1>. DEFINE r == Emit("PUT", <<a, b, c>>)
  <1>1. Obeyed(m, r) = Effect(m, r)
    BY RegistersOf, ObeyedPlain
  <1>2. r.op = "PUT" /\ r.operands = <<a, b, c>>
    BY OperandsAre
  <1>3. <<a, b, c>>[1] = a /\ <<a, b, c>>[2] = b /\ <<a, b, c>>[3] = c
    OBVIOUS
  <1>. HIDE DEF r
  <1>4. Effect(m, r) = Set(m, b, Longer(m.regs[b], m.regs[c], m.regs[a]))
    BY <1>2, <1>3, EffectOfPut DEF TakesElements, Longer
  <1>. QED
    BY <1>1, <1>4 DEF Emit3Arg, r

LEMMA ObeyedCat ==
  ASSUME NEW m, NEW a \in Registers, NEW b \in Registers, NEW c \in Registers,
         m.regs[a].type = "Bytes", m.regs[b].type = "Bytes"
  PROVE  Obeyed(m, Emit3Arg("CAT", a, b, c)) =
           Set(m, c, Scalar("Bytes", m.regs[a].bytes \o m.regs[b].bytes))
  <1>. DEFINE r == Emit("CAT", <<a, b, c>>)
  <1>1. Obeyed(m, r) = Effect(m, r)
    BY RegistersOf, ObeyedPlain
  <1>2. r.op = "CAT" /\ r.operands = <<a, b, c>>
    BY OperandsAre
  <1>3. <<a, b, c>>[1] = a /\ <<a, b, c>>[2] = b /\ <<a, b, c>>[3] = c
    OBVIOUS
  <1>. HIDE DEF r
  <1>4. Effect(m, r) = Set(m, c, Scalar("Bytes", m.regs[a].bytes \o m.regs[b].bytes))
    BY <1>2, <1>3, EffectOfCat
  <1>. QED
    BY <1>1, <1>4 DEF Emit3Arg, r

LEMMA ObeyedContext ==
  ASSUME NEW m, NEW a \in Registers, NEW b \in Registers, m.regs[a].type = "String"
  PROVE  Obeyed(m, Emit2Arg("CTX", a, b)) = Set(m, b, Scalar("Object", m.regs[a].bytes))
  <1>. DEFINE r == Emit("CTX", <<a, b>>)
  <1>1. Obeyed(m, r) = Effect(m, r)
    BY RegistersOf, ObeyedPlain
  <1>2. r.op = "CTX" /\ r.operands = <<a, b>>
    BY OperandsAre
  <1>3. <<a, b>>[1] = a /\ <<a, b>>[2] = b
    OBVIOUS
  <1>. HIDE DEF r
  <1>4. Effect(m, r) = Set(m, b, Scalar("Object", m.regs[a].bytes))
    BY <1>2, <1>3, EffectOfContext
  <1>. QED
    BY <1>1, <1>4 DEF Emit2Arg, r

LEMMA ObeyedLoad ==
  ASSUME NEW m, NEW a \in Registers, NEW arg \in Scalars, ~Refused(EmitLoad(a, arg))
  PROVE  Obeyed(m, EmitLoad(a, arg)) = Set(m, a, arg)
  <1>. DEFINE r == EmitLoad(a, arg)
              code == TypeCode[arg.type]
  <1>1. arg.type \in DOMAIN TypeCode /\ arg = Scalar(arg.type, arg.bytes)
    BY DEF Scalars, Scalar
  <1>2. TypeOf(code) = arg.type
    BY <1>1, TypeOfCode
  <1>3. r.op = "LOAD" /\ r.operands = <<a, code>> /\ r.data = arg.bytes
    BY DEF EmitLoad, Request
  <1>. HIDE DEF r, code
  <1>4. r.operands[1] = a /\ r.operands[2] = code
    BY <1>3
  <1>5. RegisterCount("LOAD") = 1 /\ \A k \in 1 .. 1 : k = 1
    BY DEF RegisterCount
  <1>6. Obeyed(m, r) = Effect(m, r)
    BY <1>3, <1>4, <1>5 DEF Obeyed, Executed, r
  <1>7. Effect(m, r) = Set(m, a, Scalar(TypeOf(code), arg.bytes))
    <2>1. Effect(m, r) = Set(m, r.operands[1], Scalar(TypeOf(r.operands[2]), r.data))
      BY <1>3, EffectOf, Zenon
    <2>. QED
      BY <1>3, <1>4, <2>1, Zenon
  <1>. QED
    BY <1>1, <1>2, <1>6, <1>7 DEF r

-----------------------------------------------------------------------------
\* Loading arguments.

LEMMA LoadableJoined ==
  ASSUME NEW S, NEW a \in Seq(S), NEW b \in Seq(S), Loadable(a \o b)
  PROVE  Loadable(a) /\ Loadable(b)
  <1>. DEFINE ab == a \o b
              x == Len(a)
              y == Len(b)
  <1>1. x \in Nat /\ y \in Nat /\ DOMAIN ab = 1 .. x + y /\ DOMAIN a = 1 .. x /\ DOMAIN b = 1 .. y
    OBVIOUS
  <1>2. (\A k \in 1 .. x : ab[k] = a[k]) /\ \A k \in 1 .. y : ab[x + k] = b[k]
    BY Joined
  <1>3. \A k \in DOMAIN ab : ~Refused(ab[k])
    BY DEF Loadable
  <1>. HIDE DEF ab, x, y
  <1>4. \A k \in 1 .. x : ~Refused(a[k])
    BY <1>1, <1>2, <1>3
  <1>5. \A k \in 1 .. y : ~Refused(b[k])
    <2>1. \A k \in 1 .. y : x + k \in 1 .. x + y
      BY <1>1
    <2>. QED
      BY <1>1, <1>2, <1>3, <2>1
  <1>. QED
    BY <1>1, <1>4, <1>5 DEF Loadable

LEMMA LoadableFlat ==
  ASSUME NEW S, NEW seqs \in Seq(Seq(S)), Loadable(FlattenSeq(seqs))
  PROVE  \A k \in 1 .. Len(seqs) : Loadable(seqs[k])
  <1>. DEFINE flat == FlattenSeq(seqs)
  <1>1. flat \in Seq(S)
    BY FlattenIs
  <1>2. PICK at : Layout(at, seqs, flat)
    BY FlattenIs
  <1>3. \A k \in DOMAIN flat : ~Refused(flat[k])
    BY DEF Loadable
  <1>. HIDE DEF flat
  <1>4. \A k \in 0 .. Len(seqs) : at[k] \in Nat /\ at[k] <= Len(flat)
    BY <1>1, <1>2, LayoutEnds
  <1>5. ASSUME NEW k \in 1 .. Len(seqs)
        PROVE  Loadable(seqs[k])
    <2>. DEFINE s == seqs[k]
                x == at[k - 1]
    <2>1. s \in Seq(S) /\ k - 1 \in 0 .. Len(seqs) /\ k \in 0 .. Len(seqs)
      <3>1. s \in Seq(S) /\ Len(seqs) \in Nat
        OBVIOUS
      <3>. HIDE DEF s
      <3>. QED
        BY <3>1
    <2>2. at[k] = x + Len(s) /\ \A j \in 1 .. Len(s) : flat[x + j] = s[j]
      BY <1>2 DEF Layout
    <2>3. x \in Nat /\ x + Len(s) <= Len(flat)
      BY <1>4, <2>1, <2>2
    <2>. HIDE DEF s, x
    <2>4. DOMAIN s = 1 .. Len(s) /\ DOMAIN flat = 1 .. Len(flat) /\ Len(s) \in Nat /\ Len(flat) \in Nat
      BY <1>1, <2>1
    <2>5. \A j \in 1 .. Len(s) : x + j \in 1 .. Len(flat)
      BY <2>3, <2>4
    <2>6. \A j \in DOMAIN s : ~Refused(s[j])
      BY <1>3, <2>2, <2>4, <2>5
    <2>. QED
      BY <2>6 DEF Loadable, s
  <1>. QED
    BY <1>5

\* Nothing but registers changes.
ChangesRegisters(m, n) == Changes(m, n, Registers)

LEMMA ChangesMore ==
  /\ \A m : IsMachine(m) => ChangesRegisters(m, m)
  /\ \A m, n, o : ChangesRegisters(m, n) /\ ChangesRegisters(n, o) => ChangesRegisters(m, o)
  /\ \A m, r, value : IsMachine(m) => ChangesRegisters(m, Set(m, r, value))
  <1>1. \A m, r, value : IsMachine(m) => ChangesRegisters(m, Set(m, r, value))
    BY SetChanges DEF ChangesRegisters, Changes
  <1>. QED
    BY <1>1 DEF ChangesRegisters, Changes

LEMMA SetHolds ==
  ASSUME NEW m, IsMachine(m), NEW r \in Registers, NEW value, NEW n, n = Set(m, r, value)
  PROVE  /\ IsMachine(n) /\ n.regs[r] = value /\ \A s \in Registers : s # r => n.regs[s] = m.regs[s]
         /\ n.stack = m.stack /\ n.calls = m.calls /\ n.ram = m.ram /\ n.fault = m.fault
         /\ ChangesRegisters(m, n)
  <1>1. Changes(m, n, {r}) /\ n.regs[r] = value
    BY SetChanges
  <1>. QED
    BY <1>1 DEF ChangesRegisters, Changes

\* The requests leave value in register reg, and change nothing but registers.
Loads(requests, reg, value) ==
  \A m, n : IsMachine(m) /\ RunsTo(m, requests, n) =>
    ChangesRegisters(m, n) /\ n.regs[reg] = value

LEMMA LoadsScalar ==
  ASSUME NEW reg \in Registers, NEW arg \in Scalars, Loadable(LoadScalar(reg, arg))
  PROVE  Loads(LoadScalar(reg, arg), reg, arg)
  <1>. DEFINE r == EmitLoad(reg, arg)
  <1>1. LoadScalar(reg, arg) = <<r>>
    BY DEF LoadScalar
  <1>. HIDE DEF r
  <1>2. ~Refused(r)
    <2>1. 1 \in DOMAIN <<r>> /\ <<r>>[1] = r
      OBVIOUS
    <2>. QED
      BY <1>1, <2>1 DEF Loadable
  <1>3. ASSUME NEW m, NEW n, IsMachine(m), RunsTo(m, <<r>>, n)
        PROVE  ChangesRegisters(m, n) /\ n.regs[reg] = arg
    <2>1. n = Obeyed(m, r)
      BY <1>3, RunsSingle
    <2>2. n = Set(m, reg, arg)
      BY <1>2, <2>1, ObeyedLoad DEF r
    <2>. QED
      BY <1>3, <2>2, SetHolds
  <1>. QED
    BY <1>1, <1>3 DEF Loads

LEMMA BuiltMore ==
  ASSUME NEW k \in Nat, NEW values
  PROVE  /\ Built(k, values).type \in {"None", "Struct"}
         /\ Built(k + 1, values) =
              [type |-> "Struct", bytes |-> <<>>,
               entries |-> Built(k, values).entries \cup {<<Signed(k), values[k + 1]>>}]
  <1>. DEFINE E(n) == {<<Signed(j - 1), values[j]>> : j \in 1 .. n}
  <1>1. Built(k + 1, values) = [type |-> "Struct", bytes |-> <<>>, entries |-> E(k + 1)]
    BY DEF Built
  <1>2. Built(k, values).type \in {"None", "Struct"} /\ Built(k, values).entries = IF k = 0 THEN {} ELSE E(k)
    BY DEF Built, Nothing, Scalar
  <1>3. E(0) = {}
    OBVIOUS
  <1>4. E(k + 1) = E(k) \cup {<<Signed(k), values[k + 1]>>}
    <2>1. 1 .. k + 1 = (1 .. k) \cup {k + 1} /\ k + 1 - 1 = k
      OBVIOUS
    <2>. DEFINE e(j) == <<Signed(j - 1), values[j]>>
    <2>2. e(k + 1) = <<Signed(k), values[k + 1]>>
      BY <2>1
    <2>. HIDE DEF e
    <2>3. {e(j) : j \in 1 .. k + 1} = {e(j) : j \in 1 .. k} \cup {e(k + 1)}
      BY <2>1
    <2>. QED
      BY <2>2, <2>3 DEF e
  <1>. HIDE DEF E
  <1>. QED
    BY <1>1, <1>2, <1>3, <1>4

\* Instructions that spare a register.
LEMMA Spared ==
  ASSUME NEW T, NEW requests \in Seq(Confined(T)), NEW m, IsMachine(m), NEW n, RunsTo(m, requests, n),
         NEW r \in Registers, r \notin T
  PROVE  n.regs[r] = m.regs[r]
  BY ConfinedRun

LEMMA ConfinedIsSimple ==
  ASSUME NEW T
  PROVE  Confined(T) \subseteq Simple /\ Seq(Confined(T)) \subseteq Seq(Simple)
  <1>1. Confined(T) \subseteq Simple
    BY DEF Confined
  <1>. QED
    BY <1>1

\* The requests that add the element that load loads, and what they do.
ElementRequests(reg, load, j) ==
  load \o LoadScalar(TempKey(reg), Scalar("Number", Signed(j)))
       \o <<Emit3Arg("PUT", TempVal(reg), reg, TempKey(reg))>>

AddsElement(m, n, reg, j, value) ==
  /\ ChangesRegisters(m, n)
  /\ n.regs[reg] = [type |-> "Struct", bytes |-> <<>>,
                    entries |-> m.regs[reg].entries \cup {<<Signed(j), value>>}]

\* One more element of an array.
LEMMA LoadsElement ==
  ASSUME NEW reg \in Registers, TempVal(reg) \in Registers, TempKey(reg) \in Registers, reg \in Nat,
         NEW T, reg \notin T, NEW load \in Seq(Confined(T)), NEW value, Loads(load, TempVal(reg), value),
         NEW j \in Nat, Loadable(LoadScalar(TempKey(reg), Scalar("Number", Signed(j)))),
         NEW m, IsMachine(m), TakesElements(m, reg), NEW n, RunsTo(m, ElementRequests(reg, load, j), n)
  PROVE  AddsElement(m, n, reg, j, value)
  <1>. DEFINE v == TempVal(reg)
              k == TempKey(reg)
              key == Scalar("Number", Signed(j))
              second == LoadScalar(k, key)
              put == Emit3Arg("PUT", v, reg, k)
  <1>1. v \in Nat /\ k \in Nat /\ v # k /\ k # reg
    BY DEF TempVal, TempKey
  <1>2. key \in Scalars /\ key.type = "Number" /\ key.bytes = Signed(j)
    BY NumberScalar DEF Scalar
  <1>. HIDE DEF v, k, key
  <1>3. load \in Seq(Simple) /\ second \in Seq(Confined({k})) /\ second \in Seq(Simple)
    <2>1. k \in {k}
      OBVIOUS
    <2>2. second \in Seq(Confined({k}))
      BY <1>1, <1>2, <2>1, ConfinedLoad
    <2>. QED
      BY <2>2, ConfinedIsSimple
  <1>4. <<put>> \in Seq(Simple)
    BY <1>1, SimpleForms, SimpleSeqs
  <1>5. v \in Registers /\ k \in Registers
    BY DEF v, k
  <1>6. Loads(second, k, key)
    BY <1>2, <1>5, LoadsScalar DEF k, key
  <1>7. RunsTo(m, load \o second \o <<put>>, n)
    BY DEF ElementRequests, v, k, key
  <1>. HIDE DEF second, put
  <1>8. PICK o : RunsTo(m, load \o second, o) /\ RunsTo(o, <<put>>, n)
    <2>1. load \o second \in Seq(Simple)
      BY <1>3, SimpleSeqs
    <2>. QED
      BY <1>4, <1>7, <2>1, RunsParted
  <1>9. PICK l : RunsTo(m, load, l) /\ RunsTo(l, second, o)
    BY <1>3, <1>8, RunsParted
  <1>10. ChangesRegisters(m, l) /\ l.regs[v] = value
    BY <1>9 DEF Loads, v
  <1>11. IsMachine(l)
    BY <1>10 DEF ChangesRegisters, Changes
  <1>12. l.regs[reg] = m.regs[reg]
    BY <1>9, Spared
  <1>13. ChangesRegisters(l, o) /\ o.regs[k] = key
    BY <1>6, <1>9, <1>11 DEF Loads
  <1>14. IsMachine(o)
    BY <1>13 DEF ChangesRegisters, Changes
  <1>15. o.regs[reg] = m.regs[reg] /\ o.regs[v] = value
    <2>1. reg \notin {k} /\ v \notin {k}
      BY <1>1
    <2>2. o.regs[reg] = l.regs[reg] /\ o.regs[v] = l.regs[v]
      BY <1>3, <1>5, <1>9, <1>11, <2>1, Spared
    <2>. QED
      BY <1>10, <1>12, <2>2
  <1>. DEFINE array == [type |-> "Struct", bytes |-> <<>>,
                        entries |-> m.regs[reg].entries \cup {<<Signed(j), value>>}]
  <1>16. n = Set(o, reg, array)
    <2>1. n = Obeyed(o, put)
      BY <1>8, RunsSingle
    <2>2. TakesElements(o, reg) /\ o.regs[k].type = "Number"
      BY <1>2, <1>13, <1>15 DEF TakesElements
    <2>3. Longer(o.regs[reg], o.regs[k], o.regs[v]) = array
      BY <1>2, <1>13, <1>15 DEF Longer
    <2>. HIDE DEF array
    <2>4. Obeyed(o, Emit3Arg("PUT", v, reg, k)) = Set(o, reg, array)
      BY <1>5, <2>2, <2>3, ObeyedPut
    <2>. QED
      BY <2>1, <2>4 DEF put
  <1>. HIDE DEF array
  <1>17. ChangesRegisters(o, n) /\ n.regs[reg] = array
    BY <1>14, <1>16, SetHolds
  <1>18. ChangesRegisters(m, n)
    BY <1>10, <1>13, <1>17, ChangesMore, Zenon
  <1>. QED
    BY <1>17, <1>18 DEF array, AddsElement

LEMMA LoadsArray ==
  ASSUME NEW reg \in Registers, TempVal(reg) \in Registers, TempKey(reg) \in Registers, reg \in Nat,
         NEW T, reg \notin T, NEW loads \in Seq(Seq(Confined(T))), NEW values,
         \A j \in 1 .. Len(loads) : Loadable(loads[j]) => Loads(loads[j], TempVal(reg), values[j]),
         Loadable(LoadArray(reg, loads))
  PROVE  Loads(LoadArray(reg, loads), reg, Built(Len(loads), values))
  <1>. DEFINE size == Len(loads)
              key(j) == LoadScalar(TempKey(reg), Scalar("Number", Signed(j - 1)))
              put == <<Emit3Arg("PUT", TempVal(reg), reg, TempKey(reg))>>
              Element(j) == loads[j] \o key(j) \o put
              elements == [j \in DOMAIN loads |-> Element(j)]
              clear == <<EmitCast(reg, reg, "None")>>
  <1>1. size \in Nat /\ DOMAIN loads = 1 .. size /\ \A j \in 1 .. size : loads[j] \in Seq(Confined(T))
    <2>. DEFINE C == Seq(Confined(T))
    <2>. HIDE DEF C
    <2>1. loads \in Seq(C)
      BY DEF C
    <2>. QED
      BY <2>1 DEF C
  <1>2. TempKey(reg) \in Nat /\ TempVal(reg) \in Nat
    BY DEF TempKey, TempVal
  <1>3. put \in Seq(Simple) /\ clear \in Seq(Simple)
    BY <1>2, SimpleForms, SimpleSeqs
  <1>4. ASSUME NEW j \in 1 .. size
        PROVE  /\ loads[j] \in Seq(Simple) /\ key(j) \in Seq(Simple) /\ loads[j] \o key(j) \in Seq(Simple)
               /\ Element(j) \in Seq(Simple)
    <2>1. loads[j] \in Seq(Simple)
      BY <1>1, ConfinedIsSimple
    <2>2. j - 1 \in Nat
      BY <1>1
    <2>3. key(j) \in Seq(Simple)
      BY <1>2, <2>2, NumberScalar, LoadSimple
    <2>. HIDE DEF key, put
    <2>4. loads[j] \o key(j) \in Seq(Simple)
      BY <2>1, <2>3, SimpleSeqs
    <2>. QED
      BY <1>3, <2>1, <2>3, <2>4, SimpleSeqs
  <1>5. LoadArray(reg, loads) = clear \o FlattenSeq(elements)
    BY Zenon DEF LoadArray
  <1>. HIDE DEF Element
  <1>6. elements \in Seq(Seq(Simple)) /\ Len(elements) = size /\ \A j \in 1 .. size : elements[j] = Element(j)
    <2>. DEFINE C == Seq(Simple)
    <2>1. \A j \in 1 .. size : Element(j) \in C
      BY <1>4
    <2>. HIDE DEF C, size
    <2>2. elements \in Seq(C) /\ Len(elements) = size /\ \A j \in 1 .. size : elements[j] = Element(j)
      BY <1>1, <2>1
    <2>. QED
      BY <2>2 DEF C
  <1>. HIDE DEF elements, clear
  <1>7. FlattenSeq(elements) \in Seq(Simple)
    BY <1>6, FlattenIs
  <1>8. Loadable(FlattenSeq(elements))
    BY <1>3, <1>5, <1>7, LoadableJoined
  <1>9. ASSUME NEW j \in 1 .. size
        PROVE  Loadable(key(j)) /\ Loadable(loads[j])
    <2>1. Loadable(loads[j] \o key(j) \o put)
      BY <1>6, <1>8, LoadableFlat DEF Element
    <2>. HIDE DEF key, put
    <2>2. Loadable(loads[j] \o key(j))
      BY <1>3, <1>4, <2>1, LoadableJoined
    <2>. QED
      BY <1>4, <2>2, LoadableJoined
  <1>. SUFFICES ASSUME NEW m, NEW n, IsMachine(m), RunsTo(m, clear \o FlattenSeq(elements), n)
                PROVE  ChangesRegisters(m, n) /\ n.regs[reg] = Built(size, values)
    BY <1>5 DEF Loads
  <1>10. PICK first : RunsTo(m, clear, first) /\ RunsTo(first, FlattenSeq(elements), n)
    BY <1>3, <1>7, RunsParted
  <1>11. ChangesRegisters(m, first) /\ first.regs[reg] = Nothing
    <2>1. first = Set(m, reg, Nothing)
      BY <1>10, RunsSingle, ObeyedCast DEF clear
    <2>. QED
      BY <2>1, SetHolds
  <1>12. PICK ms : /\ ms[0] = first /\ ms[Len(elements)] = n
                   /\ \A k \in 1 .. Len(elements) : RunsTo(ms[k - 1], elements[k], ms[k])
    <2>1. RunsTo(first, FlattenSeq(elements), n) /\ elements \in Seq(Seq(Simple))
      BY <1>6, <1>10
    <2>. QED
      BY <2>1, RunsFlat
  <1>. DEFINE K == {k \in Nat : k <= size => /\ ChangesRegisters(m, ms[k])
                                             /\ ms[k].regs[reg] = Built(k, values)}
  <1>13. 0 \in K
    BY <1>11, <1>12 DEF Built
  <1>14. ASSUME NEW k \in Nat, k \in K
         PROVE  k + 1 \in K
    <2>. DEFINE j == k + 1
                old == ms[k]
                new == ms[j]
    <2>. SUFFICES ASSUME j <= size
                  PROVE  ChangesRegisters(m, new) /\ new.regs[reg] = Built(j, values)
      OBVIOUS
    <2>1. j \in 1 .. size /\ j - 1 = k /\ k <= size
      BY <1>1
    <2>2. ChangesRegisters(m, old) /\ old.regs[reg] = Built(k, values)
      BY <1>14, <2>1
    <2>3. IsMachine(old)
      BY <2>2 DEF ChangesRegisters, Changes
    <2>4. /\ Built(k, values).type \in {"None", "Struct"}
          /\ Built(j, values) = [type |-> "Struct", bytes |-> <<>>,
                                 entries |-> Built(k, values).entries \cup {<<Signed(k), values[j]>>}]
      BY BuiltMore
    <2>. HIDE DEF j, size
    <2>5. RunsTo(old, Element(j), new)
      BY <1>6, <1>12, <2>1
    <2>6. Loadable(LoadScalar(TempKey(reg), Scalar("Number", Signed(k))))
      BY <1>9, <2>1
    <2>7. RunsTo(old, loads[j] \o LoadScalar(TempKey(reg), Scalar("Number", Signed(k))) \o put, new)
      BY <2>1, <2>5 DEF Element
    <2>. HIDE DEF old, new
    <2>8. loads[j] \in Seq(Confined(T)) /\ Loads(loads[j], TempVal(reg), values[j])
      BY <1>1, <1>9, <2>1 DEF size
    <2>9. /\ ChangesRegisters(old, new)
          /\ new.regs[reg] = [type |-> "Struct", bytes |-> <<>>,
                              entries |-> old.regs[reg].entries \cup {<<Signed(k), values[j]>>}]
      <3>1. TakesElements(old, reg)
        BY <2>2, <2>4 DEF TakesElements
      <3>. DEFINE value == values[j]
                  load == loads[j]
      <3>2. load \in Seq(Confined(T)) /\ Loads(load, TempVal(reg), value)
        BY <2>8
      <3>3. RunsTo(old, ElementRequests(reg, load, k), new)
        BY <2>7 DEF ElementRequests
      <3>. HIDE DEF value, load
      <3>4. AddsElement(old, new, reg, k, value)
        BY <2>3, <2>6, <3>1, <3>2, <3>3, LoadsElement
      <3>. QED
        BY <3>4 DEF AddsElement, value
    <2>10. new.regs[reg] = Built(j, values)
      BY <2>2, <2>4, <2>9
    <2>11. ChangesRegisters(m, new)
      BY <2>2, <2>9, ChangesMore, Zenon
    <2>. QED
      BY <2>10, <2>11
  <1>. HIDE DEF K
  <1>15. size \in K
    BY <1>1, <1>13, <1>14, Induction
  <1>. QED
    BY <1>1, <1>6, <1>12, <1>15 DEF K

LEMMA LowRegisters == 0 \in Registers /\ 1 \in Registers /\ 2 \in Registers /\ 3 \in Registers
  <1>1. 0 .. 3 \subseteq Registers
    BY CallersAssumption, Zenon
  <1>. QED
    BY <1>1

LEMMA LoadsFlat ==
  ASSUME NEW arg \in Flat, Loadable(LoadFlat(1, arg))
  PROVE  Loads(LoadFlat(1, arg), 1, FlatValue(arg))
  <1>1. /\ 1 \in Registers /\ 2 \in Registers /\ 3 \in Registers
        /\ TempVal(1) = 2 /\ TempKey(1) = 3 /\ 1 \in Nat /\ 1 \notin {2}
    BY LowRegisters DEF TempVal, TempKey
  <1>2. CASE arg.type = "Array"
    <2>. DEFINE items == arg.items
                loads == [j \in DOMAIN items |-> LoadScalar(2, items[j])]
                C == Seq(Confined({2}))
    <2>1. items \in Seq(Scalars) /\ FlatValue(arg) = Built(Len(items), items)
      BY <1>2, FlatValueIs
    <2>2. LoadFlat(1, arg) = LoadArray(1, loads)
      BY <1>1, <1>2 DEF LoadFlat
    <2>. HIDE DEF items
    <2>3. DOMAIN items = 1 .. Len(items) /\ \A j \in 1 .. Len(items) : items[j] \in Scalars
      BY <2>1
    <2>4. ASSUME NEW j \in 1 .. Len(items)
          PROVE  LoadScalar(2, items[j]) \in C
      BY <2>3, ConfinedLoad
    <2>. HIDE DEF C
    <2>5. /\ loads \in Seq(C) /\ Len(loads) = Len(items)
          /\ \A j \in 1 .. Len(items) : loads[j] = LoadScalar(2, items[j])
      BY <2>1, <2>3, <2>4
    <2>. HIDE DEF loads
    <2>6. ASSUME NEW j \in 1 .. Len(loads), Loadable(loads[j])
          PROVE  Loads(loads[j], TempVal(1), items[j])
      BY <1>1, <2>3, <2>5, <2>6, LoadsScalar
    <2>7. loads \in Seq(Seq(Confined({2}))) /\ Loadable(LoadArray(1, loads))
      BY <2>2, <2>5 DEF C
    <2>8. Loads(LoadArray(1, loads), 1, Built(Len(loads), items))
      BY <1>1, <2>6, <2>7, LoadsArray
    <2>. QED
      BY <2>1, <2>2, <2>5, <2>8
  <1>3. CASE arg.type # "Array"
    <2>1. arg \in Scalars /\ FlatValue(arg) = arg
      BY <1>3, FlatValueIs
    <2>2. LoadFlat(1, arg) = LoadScalar(1, arg)
      BY <1>3 DEF LoadFlat
    <2>. QED
      BY <1>1, <2>1, <2>2, LoadsScalar
  <1>. QED
    BY <1>2, <1>3

LEMMA LoadsInto ==
  ASSUME NEW arg \in Arguments, Loadable(LoadIntoReg(0, arg))
  PROVE  Loads(LoadIntoReg(0, arg), 0, ValueOf(arg))
  <1>1. /\ 0 \in Registers /\ 1 \in Registers /\ 2 \in Registers
        /\ TempVal(0) = 1 /\ TempKey(0) = 2 /\ TempVal(1) = 2 /\ TempKey(1) = 3 /\ 0 \in Nat /\ 0 \notin {1, 2, 3}
    BY LowRegisters DEF TempVal, TempKey
  <1>2. CASE arg.type = "Array"
    <2>. DEFINE items == arg.items
                n == Len(items)
                values == [j \in 1 .. n |-> FlatValue(items[j])]
                loads == [j \in DOMAIN items |-> LoadFlat(1, items[j])]
                T == {1, 2, 3}
                C == Seq(Confined(T))
    <2>1. items \in Seq(Flat) /\ ValueOf(arg) = Built(n, values)
      BY <1>2, ValueOfIs
    <2>2. LoadIntoReg(0, arg) = LoadArray(0, loads)
      BY <1>1, <1>2 DEF LoadIntoReg
    <2>. HIDE DEF items
    <2>3. n \in Nat /\ DOMAIN items = 1 .. n /\ \A j \in 1 .. n : items[j] \in Flat
      BY <2>1
    <2>. HIDE DEF n
    <2>4. ASSUME NEW j \in 1 .. n
          PROVE  LoadFlat(1, items[j]) \in C
      <3>1. 1 \in T /\ {TempVal(1), TempKey(1)} \subseteq T /\ 1 \in Nat
        BY <1>1
      <3>. HIDE DEF T
      <3>. QED
        BY <2>3, <3>1, ConfinedFlat
    <2>. HIDE DEF C
    <2>5. /\ loads \in Seq(C) /\ Len(loads) = n
          /\ \A j \in 1 .. n : loads[j] = LoadFlat(1, items[j])
      BY <2>1, <2>3, <2>4
    <2>. HIDE DEF loads
    <2>6. ASSUME NEW j \in 1 .. Len(loads), Loadable(loads[j])
          PROVE  Loads(loads[j], TempVal(0), values[j])
      <3>1. j \in 1 .. n /\ items[j] \in Flat /\ loads[j] = LoadFlat(1, items[j])
        BY <2>3, <2>5
      <3>2. values[j] = FlatValue(items[j])
        BY <3>1
      <3>. HIDE DEF values
      <3>. QED
        BY <1>1, <2>6, <3>1, <3>2, LoadsFlat
    <2>7. loads \in Seq(Seq(Confined(T))) /\ Loadable(LoadArray(0, loads)) /\ 0 \notin T
      BY <1>1, <2>2, <2>5 DEF C
    <2>. HIDE DEF T, values
    <2>8. Loads(LoadArray(0, loads), 0, Built(Len(loads), values))
      BY <1>1, <2>6, <2>7, LoadsArray
    <2>. QED
      BY <2>1, <2>2, <2>5, <2>8
  <1>3. CASE arg.type # "Array"
    <2>1. arg \in Scalars /\ ValueOf(arg) = arg
      BY <1>3, ValueOfIs
    <2>2. LoadIntoReg(0, arg) = LoadScalar(0, arg)
      BY <1>3 DEF LoadIntoReg
    <2>. QED
      BY <1>1, <2>1, <2>2, LoadsScalar
  <1>. QED
    BY <1>2, <1>3

\* The requests push values, and change nothing else but registers.
Pushes(requests, values) ==
  \A S, m, n : IsMachine(m) /\ m.stack \in Seq(S) /\ values \in Seq(S) /\ RunsTo(m, requests, n) =>
    /\ IsMachine(n) /\ n.calls = m.calls /\ n.ram = m.ram /\ n.fault = m.fault
    /\ n.stack = values \o m.stack

LEMMA PushesThem ==
  ASSUME NEW S, NEW requests, NEW values \in Seq(S), Pushes(requests, values),
         NEW m, IsMachine(m), m.stack \in Seq(S), NEW n, RunsTo(m, requests, n)
  PROVE  /\ IsMachine(n) /\ n.calls = m.calls /\ n.ram = m.ram /\ n.fault = m.fault
         /\ n.stack = values \o m.stack
  BY Zenon DEF Pushes

LEMMA PushedIs ==
  ASSUME NEW m, IsMachine(m), NEW a \in Registers, NEW n, RunsTo(m, <<EmitPush(a)>>, n)
  PROVE  /\ IsMachine(n) /\ n.calls = m.calls /\ n.ram = m.ram /\ n.fault = m.fault
         /\ n.stack = <<m.regs[a]>> \o m.stack /\ n.regs = m.regs
  <1>. DEFINE stack == <<m.regs[a]>> \o m.stack
  <1>1. n = [m EXCEPT !.stack = stack]
    BY RunsSingle, ObeyedPush
  <1>. HIDE DEF stack
  <1>2. KeepsAll(m, n)
    BY <1>1, ExceptKeeps
  <1>3. n.calls = m.calls /\ n.ram = m.ram /\ n.fault = m.fault /\ n.stack = stack
    BY <1>1 DEF IsMachine
  <1>. QED
    BY <1>2, <1>3 DEF KeepsAll, stack

LEMMA PushesArg ==
  ASSUME NEW arg \in Arguments, Loadable(InsertMethodArg(arg))
  PROVE  Pushes(InsertMethodArg(arg), <<ValueOf(arg)>>)
  <1>. DEFINE load == LoadIntoReg(0, arg)
              push == <<EmitPush(0)>>
              value == ValueOf(arg)
  <1>1. InsertMethodArg(arg) = load \o push
    BY DEF InsertMethodArg
  <1>2. load \in Seq(Simple) /\ push \in Seq(Simple) /\ 0 \in Registers
    BY LoadIntoRegType, SimpleForms, SimpleSeqs, LowRegisters
  <1>3. Loads(load, 0, value)
    BY <1>1, <1>2, LoadableJoined, LoadsInto
  <1>. HIDE DEF load, value
  <1>4. ASSUME NEW S, NEW m, NEW n, IsMachine(m), RunsTo(m, load \o push, n)
        PROVE  /\ IsMachine(n) /\ n.calls = m.calls /\ n.ram = m.ram /\ n.fault = m.fault
               /\ n.stack = <<value>> \o m.stack
    <2>1. PICK o : RunsTo(m, load, o) /\ RunsTo(o, push, n)
      BY <1>2, <1>4, RunsParted
    <2>2. ChangesRegisters(m, o) /\ o.regs[0] = value
      BY <1>3, <1>4, <2>1 DEF Loads
    <2>3. IsMachine(o) /\ o.calls = m.calls /\ o.ram = m.ram /\ o.fault = m.fault /\ o.stack = m.stack
      BY <2>2 DEF ChangesRegisters, Changes
    <2>. QED
      BY <1>2, <2>1, <2>2, <2>3, PushedIs
  <1>. QED
    BY <1>1, <1>4 DEF Pushes, value

LEMMA TailGrows ==
  ASSUME NEW S, NEW s \in Seq(S), NEW t \in Seq(S), NEW i \in 1 .. Len(s)
  PROVE  /\ SubSeq(s, i + 1, Len(s)) \in Seq(S)
         /\ <<s[i]>> \o (SubSeq(s, i + 1, Len(s)) \o t) = SubSeq(s, i, Len(s)) \o t
  <1>. DEFINE n == Len(s)
              a == <<s[i]>>
              b == SubSeq(s, i + 1, n)
  <1>1. n \in Nat /\ i \in 1 .. n /\ n \in i .. n
    OBVIOUS
  <1>2. a \in Seq(S) /\ b \in Seq(S)
    BY <1>1
  <1>3. SubSeq(s, i, n) = a \o b
    <2>. HIDE DEF n
    <2>. QED
      BY <1>1, SubSeqRecursiveFirst DEF n
  <1>. HIDE DEF a, b
  <1>4. (a \o b) \o t = a \o (b \o t)
    BY <1>2
  <1>. QED
    BY <1>2, <1>3, <1>4 DEF a, b

\* The values of arguments.
ValuesOf(args) == [k \in 1 .. Len(args) |-> ValueOf(args[k])]

\* The last argument is pushed first.
LEMMA PushesArgs ==
  ASSUME NEW args \in Seq(Arguments), Loadable(InsertMethodArgs(args))
  PROVE  Pushes(InsertMethodArgs(args), ValuesOf(args))
  <1>. DEFINE n == Len(args)
              inserts == [k \in DOMAIN args |-> InsertMethodArg(args[n + 1 - k])]
              values == ValuesOf(args)
              C == Seq(Simple)
  <1>1. n \in Nat /\ DOMAIN args = 1 .. n /\ \A k \in 1 .. n : args[k] \in Arguments
    OBVIOUS
  <1>2. InsertMethodArgs(args) = FlattenSeq(inserts)
    BY Zenon DEF InsertMethodArgs
  <1>. HIDE DEF n
  <1>3. ASSUME NEW k \in 1 .. n
        PROVE  /\ n + 1 - k \in 1 .. n /\ args[n + 1 - k] \in Arguments
               /\ InsertMethodArg(args[n + 1 - k]) \in C
    <2>1. n + 1 - k \in 1 .. n /\ args[n + 1 - k] \in Arguments
      BY <1>1
    <2>2. LoadIntoReg(0, args[n + 1 - k]) \in Seq(Simple)
      BY <2>1, LoadIntoRegType
    <2>3. <<EmitPush(0)>> \in Seq(Simple)
      BY SimpleForms, SimpleSeqs
    <2>. QED
      BY <2>1, <2>2, <2>3, SimpleSeqs DEF InsertMethodArg
  <1>. HIDE DEF C
  <1>4. /\ inserts \in Seq(C) /\ Len(inserts) = n
        /\ \A k \in 1 .. n : inserts[k] = InsertMethodArg(args[n + 1 - k])
    BY <1>1, <1>3
  <1>5. values = [k \in 1 .. n |-> ValueOf(args[k])]
    BY DEF ValuesOf, n
  <1>. HIDE DEF inserts, values
  <1>6. inserts \in Seq(Seq(Simple)) /\ Loadable(FlattenSeq(inserts))
    BY <1>2, <1>4 DEF C
  <1>7. ASSUME NEW k \in 1 .. n
        PROVE  Pushes(inserts[k], <<ValueOf(args[n + 1 - k])>>)
    <2>1. Loadable(inserts[k])
      BY <1>4, <1>6, LoadableFlat
    <2>. QED
      BY <1>3, <1>4, <2>1, PushesArg
  <1>8. ASSUME NEW S, NEW m, NEW o, IsMachine(m), m.stack \in Seq(S), values \in Seq(S),
               RunsTo(m, FlattenSeq(inserts), o)
        PROVE  /\ IsMachine(o) /\ o.calls = m.calls /\ o.ram = m.ram /\ o.fault = m.fault
               /\ o.stack = values \o m.stack
    <2>1. PICK ms : /\ ms[0] = m /\ ms[Len(inserts)] = o
                    /\ \A k \in 1 .. Len(inserts) : RunsTo(ms[k - 1], inserts[k], ms[k])
      BY <1>6, <1>8, RunsFlat
    <2>. DEFINE Done(k) == SubSeq(values, n + 1 - k, n)
                Reached(k, l) == /\ IsMachine(l) /\ l.calls = m.calls /\ l.ram = m.ram /\ l.fault = m.fault
                                 /\ l.stack = Done(k) \o m.stack
                K == {k \in Nat : k <= n => Reached(k, ms[k])}
    <2>2. Len(values) = n /\ \A k \in 1 .. n : values[k] = ValueOf(args[k])
      BY <1>1, <1>5
    <2>3. 0 \in K
      <3>1. Done(0) = <<>> /\ <<>> \o m.stack = m.stack
        BY <1>1, <1>8, <2>2
      <3>. QED
        BY <1>8, <2>1, <3>1
    <2>. HIDE DEF Reached
    <2>4. ASSUME NEW k \in Nat, k \in K
          PROVE  k + 1 \in K
      <3>. DEFINE j == k + 1
                  i == n + 1 - j
                  old == ms[k]
                  new == ms[j]
      <3>. SUFFICES ASSUME j <= n PROVE Reached(j, new)
        OBVIOUS
      <3>1. /\ j \in 1 .. n /\ j - 1 = k /\ k <= n /\ i \in 1 .. n
            /\ n + 1 - k = i + 1
        BY <1>1
      <3>2. Reached(k, old)
        BY <2>4, <3>1
      <3>3. Done(k) = SubSeq(values, i + 1, n) /\ Done(j) = SubSeq(values, i, n)
        BY <3>1
      <3>. HIDE DEF Done, j
      <3>4. RunsTo(old, inserts[j], new)
        BY <1>4, <2>1, <3>1
      <3>5. Pushes(inserts[j], <<ValueOf(args[i])>>)
        BY <1>7, <3>1
      <3>6. values[i] = ValueOf(args[i]) /\ values[i] \in S
        <4>1. \A l \in 1 .. Len(values) : values[l] \in S
          BY <1>8
        <4>. QED
          BY <2>2, <3>1, <4>1
      <3>. HIDE DEF i, old, new
      <3>7. <<values[i]>> \in Seq(S)
        BY <3>6
      <3>8. /\ SubSeq(values, i + 1, n) \in Seq(S)
            /\ <<values[i]>> \o (SubSeq(values, i + 1, n) \o m.stack) = SubSeq(values, i, n) \o m.stack
        <4>1. i \in 1 .. Len(values) /\ Len(values) = n
          BY <2>2, <3>1
        <4>. QED
          BY <1>8, <4>1, TailGrows
      <3>9. old.stack \in Seq(S) /\ IsMachine(old)
        BY <1>8, <3>2, <3>3, <3>8 DEF Reached
      <3>10. /\ IsMachine(new) /\ new.calls = old.calls /\ new.ram = old.ram /\ new.fault = old.fault
             /\ new.stack = <<values[i]>> \o old.stack
        <4>1. Pushes(inserts[j], <<values[i]>>)
          BY <3>5, <3>6
        <4>. QED
          BY <3>4, <3>7, <3>9, <4>1, Zenon DEF Pushes
      <3>. QED
        BY <3>2, <3>3, <3>8, <3>10 DEF Reached
    <2>. HIDE DEF K
    <2>5. n \in K
      BY <1>1, <2>3, <2>4, Induction
    <2>6. Done(n) = values
      <3>1. n + 1 - n = 1
        BY <1>1
      <3>2. SubSeq(values, 1, Len(values)) = values
        BY <1>8
      <3>. QED
        BY <2>2, <3>1, <3>2
    <2>. HIDE DEF Done
    <2>. QED
      BY <1>1, <1>4, <2>1, <2>5, <2>6 DEF K, Reached
  <1>. QED
    BY <1>2, <1>8 DEF Pushes, values

-----------------------------------------------------------------------------
\* Calling.

\* The bytes of a text name one method.
LEMMA MethodIs ==
  ASSUME NEW name \in Names, NEW stack, Arity[name] <= Len(stack)
  PROVE  MethodOf(Text(name), stack) = name
  <1>. DEFINE named == {n \in Names : Text(name) = Scalar("String", Utf8[n]) /\ Arity[n] <= Len(stack)}
  <1>1. \A m, n \in Names : Utf8[m] = Utf8[n] => m = n
    BY CallersAssumption, Zenon
  <1>2. \A n \in Names : Text(name) = Scalar("String", Utf8[n]) => Utf8[name] = Utf8[n]
    BY DEF Text, Scalar
  <1>3. name \in named
    BY DEF Text
  <1>4. \A n \in named : n = name
    BY <1>1, <1>2
  <1>. HIDE DEF named
  <1>5. (CHOOSE n \in named : TRUE) = name
    BY <1>3, <1>4
  <1>6. MethodOf(Text(name), stack) = IF named = {} THEN "" ELSE CHOOSE n \in named : TRUE
    BY Zenon DEF MethodOf, named
  <1>. QED
    BY <1>3, <1>5, <1>6

LEMMA ContractIs ==
  ASSUME NEW name \in Names
  PROVE  (CHOOSE c \in Names : Utf8[c] = Utf8[name]) = name
  <1>1. \A m, n \in Names : Utf8[m] = Utf8[n] => m = n
    BY CallersAssumption, Zenon
  <1>. QED
    BY <1>1

LEMMA CutsOfJoined ==
  ASSUME NEW S, NEW a \in Seq(S), NEW b \in Seq(S)
  PROVE  SubSeq(a \o b, 1, Len(a)) = a /\ SubSeq(a \o b, Len(a) + 1, Len(a \o b)) = b
  <1>. DEFINE ab == a \o b
              x == Len(a)
              y == Len(b)
              cut == SubSeq(ab, x + 1, x + y)
  <1>1. x \in Nat /\ y \in Nat /\ Len(ab) = x + y /\ ab \in Seq(S)
    OBVIOUS
  <1>2. \A i \in 1 .. y : ab[x + i] = b[i]
    OBVIOUS
  <1>3. SubSeq(ab, 1, x) = a
    OBVIOUS
  <1>. HIDE DEF ab, x, y
  <1>4. cut \in Seq(S) /\ Len(cut) = y /\ \A i \in 1 .. y : cut[i] = ab[x + i]
    BY <1>1
  <1>5. Len(b) = y /\ b \in Seq(S)
    BY DEF y
  <1>. HIDE DEF cut
  <1>6. cut = b
    BY <1>2, <1>4, <1>5, SeqEqual
  <1>. QED
    BY <1>1, <1>3, <1>6 DEF ab, x, y, cut

\* n has made a call more than m, and has stack on its stack.
Makes(m, n, call, stack) ==
  IsMachine(n) /\ n.stack = stack /\ n.fault = m.fault /\ n.calls = Append(m.calls, call)

\* A call takes its arguments off the stack.
LEMMA CalledIs ==
  ASSUME NEW S, NEW args \in Seq(S), NEW rest \in Seq(S), NEW m, IsMachine(m),
         m.stack = args \o rest, NEW contract, NEW method
  PROVE  Makes(m, Called(m, contract, method, args), ContractCall(contract, method, args), rest)
  <1>. DEFINE call == ContractCall(contract, method, args)
              o == Pop(m, Len(args))
              n == Called(m, contract, method, args)
  <1>1. n = [o EXCEPT !.calls = Append(m.calls, call)]
    BY Zenon DEF Called, ContractCall
  <1>2. o = [m EXCEPT !.stack = SubSeq(m.stack, Len(args) + 1, Len(m.stack))]
    BY DEF Pop
  <1>3. SubSeq(m.stack, Len(args) + 1, Len(m.stack)) = rest
    BY CutsOfJoined
  <1>. HIDE DEF call, n
  <1>4. IsMachine(o) /\ o.stack = rest /\ o.fault = m.fault
    <2>1. IsMachine(o)
      BY CalledKeeps DEF KeepsAll
    <2>. QED
      BY <1>2, <1>3, <2>1 DEF IsMachine
  <1>. HIDE DEF o
  <1>5. IsMachine(n)
    BY <1>1, <1>4, ExceptKeeps DEF KeepsAll
  <1>6. n.stack = rest /\ n.fault = m.fault /\ n.calls = Append(m.calls, call)
    BY <1>1, <1>4 DEF IsMachine
  <1>. QED
    BY <1>5, <1>6 DEF Makes, call, n

\* What the interops leave: Runtime.ReadToken its result, the others nothing.
Answered(m, method, args, rest) ==
  IF method = "Runtime.ReadToken" THEN <<Scalar("Bytes", Stored(m, args[2].bytes))>> \o rest ELSE rest

LEMMA InteropIs ==
  ASSUME NEW S, NEW args \in Seq(S), NEW rest \in Seq(S), NEW m, IsMachine(m),
         m.stack = args \o rest, NEW method
  PROVE  Makes(m, Interop(m, method, args), InteropCall(method, args), Answered(m, method, args, rest))
  <1>. DEFINE o == Called(m, "", method, args)
              n == Interop(m, method, args)
              call == InteropCall(method, args)
  <1>1. Makes(m, o, call, rest)
    BY CalledIs DEF InteropCall
  <1>2. IsMachine(n)
    BY CalledKeeps DEF KeepsAll
  <1>3. \/ method = "Runtime.ReadToken" /\ n = [o EXCEPT !.stack = Answered(m, method, args, o.stack)]
        \/ method # "Runtime.ReadToken" /\ n = o
        \/ method # "Runtime.ReadToken" /\ \E x : n = [o EXCEPT !.ram = x]
    BY Zenon DEF Interop, Answered
  <1>. HIDE DEF o, n, call
  <1>4. n.fault = m.fault /\ n.calls = Append(m.calls, call) /\ n.stack = Answered(m, method, args, rest)
    <2>1. CASE method = "Runtime.ReadToken" /\ n = [o EXCEPT !.stack = Answered(m, method, args, o.stack)]
      BY <1>1, <2>1 DEF IsMachine, Makes
    <2>2. CASE method # "Runtime.ReadToken" /\ n = o
      BY <1>1, <2>2 DEF Answered, Makes
    <2>3. CASE method # "Runtime.ReadToken" /\ \E x : n = [o EXCEPT !.ram = x]
      BY <1>1, <2>3 DEF IsMachine, Answered, Makes
    <2>. QED
      BY <1>3, <2>1, <2>2, <2>3
  <1>. QED
    BY <1>2, <1>4 DEF n, call, Makes

\* A machine that calls from another with the same stack makes the same call.
LEMMA MakesFrom ==
  ASSUME NEW m, NEW o, o.calls = m.calls, o.fault = m.fault, o.ram = m.ram,
         NEW n, NEW call, NEW stack, Makes(o, n, call, stack)
  PROVE  /\ Makes(m, n, call, stack)
         /\ \A method, args, rest : Answered(o, method, args, rest) = Answered(m, method, args, rest)
  BY DEF Makes, Answered, Stored

LEMMA ExtCalls ==
  ASSUME NEW S, NEW args \in Seq(S), NEW rest \in Seq(S), NEW m, IsMachine(m), m.stack = args \o rest,
         NEW method \in Names, Len(args) = Arity[method], Loadable(EmitExtCall(method, 0)),
         NEW n, RunsTo(m, EmitExtCall(method, 0), n)
  PROVE  Makes(m, n, InteropCall(method, args), Answered(m, method, args, rest))
  <1>. DEFINE load == LoadScalar(0, Text(method))
              r == Emit("EXTCALL", <<0>>)
              stack == args \o rest
  <1>1. load \in Seq(Simple) /\ <<r>> \in Seq(Simple)
    BY TextScalar, LoadSimple, SimpleForms, SimpleSeqs DEF LoadScalar
  <1>2. EmitExtCall(method, 0) = load \o <<r>>
    BY DEF EmitExtCall
  <1>. HIDE DEF r
  <1>3. PICK o : RunsTo(m, load, o) /\ RunsTo(o, <<r>>, n)
    BY <1>1, <1>2, RunsParted
  <1>4. Loads(load, 0, Text(method))
    <2>1. Loadable(load)
      BY <1>1, <1>2, LoadableJoined
    <2>. QED
      BY <2>1, TextScalar, LowRegisters, LoadsScalar
  <1>. HIDE DEF load, stack
  <1>5. ChangesRegisters(m, o) /\ o.regs[0] = Text(method)
    BY <1>3, <1>4 DEF Loads
  <1>6. /\ IsMachine(o) /\ o.stack = stack /\ o.calls = m.calls /\ o.ram = m.ram /\ o.fault = m.fault
    BY <1>5 DEF ChangesRegisters, Changes, stack
  <1>7. Arity[method] <= Len(stack) /\ SubSeq(stack, 1, Arity[method]) = args
    BY CutsOfJoined DEF stack
  <1>8. method # "" /\ MethodOf(Text(method), stack) = method
    <2>1. "" \notin Names
      BY CallersAssumption, Zenon
    <2>. QED
      BY <1>7, <2>1, MethodIs
  <1>9. n = Interop(o, method, args)
    <2>1. n = Effect(o, r)
      <3>1. n = Obeyed(o, r)
        BY <1>3, RunsSingle
      <3>. QED
        BY <3>1, LowRegisters, RegistersOf, ObeyedPlain DEF r
    <2>2. r.op = "EXTCALL" /\ r.operands = <<0>> /\ <<0>>[1] = 0
      BY OperandsAre DEF r
    <2>3. o.regs[r.operands[1]] = Text(method)
      BY <1>5, <2>2
    <2>4. Effect(o, r) = IF MethodOf(Text(method), stack) # ""
                         THEN Interop(o, MethodOf(Text(method), stack),
                                      SubSeq(stack, 1, Arity[MethodOf(Text(method), stack)]))
                         ELSE Faulted(o)
      BY <1>6, <2>2, <2>3, EffectOfCall, Zenon
    <2>. QED
      BY <1>7, <1>8, <2>1, <2>4, Zenon
  <1>10. Makes(o, n, InteropCall(method, args), Answered(o, method, args, rest))
    <2>1. o.stack = args \o rest
      BY <1>6 DEF stack
    <2>. QED
      BY <1>6, <1>9, <2>1, InteropIs
  <1>. QED
    BY <1>6, <1>10, MakesFrom

LEMMA InteropCalls ==
  ASSUME NEW S, NEW args \in Seq(Arguments), ValuesOf(args) \in Seq(S), NEW pushed \in Seq(S),
         NEW m, IsMachine(m), NEW rest \in Seq(S), m.stack = pushed \o rest,
         NEW method \in Names, Len(args) + Len(pushed) = Arity[method], Loadable(CallInterop(method, args)),
         NEW n, RunsTo(m, CallInterop(method, args), n)
  PROVE  Makes(m, n, InteropCall(method, ValuesOf(args) \o pushed),
               Answered(m, method, ValuesOf(args) \o pushed, rest))
  <1>. DEFINE load == InsertMethodArgs(args)
              ext == EmitExtCall(method, 0)
              values == ValuesOf(args)
              all == values \o pushed
  <1>1. load \in Seq(Simple) /\ ext \in Seq(Simple)
    BY LowRegisters, InsertMethodArgsType, EmitExtCallType
  <1>2. CallInterop(method, args) = load \o ext
    BY DEF CallInterop
  <1>3. PICK o : RunsTo(m, load, o) /\ RunsTo(o, ext, n)
    BY <1>1, <1>2, RunsParted
  <1>4. Loadable(load) /\ Loadable(ext)
    BY <1>1, <1>2, LoadableJoined
  <1>5. Pushes(load, values)
    BY <1>4, PushesArgs
  <1>6. Len(values) = Len(args)
    BY DEF ValuesOf
  <1>. HIDE DEF load, ext, values
  <1>7. pushed \o rest \in Seq(S) /\ values \in Seq(S)
    BY DEF values
  <1>8. IsMachine(o) /\ o.calls = m.calls /\ o.ram = m.ram /\ o.fault = m.fault /\ o.stack = values \o m.stack
    <2>1. m.stack \in Seq(S)
      BY <1>7
    <2>. QED
      BY <1>3, <1>5, <1>7, <2>1, Zenon DEF Pushes
  <1>9. all \in Seq(S) /\ Len(all) = Arity[method]
    <2>1. Len(all) = Len(values) + Len(pushed)
      BY <1>7
    <2>2. all \in Seq(S)
      BY <1>7
    <2>. QED
      BY <1>6, <2>1, <2>2
  <1>10. o.stack = all \o rest
    <2>1. (values \o pushed) \o rest = values \o (pushed \o rest)
      BY <1>7
    <2>. QED
      BY <1>8, <2>1
  <1>. HIDE DEF all
  <1>11. Makes(o, n, InteropCall(method, all), Answered(o, method, all, rest))
    BY <1>3, <1>4, <1>8, <1>9, <1>10, ExtCalls DEF ext
  <1>. QED
    BY <1>8, <1>11, MakesFrom DEF all, values

LEMMA PairIs ==
  ASSUME NEW a, NEW b
  PROVE  <<a, b>> = <<a>> \o <<b>>
  <1>. DEFINE S == {a, b}
              x == <<a, b>>
              y == <<a>> \o <<b>>
  <1>1. x \in Seq(S) /\ Len(x) = 2 /\ x[1] = a /\ x[2] = b
    OBVIOUS
  <1>2. y \in Seq(S) /\ Len(y) = 2 /\ y[1] = a /\ y[2] = b
    OBVIOUS
  <1>3. \A i \in 1 .. 2 : i = 1 \/ i = 2
    OBVIOUS
  <1>. HIDE DEF S, x, y
  <1>4. x = y
    BY <1>1, <1>2, <1>3, SeqEqual
  <1>. QED
    BY <1>4 DEF x, y

LEMMA FewJoined ==
  ASSUME NEW a, NEW b, NEW c, NEW d, NEW e
  PROVE  <<a, b>> \o <<c>> = <<a, b, c>> /\ <<a, b, c>> \o <<d, e>> = <<a, b, c, d, e>>
  <1>. DEFINE S == {a, b, c, d, e}
              x == <<a, b>> \o <<c>>
              y == <<a, b, c>>
              v == <<a, b, c>> \o <<d, e>>
              w == <<a, b, c, d, e>>
  <1>1. x \in Seq(S) /\ Len(x) = 3 /\ x[1] = a /\ x[2] = b /\ x[3] = c
    OBVIOUS
  <1>2. y \in Seq(S) /\ Len(y) = 3 /\ y[1] = a /\ y[2] = b /\ y[3] = c
    OBVIOUS
  <1>3. v \in Seq(S) /\ Len(v) = 5 /\ v[1] = a /\ v[2] = b /\ v[3] = c /\ v[4] = d /\ v[5] = e
    OBVIOUS
  <1>4. w \in Seq(S) /\ Len(w) = 5 /\ w[1] = a /\ w[2] = b /\ w[3] = c /\ w[4] = d /\ w[5] = e
    OBVIOUS
  <1>5. (\A i \in 1 .. 3 : i \in {1, 2, 3}) /\ (\A i \in 1 .. 5 : i \in {1, 2, 3, 4, 5})
    OBVIOUS
  <1>. HIDE DEF S, x, y, v, w
  <1>6. x = y
    BY <1>1, <1>2, <1>5, SeqEqual
  <1>7. v = w
    BY <1>3, <1>4, <1>5, SeqEqual
  <1>. QED
    BY <1>6, <1>7 DEF x, y, v, w

\* CTX and SWITCH call a method of a contract.
LEMMA ContractSwitches ==
  ASSUME NEW S, NEW values \in Seq(S), NEW m, IsMachine(m),
         NEW contract \in Names, NEW method \in Names, Len(values) = Arity[method], Text(method) \in S,
         m.stack = <<Text(method)>> \o values, m.regs[0] = Text(contract),
         NEW n, RunsTo(m, <<Emit2Arg("CTX", 0, 1), Emit("SWITCH", << 1 >>)>>, n)
  PROVE  Makes(m, n, ContractCall(contract, method, values), <<>>)
  <1>. DEFINE c == Emit2Arg("CTX", 0, 1)
              s == Emit("SWITCH", << 1 >>)
              text == Text(method)
              object == Scalar("Object", Utf8[contract])
  <1>1. <<c>> \in Seq(Simple) /\ <<s>> \in Seq(Simple)
    BY SimpleForms, SimpleSeqs
  <1>. HIDE DEF c, s
  <1>2. <<c, s>> = <<c>> \o <<s>>
    BY PairIs
  <1>3. PICK o : RunsTo(m, <<c>>, o) /\ RunsTo(o, <<s>>, n)
    BY <1>1, <1>2, RunsParted DEF c, s
  <1>4. o = Set(m, 1, object)
    <2>1. o = Obeyed(m, c)
      BY <1>3, RunsSingle
    <2>2. Text(contract).type = "String" /\ Text(contract).bytes = Utf8[contract]
      BY DEF Text, Scalar
    <2>3. Obeyed(m, c) = Set(m, 1, Scalar("Object", m.regs[0].bytes))
      BY <2>2, LowRegisters, ObeyedContext DEF c
    <2>. QED
      BY <2>1, <2>2, <2>3
  <1>. HIDE DEF text
  <1>5. /\ IsMachine(o) /\ o.stack = <<text>> \o values /\ o.calls = m.calls /\ o.fault = m.fault
        /\ o.regs[1] = object
    BY <1>4, LowRegisters, SetHolds DEF text
  <1>6. object.type = "Object" /\ object.bytes = Utf8[contract]
    BY DEF Scalar
  <1>. HIDE DEF object
  <1>7. text \in S /\ Len(values) \in Nat
    BY DEF text
  <1>8. o.stack # <<>> /\ Head(o.stack) = text /\ Tail(o.stack) = values
    BY <1>5, <1>7
  <1>9. SubSeq(o.stack, 2, Arity[method] + 1) = values
    <2>1. SubSeq(<<text>> \o values, Len(<<text>>) + 1, Len(<<text>> \o values)) = values
      BY <1>7, CutsOfJoined
    <2>2. Len(<<text>>) = 1 /\ Len(<<text>> \o values) = Arity[method] + 1
      BY <1>7
    <2>. QED
      BY <1>5, <2>1, <2>2
  <1>10. method # "" /\ MethodOf(text, values) = method
    <2>1. "" \notin Names
      BY CallersAssumption, Zenon
    <2>2. Arity[method] <= Len(values)
      BY <1>7
    <2>. QED
      BY <2>1, <2>2, MethodIs DEF text
  <1>. DEFINE p == Pop(o, 1)
  <1>11. n = Called(p, contract, method, values)
    <2>1. n = Effect(o, s)
      <3>1. n = Obeyed(o, s)
        BY <1>3, RunsSingle
      <3>. QED
        BY <3>1, LowRegisters, RegistersOf, ObeyedPlain DEF s
    <2>2. s.op = "SWITCH" /\ s.operands = <<1>> /\ <<1>>[1] = 1
      BY OperandsAre DEF s
    <2>3. o.regs[s.operands[1]] = object
      BY <1>5, <2>2
    <2>4. MethodOf(Head(o.stack), Tail(o.stack)) = method
      BY <1>8, <1>10
    <2>5. Effect(o, s) = IF object.type = "Object" /\ o.stack # <<>> /\ method # ""
                         THEN Called(p, CHOOSE d \in Names : Utf8[d] = object.bytes, method,
                                     SubSeq(o.stack, 2, Arity[method] + 1))
                         ELSE Faulted(o)
      BY <2>2, <2>3, <2>4, EffectOfSwitch, Zenon
    <2>6. Effect(o, s) = Called(p, CHOOSE d \in Names : Utf8[d] = object.bytes, method, values)
      BY <1>6, <1>8, <1>9, <1>10, <2>5, Zenon
    <2>7. (CHOOSE d \in Names : Utf8[d] = object.bytes) = contract
      BY <1>6, ContractIs
    <2>. QED
      BY <2>1, <2>6, <2>7, Zenon
  <1>12. IsMachine(p) /\ p.stack = values /\ p.calls = o.calls /\ p.fault = o.fault /\ p.ram = o.ram
    <2>1. SubSeq(o.stack, 2, Len(o.stack)) = values
      <3>1. Len(o.stack) = Arity[method] + 1
        BY <1>5, <1>7
      <3>. QED
        BY <1>9, <3>1
    <2>2. p = [o EXCEPT !.stack = SubSeq(o.stack, 2, Len(o.stack))]
      BY DEF Pop
    <2>3. p = [o EXCEPT !.stack = values]
      BY <2>1, <2>2
    <2>4. IsMachine(p)
      BY <1>5, CalledKeeps DEF KeepsAll
    <2>. HIDE DEF p
    <2>. QED
      BY <1>5, <2>3, <2>4 DEF IsMachine
  <1>. HIDE DEF p
  <1>13. Makes(p, n, ContractCall(contract, method, values), <<>>)
    <2>1. <<>> \in Seq(S) /\ p.stack = values \o <<>>
      BY <1>12
    <2>. QED
      BY <1>11, <1>12, <2>1, CalledIs
  <1>. QED
    BY <1>5, <1>12, <1>13 DEF Makes

\* A machine between calls.
Idle(m) == IsMachine(m) /\ m.stack = <<>>

LEMMA ContractCalls ==
  ASSUME NEW args \in Seq(Arguments), NEW contract \in Names, NEW method \in Names,
         Len(args) = Arity[method], Loadable(CallContract(contract, method, args)),
         NEW m, Idle(m), NEW n, RunsTo(m, CallContract(contract, method, args), n)
  PROVE  Makes(m, n, ContractCall(contract, method, ValuesOf(args)), <<>>)
  <1>. DEFINE insert == InsertMethodArgs(args)
              load == LoadScalar(0, Text(method))
              push == <<EmitPush(0)>>
              name == LoadScalar(0, Text(contract))
              switch == <<Emit2Arg("CTX", 0, 1), Emit("SWITCH", <<1>>)>>
              values == ValuesOf(args)
              S == {ValueOf(args[k]) : k \in 1 .. Len(args)} \cup {Text(method)}
  <1>1. /\ insert \in Seq(Simple) /\ load \in Seq(Simple) /\ push \in Seq(Simple)
        /\ name \in Seq(Simple) /\ switch \in Seq(Simple)
    BY InsertMethodArgsType, TextScalar, LoadSimple, SimpleForms, SimpleSeqs
  <1>2. CallContract(contract, method, args) = (((insert \o load) \o push) \o name) \o switch
    BY DEF CallContract
  <1>3. values \in Seq(S) /\ Len(values) = Len(args) /\ Text(method) \in S
    BY DEF ValuesOf
  <1>. HIDE DEF insert, load, push, name, switch, values, S
  <1>. DEFINE a == insert \o load
              b == a \o push
              d == b \o name
  <1>4. a \in Seq(Simple) /\ b \in Seq(Simple) /\ d \in Seq(Simple)
    BY <1>1, SimpleSeqs
  <1>5. Loadable(insert) /\ Loadable(load) /\ Loadable(name)
    <2>1. Loadable(d)
      BY <1>1, <1>2, <1>4, LoadableJoined
    <2>2. Loadable(b) /\ Loadable(name)
      BY <1>1, <1>4, <2>1, LoadableJoined
    <2>3. Loadable(a)
      BY <1>1, <1>4, <2>2, LoadableJoined
    <2>4. Loadable(insert) /\ Loadable(load)
      BY <1>1, <2>3, LoadableJoined
    <2>. QED
      BY <2>2, <2>4
  <1>6. PICK m4 : RunsTo(m, d, m4) /\ RunsTo(m4, switch, n)
    BY <1>1, <1>2, <1>4, RunsParted
  <1>7. PICK m3 : RunsTo(m, b, m3) /\ RunsTo(m3, name, m4)
    BY <1>1, <1>4, <1>6, RunsParted
  <1>8. PICK m2 : RunsTo(m, a, m2) /\ RunsTo(m2, push, m3)
    BY <1>1, <1>4, <1>7, RunsParted
  <1>9. PICK m1 : RunsTo(m, insert, m1) /\ RunsTo(m1, load, m2)
    BY <1>1, <1>8, RunsParted
  <1>. HIDE DEF a, b, d
  <1>10. IsMachine(m1) /\ m1.calls = m.calls /\ m1.fault = m.fault /\ m1.stack = values
    <2>1. Pushes(insert, values)
      BY <1>5, PushesArgs DEF insert, values
    <2>2. m.stack \in Seq(S) /\ IsMachine(m)
      BY DEF Idle
    <2>3. IsMachine(m1) /\ m1.calls = m.calls /\ m1.fault = m.fault /\ m1.stack = values \o m.stack
      BY <1>3, <1>9, <2>1, <2>2, PushesThem
    <2>4. values \o m.stack = values
      BY <1>3 DEF Idle
    <2>. QED
      BY <2>3, <2>4
  <1>11. IsMachine(m2) /\ m2.calls = m.calls /\ m2.fault = m.fault /\ m2.stack = values /\ m2.regs[0] = Text(method)
    <2>1. Loads(load, 0, Text(method))
      BY <1>5, TextScalar, LowRegisters, LoadsScalar DEF load
    <2>2. ChangesRegisters(m1, m2) /\ m2.regs[0] = Text(method)
      BY <1>9, <1>10, <2>1, Zenon DEF Loads
    <2>. QED
      BY <1>10, <2>2 DEF ChangesRegisters, Changes
  <1>12. IsMachine(m3) /\ m3.calls = m.calls /\ m3.fault = m.fault /\ m3.stack = <<Text(method)>> \o values
    BY <1>8, <1>11, LowRegisters, PushedIs DEF push
  <1>13. /\ IsMachine(m4) /\ m4.calls = m.calls /\ m4.fault = m.fault
         /\ m4.stack = <<Text(method)>> \o values /\ m4.regs[0] = Text(contract)
    <2>1. Loads(name, 0, Text(contract))
      BY <1>5, TextScalar, LowRegisters, LoadsScalar DEF name
    <2>2. ChangesRegisters(m3, m4) /\ m4.regs[0] = Text(contract)
      BY <1>7, <1>12, <2>1, Zenon DEF Loads
    <2>. QED
      BY <1>12, <2>2 DEF ChangesRegisters, Changes
  <1>14. Makes(m4, n, ContractCall(contract, method, values), <<>>)
    <2>1. Len(values) = Arity[method]
      BY <1>3
    <2>. QED
      BY <1>3, <1>6, <1>13, <2>1, ContractSwitches DEF switch
  <1>. QED
    BY <1>13, <1>14 DEF Makes, values

LEMMA ScalarIsItself ==
  ASSUME NEW arg \in Scalars
  PROVE  arg \in Arguments /\ ValueOf(arg) = arg
  <1>1. arg.type # "Array"
    BY TypeCodes DEF Scalars
  <1>. QED
    BY <1>1 DEF ValueOf, Arguments

LEMMA ScalarValues ==
  ASSUME NEW args \in Seq(Scalars)
  PROVE  args \in Seq(Arguments) /\ ValuesOf(args) = args
  <1>1. args \in Seq(Arguments) /\ args = [k \in 1 .. Len(args) |-> args[k]]
    BY ArgumentSeqs
  <1>2. \A k \in 1 .. Len(args) : args[k] \in Scalars
    OBVIOUS
  <1>3. \A k \in 1 .. Len(args) : ValueOf(args[k]) = args[k]
    BY <1>2, ScalarIsItself
  <1>. QED
    BY <1>1, <1>3 DEF ValuesOf

\* CallContract and CallInterop make the call of their caller.
LEMMA CallMakes ==
  ASSUME NEW c \in Calls, NEW m, Idle(m), NEW n, RunsTo(m, CallRequests(c), n)
  PROVE  Makes(m, n, Arrives(c), <<>>)
  <1>. DEFINE args == c.args
              values == ValuesOf(args)
              S == {values[k] : k \in 1 .. Len(args)}
  <1>1. c.contract \in Names \cup {""} /\ c.method \in Names
        /\ c = [contract |-> c.contract, method |-> c.method, args |-> args]
    BY RequestsAssumption
  <1>2. args \in Seq(Arguments)
    BY RequestsAssumption
  <1>. HIDE DEF args
  <1>3. Loadable(CallRequests(c)) /\ Len(args) = Arity[c.method]
        /\ (c.contract = "" => c.method # "Runtime.ReadToken")
    BY CallersAssumption, Zenon DEF args
  <1>4. Arrives(c) = ContractCall(c.contract, c.method, values)
    <2>1. DOMAIN args = 1 .. Len(args)
      BY <1>2
    <2>2. [k \in DOMAIN args |-> ValueOf(args[k])] = values
      BY <2>1 DEF ValuesOf
    <2>3. Arrives(c) = [c EXCEPT !.args = values]
      BY <2>2, Zenon DEF Arrives, args
    <2>. HIDE DEF values
    <2>. QED
      BY <1>1, <2>3 DEF ContractCall
  <1>5. values \in Seq(S)
    BY <1>2 DEF ValuesOf
  <1>. HIDE DEF values, S
  <1>6. CASE c.contract = ""
    <2>1. CallRequests(c) = CallInterop(c.method, args)
      BY <1>6 DEF CallRequests, args
    <2>2. IsMachine(m) /\ m.stack = <<>> \o <<>> /\ <<>> \in Seq(S)
      BY DEF Idle
    <2>3. Len(args) + Len(<<>>) = Arity[c.method]
      <3>1. Len(args) \in Nat /\ Len(<<>>) = 0
        BY <1>2
      <3>2. Len(args) + Len(<<>>) = Len(args)
        BY <3>1
      <3>. QED
        BY <1>3, <3>2
    <2>4. Makes(m, n, InteropCall(c.method, values \o <<>>), Answered(m, c.method, values \o <<>>, <<>>))
      BY <1>1, <1>3, <1>2, <1>5, <2>1, <2>2, <2>3, InteropCalls DEF values
    <2>5. values \o <<>> = values
      BY <1>5
    <2>6. Answered(m, c.method, values, <<>>) = <<>>
      BY <1>3, <1>6 DEF Answered
    <2>. QED
      BY <1>4, <1>6, <2>4, <2>5, <2>6, Zenon DEF InteropCall
  <1>7. CASE c.contract # ""
    <2>1. CallRequests(c) = CallContract(c.contract, c.method, args)
      BY <1>7 DEF CallRequests, args
    <2>2. c.contract \in Names
      BY <1>1, <1>7
    <2>. QED
      BY <1>1, <1>3, <1>2, <1>4, <2>1, <2>2, ContractCalls DEF values
  <1>. QED
    BY <1>6, <1>7

\* Reading leaves the RAM of an NFT in a register.
LEMMA ReadMakes ==
  ASSUME NEW symbol \in Scalars, NEW id \in Scalars, NEW reg \in Registers,
         Loadable(ReadTokenToRegister(symbol, id, reg)),
         NEW m, Idle(m), NEW n, RunsTo(m, ReadTokenToRegister(symbol, id, reg), n)
  PROVE  /\ Makes(m, n, InteropCall("Runtime.ReadToken", <<symbol, id>>), <<>>)
         /\ n.regs[reg] = Scalar("Bytes", Stored(m, id.bytes))
  <1>. DEFINE method == "Runtime.ReadToken"
              args == <<symbol, id>>
              read == CallInterop(method, args)
              pop == <<EmitPop(reg)>>
              call == InteropCall(method, args)
              value == Scalar("Bytes", Stored(m, id.bytes))
  <1>1. method \in Names /\ Arity[method] = 2
    BY RequestsAssumption, CallersAssumption
  <1>2. args \in Seq(Scalars) /\ Len(args) = 2 /\ args[2] = id
    OBVIOUS
  <1>3. args \in Seq(Arguments) /\ ValuesOf(args) = args
    BY <1>2, ScalarValues
  <1>4. ReadTokenToRegister(symbol, id, reg) = read \o pop
    BY DEF ReadTokenToRegister
  <1>. HIDE DEF method, args, call
  <1>5. read \in Seq(Simple)
    BY <1>1, <1>3, CallInteropType
  <1>. DEFINE S == Simple \cup {EmitPop(reg)}
  <1>6. read \in Seq(S) /\ pop \in Seq(S)
    BY <1>5
  <1>. HIDE DEF read, pop, S
  <1>7. Loadable(read)
    BY <1>4, <1>6, LoadableJoined
  <1>8. PICK o : RunsTo(m, read, o) /\ RunsTo(o, pop, n)
    BY <1>4, <1>6, RunsParted
  <1>9. Makes(m, o, call, <<value>>)
    <2>. DEFINE V == {symbol, id}
    <2>1. args \in Seq(V) /\ <<>> \in Seq(V) /\ args \o <<>> = args
      BY DEF args
    <2>. HIDE DEF V
    <2>2. IsMachine(m) /\ m.stack = <<>> \o <<>>
      BY DEF Idle
    <2>3. Len(args) + Len(<<>>) = Arity[method]
      BY <1>1, <1>2
    <2>4. Makes(m, o, InteropCall(method, args \o <<>>), Answered(m, method, args \o <<>>, <<>>))
      BY <1>1, <1>3, <1>7, <1>8, <2>1, <2>2, <2>3, InteropCalls DEF read
    <2>5. Answered(m, method, args, <<>>) = <<value>> \o <<>>
      BY <1>2 DEF Answered, method
    <2>6. <<value>> \o <<>> = <<value>>
      OBVIOUS
    <2>. QED
      BY <2>1, <2>4, <2>5, <2>6 DEF call
  <1>. HIDE DEF value
  <1>10. IsMachine(o) /\ o.stack = <<value>>
    BY <1>9 DEF Makes
  <1>11. o.stack # <<>> /\ Head(o.stack) = value /\ Len(o.stack) = 1 /\ SubSeq(o.stack, 2, 1) = <<>>
    BY <1>10
  <1>. DEFINE p == Set(o, reg, value)
  <1>12. n = Pop(p, 1)
    <2>1. n = Obeyed(o, EmitPop(reg))
      BY <1>8, RunsSingle DEF pop
    <2>. QED
      BY <1>11, <2>1, ObeyedPop
  <1>13. IsMachine(p) /\ p.stack = o.stack /\ p.calls = o.calls /\ p.fault = o.fault /\ p.regs[reg] = value
    BY <1>10, SetHolds
  <1>. HIDE DEF p
  <1>14. KeepsAll(p, n)
    BY <1>12, <1>13, CalledKeeps
  <1>15. n.stack = <<>> /\ n.calls = o.calls /\ n.fault = o.fault
    <2>1. n = [p EXCEPT !.stack = SubSeq(p.stack, 2, Len(p.stack))]
      BY <1>12 DEF Pop
    <2>2. n = [p EXCEPT !.stack = <<>>]
      BY <1>11, <1>13, <2>1
    <2>. QED
      BY <1>13, <2>2 DEF IsMachine
  <1>. QED
    BY <1>9, <1>13, <1>14, <1>15 DEF Makes, KeepsAll, call, value, method, args

\* Writing takes the RAM from a register.
LEMMA WriteMakes ==
  ASSUME NEW symbol \in Scalars, NEW id \in Scalars, NEW reg \in Registers, reg \in Nat,
         Loadable(WriteTokenFromRegister(symbol, id, reg)),
         NEW m, Idle(m), NEW n, RunsTo(m, WriteTokenFromRegister(symbol, id, reg), n)
  PROVE  Makes(m, n, WriteToken(symbol, id, m.regs[reg]), <<>>)
  <1>. DEFINE method == "Runtime.WriteToken"
              args == <<symbol, id>>
              push == <<EmitPush(reg)>>
              insert == InsertMethodArgs(args)
              ext == EmitExtCall(method, 0)
              call == CallInterop(method, args)
              value == m.regs[reg]
              all == <<symbol, id, value>>
  <1>1. method \in Names /\ Arity[method] = 3 /\ method # "Runtime.ReadToken"
    BY RequestsAssumption, CallersAssumption
  <1>2. args \in Seq(Scalars) /\ Len(args) = 2
    OBVIOUS
  <1>3. args \in Seq(Arguments) /\ ValuesOf(args) = args
    BY <1>2, ScalarValues
  <1>4. WriteTokenFromRegister(symbol, id, reg) = (push \o insert) \o ext
    BY DEF WriteTokenFromRegister
  <1>5. call = insert \o ext
    BY DEF CallInterop
  <1>6. WriteToken(symbol, id, value) = InteropCall(method, all)
    BY DEF WriteToken
  <1>. HIDE DEF method, args, all, value
  <1>7. push \in Seq(Simple) /\ insert \in Seq(Simple) /\ ext \in Seq(Simple)
    BY <1>1, <1>3, LowRegisters, InsertMethodArgsType, EmitExtCallType, SimpleForms, SimpleSeqs
  <1>. HIDE DEF push, insert, ext, call
  <1>8. WriteTokenFromRegister(symbol, id, reg) = push \o call /\ call \in Seq(Simple)
    BY <1>4, <1>5, <1>7
  <1>9. Loadable(call)
    BY <1>7, <1>8, LoadableJoined
  <1>10. PICK o : RunsTo(m, push, o) /\ RunsTo(o, call, n)
    BY <1>7, <1>8, RunsParted
  <1>11. IsMachine(m) /\ m.stack = <<>>
    BY DEF Idle
  <1>12. IsMachine(o) /\ o.calls = m.calls /\ o.fault = m.fault /\ o.stack = <<value>>
    <2>1. IsMachine(o) /\ o.calls = m.calls /\ o.fault = m.fault /\ o.stack = <<value>> \o m.stack
      BY <1>10, <1>11, PushedIs DEF push, value
    <2>2. <<value>> \o <<>> = <<value>>
      OBVIOUS
    <2>. QED
      BY <1>11, <2>1, <2>2
  <1>13. Makes(o, n, InteropCall(method, args \o <<value>>), Answered(o, method, args \o <<value>>, <<>>))
    <2>. DEFINE V == {symbol, id, value}
    <2>1. args \in Seq(V) /\ <<value>> \in Seq(V) /\ <<>> \in Seq(V)
      BY DEF args
    <2>. HIDE DEF V
    <2>2. o.stack = <<value>> \o <<>>
      BY <1>12
    <2>3. Len(args) + Len(<<value>>) = Arity[method]
      BY <1>1, <1>2
    <2>. QED
      BY <1>1, <1>3, <1>9, <1>10, <1>12, <2>1, <2>2, <2>3, InteropCalls DEF call
  <1>14. args \o <<value>> = all
    BY FewJoined, Zenon DEF args, all
  <1>15. Answered(o, method, all, <<>>) = <<>>
    BY <1>1 DEF Answered
  <1>. QED
    BY <1>6, <1>12, <1>13, <1>14, <1>15 DEF Makes, value

\* Minting takes ROM and RAM from registers.
LEMMA MintMakes ==
  ASSUME NEW symbol \in Scalars, NEW from \in Scalars, NEW to \in Scalars,
         NEW rom \in Registers, NEW ram \in Registers, rom \in Nat, ram \in Nat,
         Loadable(MintTokenContentsFromRegisters(symbol, from, to, rom, ram)),
         NEW m, Idle(m), NEW n, RunsTo(m, MintTokenContentsFromRegisters(symbol, from, to, rom, ram), n)
  PROVE  Makes(m, n, MintToken(symbol, from, to, m.regs[rom], m.regs[ram]), <<>>)
  <1>. DEFINE method == "Runtime.MintToken"
              args == <<from, to, symbol>>
              push1 == EmitPush(ram)
              push2 == EmitPush(rom)
              call == CallInterop(method, args)
              first == m.regs[rom]
              second == m.regs[ram]
              all == <<from, to, symbol, first, second>>
  <1>1. method \in Names /\ Arity[method] = 5 /\ method # "Runtime.ReadToken"
    BY RequestsAssumption, CallersAssumption
  <1>2. args \in Seq(Scalars) /\ Len(args) = 3
    OBVIOUS
  <1>3. args \in Seq(Arguments) /\ ValuesOf(args) = args
    BY <1>2, ScalarValues
  <1>4. MintTokenContentsFromRegisters(symbol, from, to, rom, ram) = <<push1, push2>> \o call
    BY DEF MintTokenContentsFromRegisters
  <1>5. MintToken(symbol, from, to, first, second) = InteropCall(method, all)
    BY DEF MintToken
  <1>. HIDE DEF method, args, all, first, second
  <1>6. <<push1>> \in Seq(Simple) /\ <<push2>> \in Seq(Simple) /\ <<push1, push2>> \in Seq(Simple) /\ call \in Seq(Simple)
    BY <1>1, <1>3, CallInteropType, SimpleForms, SimpleSeqs
  <1>. HIDE DEF push1, push2, call
  <1>7. Loadable(call)
    BY <1>4, <1>6, LoadableJoined
  <1>8. PICK o : RunsTo(m, <<push1, push2>>, o) /\ RunsTo(o, call, n)
    BY <1>4, <1>6, RunsParted
  <1>9. PICK l : RunsTo(m, <<push1>>, l) /\ RunsTo(l, <<push2>>, o)
    <2>1. <<push1, push2>> = <<push1>> \o <<push2>>
      BY PairIs
    <2>. QED
      BY <1>6, <1>8, <2>1, RunsParted
  <1>10. IsMachine(m) /\ m.stack = <<>>
    BY DEF Idle
  <1>11. /\ IsMachine(l) /\ l.calls = m.calls /\ l.fault = m.fault /\ l.regs = m.regs
         /\ l.stack = <<second>> \o m.stack
    BY <1>9, <1>10, PushedIs DEF push1, second
  <1>12. IsMachine(o) /\ o.calls = m.calls /\ o.fault = m.fault /\ o.stack = <<first>> \o l.stack
    <2>1. IsMachine(o) /\ o.calls = l.calls /\ o.fault = l.fault /\ o.stack = <<l.regs[rom]>> \o l.stack
      BY <1>9, <1>11, PushedIs DEF push2
    <2>2. l.regs[rom] = first
      BY <1>11 DEF first
    <2>. QED
      BY <1>11, <2>1, <2>2
  <1>13. o.stack = <<first, second>>
    <2>1. <<second>> \o <<>> = <<second>>
      OBVIOUS
    <2>2. <<first>> \o <<second>> = <<first, second>>
      BY PairIs, Zenon
    <2>. QED
      BY <1>10, <1>11, <1>12, <2>1, <2>2
  <1>. DEFINE pushed == <<first, second>>
  <1>14. Makes(o, n, InteropCall(method, args \o pushed), Answered(o, method, args \o pushed, <<>>))
    <2>. DEFINE V == {symbol, from, to, first, second}
    <2>1. args \in Seq(V) /\ pushed \in Seq(V) /\ <<>> \in Seq(V) /\ pushed = pushed \o <<>>
      BY DEF args
    <2>. HIDE DEF V
    <2>2. o.stack = pushed \o <<>>
      BY <1>13, <2>1
    <2>3. Len(args) + Len(pushed) = Arity[method]
      BY <1>1, <1>2
    <2>. HIDE DEF pushed
    <2>. QED
      BY <1>1, <1>3, <1>7, <1>8, <1>12, <2>1, <2>2, <2>3, InteropCalls DEF call
  <1>15. args \o pushed = all
    BY FewJoined, Zenon DEF args, all
  <1>16. Answered(o, method, all, <<>>) = <<>>
    BY <1>1 DEF Answered
  <1>. QED
    BY <1>5, <1>12, <1>14, <1>15, <1>16 DEF Makes, first, second

\* An unbroken run of INC between casts.
LEMMA IncrementedIs ==
  ASSUME NEW reg \in Registers, reg \in Nat, NEW m, IsMachine(m), NEW bytes,
         m.regs[reg] = Scalar("Bytes", bytes),
         NEW n, RunsTo(m, <<EmitCast(reg, reg, "Number"), EmitInc(reg), EmitCast(reg, reg, "Bytes")>>, n)
  PROVE  ChangesRegisters(m, n) /\ n.regs[reg] = Scalar("Bytes", Incremented(bytes))
  <1>. DEFINE a == EmitCast(reg, reg, "Number")
              b == EmitInc(reg)
              c == EmitCast(reg, reg, "Bytes")
              S == {a, b, c}
              digits == Incremented(bytes)
  <1>1. <<a, b, c>> = <<a, b>> \o <<c>> /\ <<a, b>> = <<a>> \o <<b>>
    BY FewJoined, PairIs, Zenon
  <1>2. <<a>> \in Seq(S) /\ <<b>> \in Seq(S) /\ <<c>> \in Seq(S) /\ <<a, b>> \in Seq(S)
    OBVIOUS
  <1>. HIDE DEF a, b, c, S
  <1>3. PICK p : RunsTo(m, <<a, b>>, p) /\ RunsTo(p, <<c>>, n)
    BY <1>1, <1>2, RunsParted DEF a, b, c
  <1>4. PICK o : RunsTo(m, <<a>>, o) /\ RunsTo(o, <<b>>, p)
    BY <1>1, <1>2, <1>3, RunsParted
  <1>5. ChangesRegisters(m, o) /\ o.regs[reg] = Scalar("Number", bytes)
    <2>1. o = Obeyed(m, a)
      BY <1>4, RunsSingle
    <2>2. m.regs[reg].bytes = bytes
      BY DEF Scalar
    <2>3. o = Set(m, reg, Scalar("Number", bytes))
      BY <2>1, <2>2, ObeyedCast DEF a
    <2>. QED
      BY <2>3, SetHolds
  <1>6. ChangesRegisters(o, p) /\ p.regs[reg] = Scalar("Number", digits)
    <2>1. p = Obeyed(o, b)
      BY <1>4, RunsSingle
    <2>2. o.regs[reg].bytes = bytes /\ o.regs[reg].type = "Number"
      BY <1>5 DEF Scalar
    <2>. HIDE DEF digits
    <2>3. p = Set(o, reg, Scalar("Number", digits))
      BY <2>1, <2>2, ObeyedInc DEF b, digits
    <2>4. IsMachine(o)
      BY <1>5 DEF ChangesRegisters, Changes
    <2>. QED
      BY <2>3, <2>4, SetHolds
  <1>. HIDE DEF digits
  <1>7. ChangesRegisters(p, n) /\ n.regs[reg] = Scalar("Bytes", digits)
    <2>1. n = Obeyed(p, c)
      BY <1>3, RunsSingle
    <2>2. p.regs[reg].bytes = digits
      BY <1>6 DEF Scalar
    <2>3. n = Set(p, reg, Scalar("Bytes", digits))
      BY <2>1, <2>2, ObeyedCast DEF c
    <2>4. IsMachine(p)
      BY <1>6 DEF ChangesRegisters, Changes
    <2>. QED
      BY <2>3, <2>4, SetHolds
  <1>. QED
    BY <1>5, <1>6, <1>7, ChangesMore DEF digits

\* Writing from a register leaves all registers but 0.
LEMMA WriteSpares ==
  ASSUME NEW symbol \in Scalars, NEW id \in Scalars, NEW reg \in Nat,
         NEW m, IsMachine(m), NEW n, RunsTo(m, WriteTokenFromRegister(symbol, id, reg), n)
  PROVE  \A r \in Registers \ {0} : n.regs[r] = m.regs[r]
  <1>. DEFINE T == {0}
              args == <<symbol, id>>
              load == LoadScalar(0, Text("Runtime.WriteToken"))
              ext == <<Emit("EXTCALL", <<0>>)>>
              push == <<EmitPush(reg)>>
  <1>1. args \in Seq(Arguments) /\ \A k \in DOMAIN args : args[k] \in Scalars
    BY ArgumentSeqs
  <1>2. \A arg \in Scalars : LoadIntoReg(0, arg) \in Seq(Confined(T))
    <2>1. ASSUME NEW arg \in Scalars
          PROVE  LoadIntoReg(0, arg) = LoadScalar(0, arg)
      <3>1. arg.type # "Array"
        BY TypeCodes DEF Scalars
      <3>. QED
        BY <3>1 DEF LoadIntoReg
    <2>. QED
      BY <2>1, ConfinedLoad
  <1>3. InsertMethodArgs(args) \in Seq(Confined(T))
    BY <1>1, <1>2, ConfinedArgs
  <1>4. load \in Seq(Confined(T))
    <2>1. "Runtime.WriteToken" \in Names
      BY RequestsAssumption
    <2>. QED
      BY <2>1, TextScalar, ConfinedLoad
  <1>5. ext \in Seq(Confined(T)) /\ push \in Seq(Confined(T))
    BY ConfinedForms, ConfinedSeqs
  <1>6. WriteTokenFromRegister(symbol, id, reg) = (push \o InsertMethodArgs(args)) \o (load \o ext)
    BY DEF WriteTokenFromRegister, EmitExtCall
  <1>. HIDE DEF args, load, ext, push, T
  <1>7. WriteTokenFromRegister(symbol, id, reg) \in Seq(Confined(T))
    BY <1>3, <1>4, <1>5, <1>6, ConfinedSeqs
  <1>8. \A r \in Registers \ T : n.regs[r] = m.regs[r]
    BY <1>7, ConfinedRun
  <1>. QED
    BY <1>8 DEF T

\* MintTokenIncrementingId: what is read is incremented, written, appended to the
\* ROM and minted.
LEMMA CountedMintMakes ==
  ASSUME NEW id \in Scalars, NEW symbol \in Scalars, NEW from \in Scalars, NEW to \in Scalars,
         NEW rom \in Scalars, NEW ram \in Scalars, rom.type = "Bytes",
         Loadable(MintTokenIncrementingId(id, symbol, from, to, rom, ram)),
         NEW m, Idle(m), NEW n, RunsTo(m, MintTokenIncrementingId(id, symbol, from, to, rom, ram), n),
         NEW counter, counter = Incremented(Stored(m, id.bytes))
  PROVE  \E o, p : /\ Makes(m, o, InteropCall("Runtime.ReadToken", <<symbol, id>>), <<>>)
                   /\ Makes(o, p, WriteToken(symbol, id, Scalar("Bytes", counter)), <<>>)
                   /\ Makes(p, n, MintToken(symbol, from, to, Scalar("Bytes", rom.bytes \o counter), ram), <<>>)
  <1>. DEFINE read == ReadTokenToRegister(symbol, id, 1)
              count == <<EmitCast(1, 1, "Number"), EmitInc(1), EmitCast(1, 1, "Bytes")>>
              write == WriteTokenFromRegister(symbol, id, 1)
              load2 == LoadScalar(2, rom)
              cat == <<Emit3Arg("CAT", 2, 1, 2)>>
              load0 == LoadScalar(0, ram)
              mint == MintTokenContentsFromRegisters(symbol, from, to, 2, 0)
              whole == MintTokenIncrementingId(id, symbol, from, to, rom, ram)
              value == Scalar("Bytes", counter)
              longer == Scalar("Bytes", rom.bytes \o counter)
              S == Simple \cup {EmitPop(1)} \cup {EmitCast(1, 1, "Number"), EmitInc(1), EmitCast(1, 1, "Bytes")}
                     \cup {Emit3Arg("CAT", 2, 1, 2)}
  <1>1. 0 \in Registers /\ 1 \in Registers /\ 2 \in Registers
    BY LowRegisters
  <1>2. /\ read \in Seq(S) /\ write \in Seq(S) /\ load2 \in Seq(S) /\ load0 \in Seq(S) /\ mint \in Seq(S)
        /\ count \in Seq(S) /\ cat \in Seq(S)
    <2>1. Simple \subseteq S
      OBVIOUS
    <2>2. load2 \in Seq(Simple) /\ load0 \in Seq(Simple)
      BY LoadSimple
    <2>3. count \in Seq(S) /\ cat \in Seq(S)
      OBVIOUS
    <2>4. CallInterop("Runtime.ReadToken", <<symbol, id>>) \in Seq(Simple)
      BY RequestsAssumption, ArgumentSeqs, CallInteropType
    <2>5. <<EmitPop(1)>> \in Seq(S)
      OBVIOUS
    <2>6. InsertMethodArgs(<<symbol, id>>) \in Seq(Simple) /\ EmitExtCall("Runtime.WriteToken", 0) \in Seq(Simple)
      BY RequestsAssumption, ArgumentSeqs, InsertMethodArgsType, EmitExtCallType
    <2>7. CallInterop("Runtime.MintToken", <<from, to, symbol>>) \in Seq(Simple)
      BY RequestsAssumption, ArgumentSeqs, CallInteropType
    <2>8. <<EmitPush(1)>> \in Seq(Simple) /\ <<EmitPush(0), EmitPush(2)>> \in Seq(Simple)
      BY SimpleForms, SimpleSeqs
    <2>. HIDE DEF S
    <2>9. read \in Seq(S)
      BY <2>1, <2>4, <2>5 DEF ReadTokenToRegister
    <2>10. write \in Seq(S)
      BY <2>1, <2>6, <2>8 DEF WriteTokenFromRegister
    <2>11. mint \in Seq(S)
      BY <2>1, <2>7, <2>8 DEF MintTokenContentsFromRegisters
    <2>. QED
      BY <2>1, <2>2, <2>3, <2>9, <2>10, <2>11
  <1>3. whole = (((((read \o count) \o write) \o load2) \o cat) \o load0) \o mint
    BY DEF MintTokenIncrementingId, IncrementRAM
  <1>. HIDE DEF read, count, write, load2, cat, load0, mint, whole, value, longer, S
  <1>. DEFINE a1 == read \o count
              a2 == a1 \o write
              a3 == a2 \o load2
              a4 == a3 \o cat
              a5 == a4 \o load0
  <1>4. a1 \in Seq(S) /\ a2 \in Seq(S) /\ a3 \in Seq(S) /\ a4 \in Seq(S) /\ a5 \in Seq(S)
    BY <1>2
  <1>5. whole = a5 \o mint
    BY <1>3
  <1>6. Loadable(whole) /\ RunsTo(m, whole, n)
    BY DEF whole
  <1>7. Loadable(mint) /\ Loadable(a5) /\ \E o : RunsTo(m, a5, o) /\ RunsTo(o, mint, n)
    BY <1>2, <1>4, <1>5, <1>6, LoadableJoined, RunsParted
  <1>8. PICK m5 : RunsTo(m, a5, m5) /\ RunsTo(m5, mint, n)
    BY <1>7
  <1>9. Loadable(load0) /\ Loadable(a4) /\ \E o : RunsTo(m, a4, o) /\ RunsTo(o, load0, m5)
    BY <1>2, <1>4, <1>7, <1>8, LoadableJoined, RunsParted
  <1>10. PICK m4 : RunsTo(m, a4, m4) /\ RunsTo(m4, load0, m5)
    BY <1>9
  <1>11. Loadable(a3) /\ \E o : RunsTo(m, a3, o) /\ RunsTo(o, cat, m4)
    BY <1>2, <1>4, <1>9, <1>10, LoadableJoined, RunsParted
  <1>12. PICK m3 : RunsTo(m, a3, m3) /\ RunsTo(m3, cat, m4)
    BY <1>11
  <1>13. Loadable(load2) /\ Loadable(a2) /\ \E o : RunsTo(m, a2, o) /\ RunsTo(o, load2, m3)
    BY <1>2, <1>4, <1>11, <1>12, LoadableJoined, RunsParted
  <1>14. PICK m2 : RunsTo(m, a2, m2) /\ RunsTo(m2, load2, m3)
    BY <1>13
  <1>15. Loadable(write) /\ Loadable(a1) /\ \E o : RunsTo(m, a1, o) /\ RunsTo(o, write, m2)
    BY <1>2, <1>4, <1>13, <1>14, LoadableJoined, RunsParted
  <1>16. PICK m1 : RunsTo(m, a1, m1) /\ RunsTo(m1, write, m2)
    BY <1>15
  <1>17. Loadable(read) /\ \E o : RunsTo(m, read, o) /\ RunsTo(o, count, m1)
    BY <1>2, <1>4, <1>15, <1>16, LoadableJoined, RunsParted
  <1>18. PICK m0 : RunsTo(m, read, m0) /\ RunsTo(m0, count, m1)
    BY <1>17
  <1>. HIDE DEF a1, a2, a3, a4, a5
  <1>19. /\ Makes(m, m0, InteropCall("Runtime.ReadToken", <<symbol, id>>), <<>>)
         /\ m0.regs[1] = Scalar("Bytes", Stored(m, id.bytes))
    BY <1>1, <1>17, <1>18, ReadMakes DEF read
  <1>20. Idle(m0)
    BY <1>19 DEF Makes, Idle
  <1>21. ChangesRegisters(m0, m1) /\ m1.regs[1] = value
    BY <1>1, <1>18, <1>19, <1>20, IncrementedIs DEF count, value, Idle
  <1>22. Idle(m1) /\ m1.calls = m0.calls /\ m1.fault = m0.fault
    BY <1>20, <1>21 DEF ChangesRegisters, Changes, Idle
  <1>23. Makes(m1, m2, WriteToken(symbol, id, value), <<>>)
    <2>1. Makes(m1, m2, WriteToken(symbol, id, m1.regs[1]), <<>>)
      BY <1>1, <1>15, <1>16, <1>22, WriteMakes DEF write
    <2>. QED
      BY <1>21, <2>1
  <1>24. m2.regs[1] = value
    BY <1>1, <1>16, <1>21, <1>22, WriteSpares DEF write, Idle
  <1>25. Idle(m2)
    BY <1>23 DEF Makes, Idle
  <1>26. ChangesRegisters(m2, m3) /\ m3.regs[2] = rom /\ m3.regs[1] = value
    <2>1. Loads(load2, 2, rom)
      BY <1>1, <1>13, LoadsScalar DEF load2
    <2>2. ChangesRegisters(m2, m3) /\ m3.regs[2] = rom
      BY <1>14, <1>25, <2>1 DEF Loads, Idle
    <2>3. load2 \in Seq(Confined({2}))
      BY ConfinedLoad DEF load2
    <2>4. \A r \in Registers \ {2} : m3.regs[r] = m2.regs[r]
      BY <1>14, <1>25, <2>3, ConfinedRun DEF Idle
    <2>. QED
      BY <1>1, <1>24, <2>2, <2>4
  <1>27. ChangesRegisters(m3, m4) /\ m4.regs[2] = longer
    <2>1. value.type = "Bytes" /\ value.bytes = counter
      BY DEF value, Scalar
    <2>2. m4 = Obeyed(m3, Emit3Arg("CAT", 2, 1, 2))
      BY <1>12, RunsSingle DEF cat
    <2>3. m4 = Set(m3, 2, longer)
      BY <1>1, <1>26, <2>1, <2>2, ObeyedCat DEF longer
    <2>4. IsMachine(m3)
      BY <1>26 DEF ChangesRegisters, Changes
    <2>. QED
      BY <1>1, <2>3, <2>4, SetHolds
  <1>28. ChangesRegisters(m4, m5) /\ m5.regs[0] = ram /\ m5.regs[2] = longer
    <2>1. Loads(load0, 0, ram)
      BY <1>1, <1>9, LoadsScalar DEF load0
    <2>2. IsMachine(m4)
      BY <1>27 DEF ChangesRegisters, Changes
    <2>3. ChangesRegisters(m4, m5) /\ m5.regs[0] = ram
      BY <1>10, <2>1, <2>2 DEF Loads
    <2>4. load0 \in Seq(Confined({0}))
      BY ConfinedLoad DEF load0
    <2>5. \A r \in Registers \ {0} : m5.regs[r] = m4.regs[r]
      BY <1>10, <2>2, <2>4, ConfinedRun
    <2>. QED
      BY <1>1, <1>27, <2>3, <2>5
  <1>29. Idle(m5) /\ m5.calls = m2.calls /\ m5.fault = m2.fault
    <2>1. ChangesRegisters(m2, m5)
      BY <1>26, <1>27, <1>28, ChangesMore
    <2>. QED
      BY <1>25, <2>1 DEF ChangesRegisters, Changes, Idle
  <1>30. Makes(m5, n, MintToken(symbol, from, to, longer, ram), <<>>)
    <2>1. Makes(m5, n, MintToken(symbol, from, to, m5.regs[2], m5.regs[0]), <<>>)
      BY <1>1, <1>7, <1>8, <1>29, MintMakes DEF mint
    <2>. QED
      BY <1>28, <2>1
  <1>31. Makes(m0, m2, WriteToken(symbol, id, value), <<>>)
    BY <1>22, <1>23 DEF Makes
  <1>32. Makes(m2, n, MintToken(symbol, from, to, longer, ram), <<>>)
    BY <1>29, <1>30 DEF Makes
  <1>. QED
    BY <1>19, <1>31, <1>32, Zenon DEF value, longer

-----------------------------------------------------------------------------
\* Scripts of calls.

\* Of what is performed nothing jumps, takes a length or is too long to be read.
LEMMA PerformedIs ==
  ASSUME NEW r \in Requests, r.op \in Performed
  PROVE  ~Jumps(r) /\ r.length >= 0 /\ Short(r)
  <1>1. r.op \notin WithPlace /\ r.op \notin WithLength /\ "THROW" \notin Performed
    BY DEF Performed, WithPlace, WithLength
  <1>2. ~Jumps(r)
    BY <1>1, FormsOf DEF Jumps
  <1>3. r.length >= 0
    <2>1. CASE r.form = "Length"
      <3>1. ~Refused(r)
        BY <2>1 DEF Refused
      <3>. QED
        BY <1>1, <2>1, <3>1, FormsOf
    <2>2. CASE r.form # "Length"
      <3>1. r.length = 0
        BY <2>2 DEF Requests
      <3>. QED
        BY <3>1
    <2>. QED
      BY <2>1, <2>2
  <1>4. Short(r)
    <2>. SUFFICES ASSUME ~Refused(r), r.op \in WithData PROVE Len(r.data) < Values(8)
      BY DEF Short
    <2>1. r.form \in {"Load", "Throw"}
      BY FormsOf
    <2>2. r.form # "Throw"
      <3>1. r.form = "Throw" => r.op \in Operations["Throw"]
        BY DEF Requests
      <3>2. Operations["Throw"] = {"THROW"}
        BY DEF Operations
      <3>. QED
        BY <1>1, <3>1, <3>2
    <2>3. ~(Len(r.data) >= Values(2))
      BY <2>1, <2>2 DEF Refused
    <2>4. r.data \in Seq(Byte)
      BY Forms
    <2>5. Len(r.data) \in Nat
      BY <2>4
    <2>. DEFINE size == Len(r.data)
    <2>6. size \in Nat /\ ~(size >= Values(2))
      BY <2>3, <2>5
    <2>. HIDE DEF size
    <2>7. size < Values(8)
      BY <2>6, ValuesType, ValuesGrow
    <2>. QED
      BY <2>7 DEF size
  <1>. QED
    BY <1>2, <1>3, <1>4

\* Such a script is read back however long it is.
LEMMA ListingOfPlain ==
  ASSUME Inv, \A k \in DOMAIN requested : requested[k].op \in Performed
  PROVE  /\ Straight(requested)
         /\ \E at, places : Lists(Listing, requested, at, places)
  <1>. DEFINE n == Len(requested)
              places == [k \in 1 .. n |-> 0]
              p == Pieces(requested)
  <1>1. PICK at : Made(at, requested, writer, _jumpLocations, _labelLocations)
    BY DEF Inv
  <1>2. requested \in Seq(Requests) /\ writer \in Seq(Nat) /\ n \in Nat /\ DOMAIN requested = 1 .. n
    BY DEF Inv
  <1>3. ASSUME NEW k \in 1 .. n
        PROVE  /\ requested[k] \in Requests
               /\ ~Jumps(requested[k]) /\ requested[k].length >= 0 /\ Short(requested[k])
    <2>1. requested[k] \in Requests /\ requested[k].op \in Performed
      BY <1>2
    <2>. QED
      BY <2>1, PerformedIs
  <1>4. Straight(requested)
    BY <1>3, FormsOf DEF Straight
  <1>5. DOMAIN _jumpLocations = {}
    BY <1>1, <1>3 DEF Made, JumpsNoted
  <1>6. ToScript = writer
    <2>1. ToScript = [i \in DOMAIN writer |-> writer[i]]
      BY <1>5 DEF ToScript
    <2>2. writer = [i \in DOMAIN writer |-> writer[i]]
      BY <1>2
    <2>. QED
      BY <2>1, <2>2
  <1>7. /\ p \in Seq(Seq(Nat)) /\ Len(p) = n /\ Layout(at, p, writer)
        /\ \A k \in 1 .. n : p[k] = Written(requested[k])
    BY <1>1, <1>2, PiecesType DEF Made
  <1>8. 0 < Values(2) /\ Values(2) \in Nat
    <2>1. Values(2) = Base * Base /\ Base \in Nat /\ Base > 1
      BY ValuesOfTwo, BaseAssumption
    <2>2. Base * Base > 0
      BY <2>1
    <2>. QED
      BY <2>1, <2>2, ValuesType
  <1>. HIDE DEF p
  <1>9. ASSUME NEW k \in 1 .. n
        PROVE  Holds(writer, at[k - 1], Patched(requested[k], 0))
    <2>. DEFINE w == Written(requested[k])
                x == at[k - 1]
    <2>1. Patched(requested[k], 0) = w /\ p[k] = w
      BY <1>3, <1>7 DEF Patched
    <2>2. \A j \in 1 .. Len(w) : writer[x + j] = w[j]
      BY <1>7, <2>1 DEF Layout
    <2>3. at[k] = x + Len(w)
      BY <1>7, <2>1 DEF Layout
    <2>4. w \in Seq(Nat)
      BY <1>3, WrittenType
    <2>5. at[k] <= Len(writer) /\ x \in Nat /\ Len(writer) \in Nat
      <3>1. k \in 0 .. Len(p) /\ k - 1 \in 0 .. Len(p)
        BY <1>2, <1>7
      <3>. QED
        BY <1>2, <1>7, <3>1, LayoutEnds
    <2>. HIDE DEF w, x
    <2>6. ASSUME NEW j \in 1 .. Len(w)
          PROVE  Cell(writer, x + j - 1) = w[j]
      <3>1. Len(w) \in Nat /\ j \in Nat
        BY <2>4
      <3>2. x + j - 1 < Len(writer) /\ x + j - 1 + 1 = x + j
        BY <2>3, <2>5, <3>1
      <3>. QED
        BY <2>2, <3>2 DEF Cell
    <2>. QED
      BY <2>1, <2>6 DEF Holds, x
  <1>10. Placed(writer, requested, writer, at, places)
    <2>1. \A k \in 1 .. n : places[k] = 0
      OBVIOUS
    <2>. HIDE DEF places
    <2>2. \A k \in 1 .. n : places[k] \in Nat /\ places[k] < Values(2) /\ Holds(writer, at[k - 1], Patched(requested[k], places[k]))
      BY <1>8, <1>9, <2>1
    <2>. QED
      BY <1>3, <1>7, <2>2 DEF Placed, p
  <1>. HIDE DEF places
  <1>11. Disassembly(writer) = [k \in 1 .. n |-> Asked(requested[k], places[k], at[k])]
    BY <1>2, <1>10, ListingIs
  <1>12. Lists(Listing, requested, at, places)
    BY <1>6, <1>11 DEF Lists, Listing
  <1>. QED
    BY <1>4, <1>12

\* A script of calls is run as it was requested.
LEMMA NowIs ==
  ASSUME Inv, \A k \in DOMAIN requested : requested[k].op \in Performed
  PROVE  RunsTo(Machine, requested, Now) /\ Now = MachineAfter(Listing)
  <1>1. Straight(requested) /\ \E at, places : Lists(Listing, requested, at, places)
    BY ListingOfPlain
  <1>2. PICK at, places : Lists(Listing, requested, at, places)
    BY <1>1
  <1>3. requested \in Seq(Requests)
    BY DEF Inv
  <1>4. StraightLine(Listing)
    BY <1>1, <1>2, <1>3, StraightIs
  <1>5. RunsTo(Machine, requested, Run(Listing))
    BY <1>2, <1>3, RunIs
  <1>. QED
    BY <1>4, <1>5 DEF Now, MachineAfter
\* A script of calls: nothing in it jumps, and nothing is beyond the machine.
Plainly == \A k \in DOMAIN requested : requested[k].op \in Performed

RunAsAsked == RunsTo(Machine, requested, Now) /\ Now = MachineAfter(Listing)

LEMMA PlainRuns == Inv /\ Plainly => RunAsAsked
  BY NowIs DEF Plainly, RunAsAsked

LEMMA PlainRunsNext == (Inv /\ Plainly => RunAsAsked)'
  BY PlainRuns, PTL

\* The calls of the script are those wanted, and they are done.
Wanting ==
  /\ Inv
  /\ \E C : wanted \in Seq(C)
  /\ Plainly => Idle(Now) /\ Now.calls = wanted /\ Now.fault = FALSE

LEMMA WantingIs == Wanting => CallsAreWanted
  BY PlainRuns DEF Wanting, Plainly, RunAsAsked, CallsAreWanted, MakesTheCalls, Idle

\* What is asked for in a step is run by the machine that was left.
LEMMA RestRuns ==
  ASSUME Wanting, Inv', Plainly', NEW more \in Seq(Requests), requested' = requested \o more
  PROVE  /\ Plainly /\ RunsTo(Now, more, Now')
         /\ Idle(Now) /\ Now.calls = wanted /\ Now.fault = FALSE
         /\ \A k \in 1 .. Len(more) : more[k].op \in Performed
  <1>. DEFINE old == requested
              new == requested'
              now == Now
              next == Now'
  <1>1. RunsTo(Machine, new, next)
    BY PlainRunsNext DEF RunAsAsked
  <1>2. old \in Seq(Requests)
    BY DEF Wanting, Inv
  <1>3. \A k \in DOMAIN new : new[k].op \in Performed
    BY DEF Plainly
  <1>. HIDE DEF old, new, now, next
  <1>4. /\ (\A k \in DOMAIN old : old[k].op \in Performed)
        /\ \A k \in 1 .. Len(more) : more[k].op \in Performed
    <2>1. new = old \o more
      BY DEF old, new
    <2>2. /\ \A k \in 1 .. Len(old) : new[k] = old[k] /\ k \in 1 .. Len(new)
          /\ \A k \in 1 .. Len(more) : new[Len(old) + k] = more[k] /\ Len(old) + k \in 1 .. Len(new)
          /\ DOMAIN new = 1 .. Len(new) /\ DOMAIN old = 1 .. Len(old)
      BY <1>2, <2>1
    <2>. QED
      BY <1>3, <2>2
  <1>5. Plainly
    BY <1>4 DEF Plainly, old
  <1>6. RunsTo(Machine, old, now)
    BY <1>5, PlainRuns DEF Wanting, RunAsAsked, old, now
  <1>7. PICK o : RunsTo(Machine, old, o) /\ RunsTo(o, more, next)
    BY <1>1, <1>2, RunsParted DEF old, new
  <1>8. o = now
    BY <1>2, <1>6, <1>7, RunsToOne
  <1>. QED
    BY <1>4, <1>5, <1>7, <1>8 DEF Wanting, now, next
\* Nothing is wanted and nothing called.
LEMMA WantingKept ==
  ASSUME Wanting, Inv', wanted' = wanted,
         Plainly' => Plainly /\ Idle(Now') /\ Now'.calls = Now.calls /\ Now'.fault = Now.fault
  PROVE  Wanting'
  <1>1. \E C : wanted' \in Seq(C)
    BY DEF Wanting
  <1>2. Plainly' => Idle(Now)' /\ (Now.calls = wanted)' /\ (Now.fault = FALSE)'
    BY DEF Wanting, Idle, IsMachine
  <1>. QED
    BY <1>1, <1>2 DEF Wanting

\* A call is wanted and made.
LEMMA StepMakes ==
  ASSUME Wanting, Inv', NEW requests \in Seq(Simple), NEW call, Step(requests, <<call>>),
         \A n : Idle(Now) /\ RunsTo(Now, requests, n) => Makes(Now, n, call, <<>>)
  PROVE  Wanting'
  <1>1. requests \in Seq(Requests)
    BY DEF Simple
  <1>2. requested' = requested \o requests /\ wanted' = wanted \o <<call>>
    BY DEF Step
  <1>3. PICK C : wanted \in Seq(C)
    BY DEF Wanting
  <1>4. wanted' \in Seq(C \cup {call}) /\ wanted' = Append(wanted, call)
    BY <1>2, <1>3
  <1>5. ASSUME Plainly'
        PROVE  Idle(Now)' /\ (Now.calls = wanted)' /\ (Now.fault = FALSE)'
    <2>1. RunsTo(Now, requests, Now') /\ Idle(Now) /\ Now.calls = wanted /\ Now.fault = FALSE
      BY <1>1, <1>2, <1>5, RestRuns
    <2>2. Makes(Now, Now', call, <<>>)
      BY <2>1
    <2>3. Now'.calls = wanted'
      BY <1>4, <2>1, <2>2 DEF Makes
    <2>. QED
      BY <2>1, <2>2, <2>3 DEF Makes, Idle, IsMachine
  <1>6. \E D : wanted' \in Seq(D)
    BY <1>4
  <1>. QED
    BY <1>5, <1>6 DEF Wanting

LEMMA CallWanting ==
  ASSUME Wanting, Inv', NEW c \in Calls, Call(c)
  PROVE  Wanting'
  BY StepMakes, CallRequestsType, CallMakes DEF Call

\* What the fields of an NFT are.
LEMMA NftFields ==
  ASSUME NEW n \in Nfts
  PROVE  /\ n.symbol \in Scalars /\ n.id \in Scalars /\ n.from \in Scalars /\ n.to \in Scalars
         /\ n.rom \in Scalars /\ n.ram \in Scalars /\ n.rom_reg \in Nat /\ n.ram_reg \in Nat
         /\ n.rom_reg \in Registers /\ n.ram_reg \in Registers /\ n.rom.type = "Bytes"
  <1>1. {n.rom_reg, n.ram_reg} \subseteq Registers /\ n.rom.type = "Bytes"
    BY CallersAssumption, Zenon
  <1>. QED
    BY <1>1, RequestsAssumption, Zenon

LEMMA ReadsWanting ==
  ASSUME Wanting, Inv', NEW n \in Nfts, Reads(n.symbol, n.id, n.rom_reg)
  PROVE  Wanting'
  <1>1. Loadable(ReadTokenToRegister(n.symbol, n.id, n.rom_reg))
    BY CallersAssumption, Zenon
  <1>. QED
    BY <1>1, NftFields, NftRequestsType, ReadMakes, StepMakes DEF Reads

LEMMA WritesWanting ==
  ASSUME Wanting, Inv', NEW n \in Nfts, Writes(n.symbol, n.id, n.rom_reg)
  PROVE  Wanting'
  <1>1. Loadable(WriteTokenFromRegister(n.symbol, n.id, n.rom_reg))
    BY CallersAssumption, Zenon
  <1>. QED
    BY <1>1, NftFields, NftRequestsType, WriteMakes, StepMakes DEF Writes

LEMMA MintsWanting ==
  ASSUME Wanting, Inv', NEW n \in Nfts, Mints(n.symbol, n.from, n.to, n.rom_reg, n.ram_reg)
  PROVE  Wanting'
  <1>1. Loadable(MintTokenContentsFromRegisters(n.symbol, n.from, n.to, n.rom_reg, n.ram_reg))
    BY CallersAssumption, Zenon
  <1>. QED
    BY <1>1, NftFields, NftRequestsType, MintMakes, StepMakes DEF Mints
LEMMA JoinedLength ==
  ASSUME NEW S, NEW a \in Seq(S), NEW b \in Seq(S)
  PROVE  a \o b \in Seq(S) /\ Len(a \o b) = Len(a) + Len(b)
  OBVIOUS

LEMMA ThreeAppended ==
  ASSUME NEW S, NEW s \in Seq(S), NEW a \in S, NEW b \in S, NEW c \in S
  PROVE  s \o <<a, b, c>> = Append(Append(Append(s, a), b), c)
  <1>. DEFINE z == Append(Append(Append(s, a), b), c)
              p == <<a, b, c>>
              q == s \o p
  <1>1. /\ z \in Seq(S) /\ Len(z) = Len(s) + 3
        /\ (\A i \in 1 .. Len(s) : z[i] = s[i])
        /\ z[Len(s) + 1] = a /\ z[Len(s) + 2] = b /\ z[Len(s) + 3] = c
    OBVIOUS
  <1>2. p \in Seq(S) /\ Len(p) = 3 /\ p[1] = a /\ p[2] = b /\ p[3] = c
    OBVIOUS
  <1>. HIDE DEF z, p
  <1>3. q \in Seq(S) /\ Len(q) = Len(s) + Len(p)
    BY <1>2, JoinedLength
  <1>4. (\A i \in 1 .. Len(s) : q[i] = s[i]) /\ \A i \in 1 .. Len(p) : q[Len(s) + i] = p[i]
    <2>1. p \in Seq(S)
      BY <1>2
    <2>. QED
      BY <2>1, Joined
  <1>. HIDE DEF q
  <1>5. q[Len(s) + 1] = a /\ q[Len(s) + 2] = b /\ q[Len(s) + 3] = c
    <2>1. 1 \in 1 .. Len(p) /\ 2 \in 1 .. Len(p) /\ 3 \in 1 .. Len(p)
      BY <1>2
    <2>. QED
      BY <1>2, <1>4, <2>1
  <1>. DEFINE n == Len(s)
              m == Len(z)
  <1>6. n \in Nat /\ m = n + 3
    BY <1>1
  <1>. HIDE DEF n, m
  <1>7. \A i \in 1 .. m : i \in 1 .. n \/ i = n + 1 \/ i = n + 2 \/ i = n + 3
    BY <1>6
  <1>8. \A i \in 1 .. Len(z) : q[i] = z[i]
    BY <1>1, <1>4, <1>5, <1>7 DEF n, m
  <1>9. q = z
    BY <1>1, <1>2, <1>3, <1>8, SeqEqual
  <1>. QED
    BY <1>9 DEF q, z, p

LEMMA MintsIncrementingWanting ==
  ASSUME Wanting, Inv', NEW n \in Nfts,
         MintsIncrementing(n.id, n.symbol, n.from, n.to, n.rom, n.ram)
  PROVE  Wanting'
  <1>. DEFINE requests == MintTokenIncrementingId(n.id, n.symbol, n.from, n.to, n.rom, n.ram)
              counter == Incremented(Stored(Now, n.id.bytes))
              a == InteropCall("Runtime.ReadToken", <<n.symbol, n.id>>)
              b == WriteToken(n.symbol, n.id, Scalar("Bytes", counter))
              c == MintToken(n.symbol, n.from, n.to, Scalar("Bytes", n.rom.bytes \o counter), n.ram)
  <1>1. requests \in Seq(Simple) /\ Loadable(requests)
    <2>1. Loadable(requests)
      BY CallersAssumption, Zenon
    <2>. QED
      BY <2>1, NftRequestsType
  <1>2. requested' = requested \o requests /\ wanted' = wanted \o <<a, b, c>>
    BY DEF MintsIncrementing, Step, CountedMint
  <1>3. requests \in Seq(Requests)
    BY <1>1 DEF Simple
  <1>4. PICK C : wanted \in Seq(C)
    BY DEF Wanting
  <1>5. ASSUME Idle(Now), RunsTo(Now, requests, Now')
        PROVE  \E o, p : Makes(Now, o, a, <<>>) /\ Makes(o, p, b, <<>>) /\ Makes(p, Now', c, <<>>)
    BY <1>1, <1>5, NftFields, CountedMintMakes
  <1>. HIDE DEF requests, a, b, c, counter
  <1>6. wanted' = Append(Append(Append(wanted, a), b), c) /\ \E D : wanted' \in Seq(D)
    <2>. DEFINE D == C \cup {a, b, c}
    <2>1. wanted \in Seq(D) /\ a \in D /\ b \in D /\ c \in D
      BY <1>4
    <2>. HIDE DEF D
    <2>2. <<a, b, c>> \in Seq(D)
      BY <2>1
    <2>3. wanted' \in Seq(D)
      BY <1>2, <2>1, <2>2
    <2>. QED
      BY <1>2, <2>1, <2>3, ThreeAppended
  <1>7. ASSUME Plainly'
        PROVE  Idle(Now)' /\ (Now.calls = wanted)' /\ (Now.fault = FALSE)'
    <2>1. RunsTo(Now, requests, Now') /\ Idle(Now) /\ Now.calls = wanted /\ Now.fault = FALSE
      BY <1>2, <1>3, <1>7, RestRuns
    <2>2. PICK o, p : Makes(Now, o, a, <<>>) /\ Makes(o, p, b, <<>>) /\ Makes(p, Now', c, <<>>)
      BY <1>5, <2>1
    <2>3. Now'.calls = wanted'
      BY <1>6, <2>1, <2>2 DEF Makes
    <2>. QED
      BY <2>1, <2>2, <2>3 DEF Makes, Idle, IsMachine
  <1>. QED
    BY <1>6, <1>7 DEF Wanting

\* Beside the calls nothing but registers changes.
LEMMA BesideObeyed ==
  ASSUME NEW m, IsMachine(m), NEW r \in Requests, r.op \in Performed, Refused(r) \/ Beside(r)
  PROVE  ChangesRegisters(m, Obeyed(m, r))
  <1>1. CASE Refused(r)
    BY <1>1, ChangesMore DEF Obeyed
  <1>2. CASE ~Refused(r)
    <2>1. r.op \in {"NOP", "LOAD", "MOVE", "COPY"}
      BY <1>2 DEF Beside, OfCalls, Performed
    <2>2. RegisterCount("NOP") = 0
      BY DEF RegisterCount, OperandCount, Ternary, Binary, Unary
    <2>3. \A k \in 1 .. RegisterCount(r.op) : r.operands[k] \in Registers
      <3>1. CASE r.op = "NOP"
        BY <2>2, <3>1
      <3>2. CASE r.op # "NOP"
        BY <1>2, <2>1, <3>2 DEF Beside
      <3>. QED
        BY <3>1, <3>2
    <2>4. Obeyed(m, r) = Effect(m, r)
      BY <1>2, <2>3 DEF Obeyed, Executed
    <2>5. Effect(m, r) = m \/ \E a, value : Effect(m, r) = Set(m, a, value)
      <3>1. r.op = "NOP" => Effect(m, r) = m
        BY EffectOf
      <3>2. r.op = "LOAD" => Effect(m, r) = Set(m, r.operands[1], Scalar(TypeOf(r.operands[2]), r.data))
        BY EffectOf, Zenon
      <3>3. r.op \in {"MOVE", "COPY"} => Effect(m, r) = Set(m, r.operands[2], m.regs[r.operands[1]])
        BY EffectOf, Zenon
      <3>4. r.op = "NOP" \/ r.op = "LOAD" \/ r.op \in {"MOVE", "COPY"}
        BY <2>1
      <3>. QED
        BY <3>1, <3>2, <3>3, <3>4, Zenon
    <2>. QED
      BY <2>4, <2>5, ChangesMore
  <1>. QED
    BY <1>1, <1>2

\* One request more that changes nothing but registers.
LEMMA PlainWanting ==
  ASSUME Wanting, Inv', NEW r \in Requests, requested' = Append(requested, r), wanted' = wanted,
         \A m : IsMachine(m) /\ r.op \in Performed => ChangesRegisters(m, Obeyed(m, r))
  PROVE  Wanting'
  <1>1. requested \in Seq(Requests)
    BY DEF Wanting, Inv
  <1>2. <<r>> \in Seq(Requests) /\ requested' = requested \o <<r>> /\ Len(<<r>>) = 1 /\ <<r>>[1] = r
    BY <1>1
  <1>3. ASSUME Plainly'
        PROVE  Plainly /\ Idle(Now') /\ Now'.calls = Now.calls /\ Now'.fault = Now.fault
    <2>1. /\ Plainly /\ RunsTo(Now, <<r>>, Now') /\ Idle(Now)
          /\ \A k \in 1 .. Len(<<r>>) : <<r>>[k].op \in Performed
      BY <1>2, <1>3, RestRuns
    <2>2. r.op \in Performed
      BY <1>2, <2>1
    <2>3. Now' = Obeyed(Now, r)
      BY <2>1, RunsSingle
    <2>4. ChangesRegisters(Now, Now')
      BY <2>1, <2>2, <2>3 DEF Idle
    <2>. QED
      BY <2>1, <2>4 DEF ChangesRegisters, Changes, Idle
  <1>. QED
    BY <1>3, WantingKept

LEMMA PrimitiveWanting ==
  ASSUME Wanting, Inv', NEW r \in Primitives, EmitPrimitive(r)
  PROVE  Wanting'
  <1>1. r \in Requests
    BY RequestsAssumption, Zenon
  <1>2. Refused(r) \/ Beside(r)
    BY CallersAssumption, Zenon
  <1>3. requested' = Append(requested, r) /\ wanted' = wanted
    BY DEF EmitPrimitive
  <1>. QED
    BY <1>1, <1>2, <1>3, BesideObeyed, PlainWanting

LEMMA EndWanting ==
  ASSUME Wanting, Inv', EndScript
  PROVE  Wanting'
  <1>. DEFINE r == Emit("RET", <<>>)
  <1>1. r \in Requests
    BY EndSimple DEF Simple
  <1>2. requested' = Append(requested, r) /\ wanted' = wanted
    BY DEF EndScript
  <1>3. ASSUME NEW m, IsMachine(m)
        PROVE  ChangesRegisters(m, Obeyed(m, r))
    <2>1. RegisterCount("RET") = 0
      BY DEF RegisterCount, OperandCount, Ternary, Binary, Unary
    <2>2. Obeyed(m, r) = Effect(m, r)
      BY <2>1, ObeyedPlain
    <2>3. Effect(m, r) = m
      BY OperandsAre, EffectOf
    <2>. QED
      BY <1>3, <2>2, <2>3, ChangesMore
  <1>. HIDE DEF r
  <1>. QED
    BY <1>1, <1>2, <1>3, PlainWanting

LEMMA InitWanting == Init => Wanting
  <1>. SUFFICES ASSUME Init PROVE Wanting
    OBVIOUS
  <1>1. Inv /\ requested = <<>> /\ wanted = <<>>
    BY InitMade DEF Init
  <1>2. wanted \in Seq({})
    BY <1>1
  <1>3. Plainly
    BY <1>1 DEF Plainly
  <1>4. Now = Machine
    BY <1>1, <1>3, PlainRuns, RunsNone DEF RunAsAsked
  <1>5. Machine.stack = <<>> /\ Machine.calls = <<>> /\ Machine.fault = FALSE
    BY DEF Machine
  <1>. QED
    BY <1>1, <1>2, <1>4, <1>5, MachineIsOne DEF Wanting, Idle

LEMMA NextWanting ==
  ASSUME Wanting, Inv', Next
  PROVE  Wanting'
  BY CallWanting, ReadsWanting, WritesWanting, MintsWanting, MintsIncrementingWanting,
     PrimitiveWanting, EndWanting DEF Next

LEMMA StutterWanting == Wanting /\ UNCHANGED vars => Wanting'
  BY DEF vars, Wanting, Inv, Plainly, Now, Listing, ToScript, Resolved

LEMMA WantingHolds == Spec => []Wanting
  <1>1. Init => Wanting
    BY InitWanting
  <1>2. Wanting /\ Inv' /\ [Next]_vars => Wanting'
    BY NextWanting, StutterWanting
  <1>. QED
    BY <1>1, <1>2, InvHolds, PTL DEF Spec

\* A script of calls, run by the machine, makes exactly the calls its callers
\* asked for, in their order and with their arguments, and what the registers
\* held: ScriptBuilder::CallContract, CallInterop and the requests of
\* goati_nft.h above them, MintTokenIncrementingId included.
THEOREM ScriptMakesTheCalls == Spec => []CallsAreWanted
  BY WantingHolds, WantingIs, PTL
=============================================================================
