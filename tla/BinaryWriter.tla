---------------------------- MODULE BinaryWriter ----------------------------
(***************************************************************************)
(* phantasma/Utils/BinaryWriter.h: the bytes each Write... appends to the  *)
(* stream.  A byte has Base values, 256 in the code; 0xFD, 0xFE and 0xFF   *)
(* are the last three of them.                                             *)
(***************************************************************************)
EXTENDS Integers, Sequences

CONSTANT Base

ASSUME BaseAssumption == Base \in Nat /\ Base > 3

Byte == 0 .. Base - 1

\* The number of values of an unsigned integer of w bytes.
Values(w) ==
    LET power[i \in 0 .. w] == IF i = 0 THEN 1 ELSE Base * power[i - 1]
    IN  power[w]

LittleEndian(n, w) == [i \in 1 .. w |-> (n \div Values(i - 1)) % Base]

Header16 == Base - 3
Header32 == Base - 2
Header64 == Base - 1

WriteVarInt(value) ==
    IF value < 0 THEN <<>>
    ELSE IF value < Header16 THEN <<value>>
    ELSE IF value < Values(2) THEN <<Header16>> \o LittleEndian(value, 2)
    ELSE IF value < Values(4) THEN <<Header32>> \o LittleEndian(value, 4)
    ELSE <<Header64>> \o LittleEndian(value, 8)

WriteByteArray(bytes) == WriteVarInt(Len(bytes)) \o bytes
=============================================================================
