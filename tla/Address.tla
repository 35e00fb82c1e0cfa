------------------------------ MODULE Address ------------------------------
(***************************************************************************)
(* phantasma/Cryptography/Address.h.  The 34 bytes of an address are its   *)
(* kind, a byte of padding and the 32 bytes of a key or a hash.  Its text  *)
(* is a prefix and what Base58 makes of the bytes, with how many it reads  *)
(* back as.                                                                *)
(***************************************************************************)
EXTENDS Integers

CONSTANTS
  MaxKind, MaxPad,   \* the highest first and second byte
  Names,             \* what the other 32 bytes may be
  Nulls,             \* those that are 0 but for the last byte
  Zeros              \* the one that is 0

Invalid == 0
User    == 1
System  == 2
Interop == 3

ASSUME AddressAssumption ==
  /\ Zeros \in Nulls /\ Nulls \subseteq Names
  /\ MaxKind \in Nat /\ MaxKind >= Interop /\ MaxPad \in Nat

LengthInBytes == 34

Addresses == [kind : 0 .. MaxKind, pad : 0 .. MaxPad, name : Names]

NullAddress == [kind |-> 0, pad |-> 0, name |-> Zeros]

\* The kind of an address whose bytes 1 to 32 are 0 is not its first byte.
IsNull(a) == a.pad = 0 /\ a.name \in Nulls
Kind(a)   == IF IsNull(a) THEN System ELSE a.kind
IsUser(a) == Kind(a) = User

\* A public key of 32 bytes, one of 33, and the hash of a name.
FromKey(key)       == [kind |-> User, pad |-> 0, name |-> key]
FromKey33(pad, key) == [kind |-> User, pad |-> pad, name |-> key]
FromHash(hash)     == [kind |-> System, pad |-> 0, name |-> hash]

\* A platform's number is the byte that the kind makes with it.
FromInterop(platformID, pad, key) ==
  IF platformID < 1 THEN NullAddress
  ELSE [kind |-> (Interop + platformID - 1) % (MaxKind + 1), pad |-> pad, name |-> key]
PlatformOf(a) == (1 + a.kind - Interop) % (MaxKind + 1)

Prefix(a) == IF Kind(a) = User THEN "P" ELSE IF Kind(a) = Interop THEN "X" ELSE "S"

\* Base58 writes one character more than 34 for 34 bytes of 0, which reads back as 35 bytes.
Text(a) == [prefix |-> Prefix(a), bytes |-> a, size |-> LengthInBytes + IF a = NullAddress THEN 1 ELSE 0]

\* The prefix must be the one of the kind; X is for any kind from Interop on.
PrefixFits(text) ==
  \/ text.prefix = "P" /\ Kind(text.bytes) = User
  \/ text.prefix = "S" /\ Kind(text.bytes) = System
  \/ text.prefix = "X" /\ Kind(text.bytes) >= Interop

Readable(text) == text.size = LengthInBytes /\ PrefixFits(text)
FromText(text) == IF Readable(text) THEN text.bytes ELSE NullAddress
=============================================================================
