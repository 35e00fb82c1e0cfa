-------------------------- MODULE SequenceContract --------------------------
(***************************************************************************)
(* What each call of a SecureVector does to its elements.  Two calls are   *)
(* weaker than std::vector's: push_back of one of the vector's own elements*)
(* may append a zero, and assigning a vector to itself may zero it.        *)
(***************************************************************************)
EXTENDS Naturals, Sequences

VARIABLE contents

Zeroed(s) == [i \in DOMAIN s |-> 0]

\* resize: cut, or extend with zeros.
Resized(s, n) == [i \in 1 .. n |-> IF i <= Len(s) THEN s[i] ELSE 0]

Init == contents = <<>>

PushBack(t) == contents' = Append(contents, t)

PushOwn(i) == i \in DOMAIN contents /\ (PushBack(contents[i]) \/ PushBack(0))

PopBack == contents # <<>> /\ contents' = SubSeq(contents, 1, Len(contents) - 1)

Resize(n) == contents' = Resized(contents, n)

Assign(other) == contents' = other

SelfAssign == contents' \in {contents, Zeroed(contents)}
=============================================================================
