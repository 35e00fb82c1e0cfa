---------------------------- MODULE RandomStream ----------------------------
(***************************************************************************)
(* One XorShift64M object of random.h from which RandomIndex(count) is     *)
(* drawn again and again, one turn of its do-while per step, for as many   *)
(* words as the generator has before it repeats.                           *)
(***************************************************************************)
EXTENDS GameRandom

VARIABLES
  seed, count,   \* the constructor's and RandomIndex's arguments
  m_state,
  turns,         \* history: words drawn
  tally          \* history: how often RandomIndex returned each index

streamVars == <<seed, count, m_state, turns, tally>>

Words == 0 .. Modulus - 1

\* Words that occur before the generator repeats, started from any seed but 0.
Period == Modulus - 1

\* Mutant of EndValid: reject nothing.
EndValidAll(n) == Modulus

\* The multiple of count below which a word is kept.
EndValid(n) == ((Modulus - 1) \div n) * n

StreamInit ==
  /\ seed \in Words /\ count \in 1 .. Modulus - 1
  /\ m_state = seed /\ turns = 0 /\ tally = [i \in 0 .. count - 1 |-> 0]

Turn ==
  /\ turns < Period
  /\ m_state' = XorShiftNext(m_state) /\ turns' = turns + 1
  /\ LET word == XorShiftOutput(m_state)
     IN tally' = IF word < EndValid(count) THEN [tally EXCEPT ![word % count] = @ + 1] ELSE tally
  /\ UNCHANGED <<seed, count>>
-----------------------------------------------------------------------------
StreamTypeOK ==
  /\ seed \in Words /\ count \in 1 .. Modulus - 1 /\ m_state \in Words
  /\ turns \in 0 .. Period /\ tally \in [0 .. count - 1 -> 0 .. turns]

\* "reject any that are within sum of overflowing to avoid bias" (random.h:40): over one period
\* every index is returned equally often.  The word 0 is the one word a nonzero seed never
\* gives, hence the one missing 0.
NoBias ==
  turns = Period /\ seed # 0 =>
    \A i \in 0 .. count - 1 : tally[i] + (IF i = 0 THEN 1 ELSE 0) = (Modulus - 1) \div count
=============================================================================
