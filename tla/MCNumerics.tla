----------------------------- MODULE MCNumerics -----------------------------
(***************************************************************************)
(* The SDK's numbers and texts, and the contract's random indices: two     *)
(* machines without shared state, of which one runs in each behaviour.     *)
(* Words of two 4-bit bytes for the numbers, 5-bit words for the           *)
(* generator: the shifts 1, 3, 2 give it a full period at this width, as   *)
(* 11, 31, 18 are chosen to at 64.                                         *)
(***************************************************************************)
EXTENDS Numbers, RandomStream

\* Decimal digits, of which 7 is none of Base58's or Base16's here, and what is not a digit.
MCCharacters == {0, 1, 7, LetterX, Dash, NewLine, Point, Pad}

vars == <<numberVars, streamVars>>

\* A machine that has nothing left to do.
NumberAtRest == number = Zero /\ exact = 0 /\ fits = FALSE /\ input = Computed /\ job = Idle
StreamAtRest == seed = 0 /\ count = 1 /\ m_state = 0 /\ turns = Period /\ tally = [i \in {0} |-> 0]

Init == \/ NumberInit /\ StreamAtRest
        \/ NumberAtRest /\ StreamInit

Next == \/ NumberNext /\ UNCHANGED streamVars
        \/ Turn /\ UNCHANGED numberVars

Spec == Init /\ [][Next]_vars

\* The words of a number fit a word, its sign is one of three; a stream's state and tally stay in range.
TypeOK == NumberTypeOK /\ StreamTypeOK
=============================================================================
