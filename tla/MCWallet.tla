------------------------------ MODULE MCWallet ------------------------------
(***************************************************************************)
(* Two keys, the null one among them, one password besides the empty one,  *)
(* and a transaction whose hashes have a difficulty of 0 to 2.             *)
(***************************************************************************)
EXTENDS Wallet

CONSTANTS key, name0, name1, zeros, terms, unscripted, payload

MCKeys      == {NullKey, key}
MCPublicKey == [k \in MCKeys |-> IF k = key THEN name1 ELSE name0]
MCNames     == {name0, name1, zeros}

\* The address that differs from a key's by its padding, one of another platform, and the null one.
MCKeptAddresses == {FromKey33(1, name1), FromInterop(2, 0, name1), NullAddress}

\* Nonces 1 and 3 reach a difficulty of 1 and 2, what was there before none.
MCDifficulty(c) == IF c.payload = Nonce(1) THEN 1 ELSE IF c.payload = Nonce(3) THEN 2 ELSE 0

\* Bound: what is done to a transaction is checked while nothing is stored.
NothingStored == Constructed => stored = Nothing
=============================================================================
