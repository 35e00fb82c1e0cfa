------------------------------- MODULE Wallet -------------------------------
(***************************************************************************)
(* The keys of KeyStore and a transaction that is signed with them: what   *)
(* an application does with both, in any order.                            *)
(***************************************************************************)
EXTENDS KeyStore

vars == <<txVars, storeVars>>

Init == TxInit /\ StoreInit

\* phantasma/Cryptography/KeyPair.h: PhantasmaKeys::Sign, which reads the private key.
SignWithKeys == Sign(keys.private) /\ UNCHANGED storeVars

Next ==
  \/ StoreNext /\ UNCHANGED txVars
  \/ (Construct \/ Serialize \/ Mine \/ MineTurn) /\ UNCHANGED storeVars
  \/ SignWithKeys

Spec == Init /\ [][Next]_vars

TypeOK == TxTypeOK /\ StoreTypeOK
=============================================================================
