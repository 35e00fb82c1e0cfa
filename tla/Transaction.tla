---------------------------- MODULE Transaction ----------------------------
(***************************************************************************)
(* phantasma/Blockchain/Transaction.h with Signature.h, Ed25519Signature.h *)
(* and the difficulty of Hash.h: one Transaction object of one thread,     *)
(* from its construction on.  Names, script and expiration never change,   *)
(* terms.  A hash is the content it was taken of, a signature the key and  *)
(* the message.  Mine's loop runs one turn per step.                       *)
(***************************************************************************)
EXTENDS Address, Sequences

CONSTANTS
  Keys,            \* private keys
  PublicKey,       \* the 32 bytes of the public key of each
  Terms,           \* names, scripts and expirations transactions are made of
  Unscripted,      \* those with an empty script
  Payloads,        \* payloads transactions are made with
  Difficulty(_),   \* of the hash of a content: 256 less its highest bit's place
  MaxDifficulty,   \* 256
  MaxNonce,        \* the highest 32-bit nonce
  MaxSignatures    \* bound: signatures a transaction gets

\* The payload of a nonce: its four bytes.
Nonce(n) == <<n>>

\* What is signed and hashed.
Contents == [terms : Terms, payload : Payloads \cup {Nonce(n) : n \in 1 .. MaxNonce}]

NullHash == [terms |-> "none"]
NoTerms  == "no terms"

ASSUME KeyAssumption ==
  /\ PublicKey \in [Keys -> Names \ Nulls]
  /\ \A k, l \in Keys : PublicKey[k] = PublicKey[l] => k = l

ASSUME TransactionAssumption ==
  /\ Unscripted \subseteq Terms /\ NoTerms \notin Terms
  /\ MaxDifficulty \in Nat /\ MaxNonce \in Nat \ {0} /\ MaxSignatures \in Nat
  /\ \A c \in Contents : Difficulty(c) \in 0 .. MaxDifficulty

VARIABLES
  tx,       \* the members of the object
  mining,   \* Mine's argument and nonce while it runs
  mined,    \* history: the difficulty the last Mine returned true for
  sent      \* history: what was serialized with its signatures

txVars == <<tx, mining, mined, sent>>

\* Serialize without signatures, and the message of signature and hash.
Content(t) == [terms |-> t.terms, payload |-> t.payload]

NotMining == [target |-> -1, nonce |-> 0]

\* The default constructor, before an assignment.
TxInit ==
  /\ tx = [terms |-> NoTerms, payload |-> <<>>, signatures |-> <<>>, hash |-> NullHash]
  /\ mining = NotMining
  /\ mined = 0
  /\ sent = {}

Idle == mining = NotMining
-----------------------------------------------------------------------------
UpdateHash(t) == [t EXCEPT !.hash = Content(t)]

\* Without a script the constructor is left before the payload is taken and the hash made.
Construct ==
  /\ Idle /\ tx.terms = NoTerms
  /\ \E terms \in Terms, payload \in Payloads :
       LET made == [terms |-> terms, payload |-> <<>>, signatures |-> <<>>, hash |-> NullHash]
       IN tx' = IF terms \in Unscripted THEN made ELSE UpdateHash([made EXCEPT !.payload = payload])
  /\ UNCHANGED <<mining, mined, sent>>

Constructed == tx.terms # NoTerms

\* Ed25519Signature::Generate.
Signature(key, message) == [key |-> key, message |-> message]

Sign(key) ==
  /\ Idle /\ Constructed /\ Len(tx.signatures) < MaxSignatures
  /\ tx' = [tx EXCEPT !.signatures = Append(@, Signature(key, Content(tx)))]
  /\ UNCHANGED <<mining, mined, sent>>

\* Only the address of a user has a public key: its bytes from the third on, whatever the second.
Verify(signature, message, address) ==
  IsUser(address) /\ address.name = PublicKey[signature.key] /\ signature.message = message

\* Mutant: the answer for the first signature is the answer.
IsSignedByFirst(t, addresses) ==
  t.signatures # <<>> /\ \E address \in addresses : Verify(t.signatures[1], Content(t), address)

IsSignedBy(t, addresses) ==
  \E i \in DOMAIN t.signatures : \E address \in addresses : Verify(t.signatures[i], Content(t), address)

Serialize ==
  /\ Idle /\ Constructed
  /\ sent' = sent \cup {[content |-> Content(tx), signatures |-> tx.signatures, hash |-> tx.hash]}
  /\ UNCHANGED <<tx, mining, mined>>

\* Mutant: a signed transaction is mined too.
MineSigned ==
  /\ Idle /\ Constructed
  /\ \E target \in 1 .. MaxDifficulty : mining' = [target |-> target, nonce |-> 0] /\ mined' = 0
  /\ UNCHANGED <<tx, sent>>

\* A signed transaction is refused, and one without difficulty is mined as it is.
Mine ==
  /\ Idle /\ Constructed
  /\ \E target \in 0 .. MaxDifficulty :
       IF tx.signatures # <<>> \/ target = 0 THEN UNCHANGED <<mining, mined>>
       ELSE mining' = [target |-> target, nonce |-> 0] /\ mined' = 0
  /\ UNCHANGED <<tx, sent>>

\* The hash that was there before is looked at first; then the payload becomes the next nonce.
\* The null hash has no bit set.
DifficultyOf(hash) == IF hash = NullHash THEN MaxDifficulty ELSE Difficulty(hash)

\* Mutant: a nonce that was put in the payload is not hashed.
MineTurnUnhashed ==
  /\ ~ Idle
  /\ IF DifficultyOf(tx.hash) >= mining.target \/ mining.nonce = MaxNonce
     THEN /\ mining' = NotMining
          /\ mined' = IF DifficultyOf(tx.hash) >= mining.target THEN mining.target ELSE mined
          /\ UNCHANGED tx
     ELSE /\ mining' = [mining EXCEPT !.nonce = @ + 1]
          /\ tx' = [tx EXCEPT !.payload = Nonce(mining.nonce + 1)]
          /\ UNCHANGED mined
  /\ UNCHANGED sent

MineTurn ==
  /\ ~ Idle
  /\ IF DifficultyOf(tx.hash) >= mining.target
     THEN /\ mined' = mining.target
          /\ mining' = NotMining
          /\ UNCHANGED tx
     ELSE IF mining.nonce = MaxNonce
     THEN mining' = NotMining /\ UNCHANGED <<tx, mined>>
     ELSE /\ mining' = [mining EXCEPT !.nonce = @ + 1]
          /\ tx' = UpdateHash([tx EXCEPT !.payload = Nonce(mining.nonce + 1)])
          /\ UNCHANGED mined
  /\ UNCHANGED sent

-----------------------------------------------------------------------------
Payload    == Payloads \cup {<<>>} \cup {Nonce(n) : n \in 1 .. MaxNonce}
Messages   == [terms : Terms, payload : Payload]
Signatures == [key : Keys, message : Messages]

TxTypeOK ==
  /\ tx \in [terms : Terms \cup {NoTerms}, payload : Payload, signatures : Seq(Signatures),
             hash : Contents \cup {NullHash}]
  /\ mining \in [target : 0 .. MaxDifficulty, nonce : 0 .. MaxNonce] \cup {NotMining}
  /\ mined \in 0 .. MaxDifficulty
  /\ sent \subseteq [content : Messages, signatures : Seq(Signatures), hash : Contents \cup {NullHash}]

\* What is signed stays as it was signed: every signature is one of the transaction as it is now, and
\* so was every one that was sent; all that was sent signed is the same content, under its own hash.
\* Mine, which changes both, refuses a signed transaction.
SignedIsFinal ==
  /\ \A i \in DOMAIN tx.signatures : tx.signatures[i].message = Content(tx)
  /\ \A s \in sent : s.signatures # <<>> =>
       /\ s.content = Content(tx)
       /\ \A i \in DOMAIN s.signatures : s.signatures[i].message = s.content
       /\ tx.terms \notin Unscripted => s.hash = s.content

\* The hash is that of the content, between any two turns of Mine too; and the difficulty Mine last
\* returned true for is still that of the hash, whatever was done since.
HashIsCurrent ==
  /\ (Constructed /\ tx.terms \notin Unscripted) => tx.hash = Content(tx)
  /\ mined <= DifficultyOf(tx.hash)

\* The transaction is signed by the address of a key exactly when that key signed it, whatever was
\* done to the transaction before and since, and whoever else signed it: IsSignedBy over Sign, Mine
\* and Serialize in any order.
SignersAreTheKeys ==
  \A key \in Keys :
    IsSignedBy(tx, {FromKey(PublicKey[key])}) <=> \E i \in DOMAIN tx.signatures : tx.signatures[i].key = key
=============================================================================
