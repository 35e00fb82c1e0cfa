---------------------------- MODULE WalletProofs ----------------------------
(***************************************************************************)
(* What the run of MCWallet checks on a small instance, for every set of   *)
(* keys, addresses, terms, passwords, salts and nonces, every difficulty a *)
(* hash may have, and any number of signatures.                            *)
(***************************************************************************)
EXTENDS Wallet, TLAPS

(* The transaction. *)

\* Nothing is done to a transaction before it is made.
Untouched ==
  ~ Constructed => mining = NotMining /\ mined = 0 /\ sent = {} /\ tx.signatures = <<>>

\* A transaction is not mined once it is signed, nor once it was sent signed.
MinedUnsigned ==
  /\ ~ Idle => Constructed /\ mined = 0 /\ tx.signatures = <<>>
  /\ \A s \in sent : s.signatures # <<>> => tx.signatures # <<>>

TxInv == TxTypeOK /\ Untouched /\ MinedUnsigned /\ SignedIsFinal /\ HashIsCurrent

\* One step of the transaction.
TxStep == Construct \/ (\E key \in Keys : Sign(key)) \/ Serialize \/ Mine \/ MineTurn

LEMMA DifficultyType ==
  ASSUME NEW h \in Contents \cup {NullHash}
  PROVE  DifficultyOf(h) \in 0 .. MaxDifficulty
  BY TransactionAssumption DEF DifficultyOf

LEMMA TxInitInv == TxInit => TxInv
  <1>. SUFFICES ASSUME TxInit PROVE TxInv
    OBVIOUS
  <1>1. TxTypeOK
    BY TransactionAssumption DEF TxInit, TxTypeOK, Payload, NotMining
  <1>2. ~ Constructed /\ Idle
    BY DEF TxInit, Constructed, Idle
  <1>3. DifficultyOf(tx.hash) \in 0 .. MaxDifficulty
    BY DifficultyType DEF TxInit
  <1>4. HashIsCurrent
    BY <1>2, <1>3, TransactionAssumption DEF TxInit, HashIsCurrent
  <1>5. Untouched /\ MinedUnsigned /\ SignedIsFinal
    BY <1>2 DEF TxInit, Untouched, MinedUnsigned, SignedIsFinal
  <1>. QED  BY <1>1, <1>4, <1>5 DEF TxInv

LEMMA ConstructInv == TxInv /\ Construct => TxInv'
  <1>. SUFFICES ASSUME TxInv, Construct PROVE TxInv'
    OBVIOUS
  <1>1. Idle /\ ~ Constructed /\ mining = NotMining /\ mined = 0 /\ sent = {}
    BY DEF Construct, TxInv, Untouched, Constructed, Idle
  <1>2. mining' = NotMining /\ mined' = 0 /\ sent' = {}
    BY <1>1 DEF Construct
  <1>3. PICK terms \in Terms, payload \in Payloads :
          LET made == [terms |-> terms, payload |-> <<>>, signatures |-> <<>>, hash |-> NullHash]
          IN tx' = IF terms \in Unscripted THEN made ELSE UpdateHash([made EXCEPT !.payload = payload])
    BY DEF Construct
  <1>4. CASE terms \in Unscripted
    <2>1. tx' = [terms |-> terms, payload |-> <<>>, signatures |-> <<>>, hash |-> NullHash]
      BY <1>3, <1>4
    <2>2. TxTypeOK'
      BY <1>2, <2>1, TransactionAssumption DEF TxTypeOK, Payload
    <2>3. DifficultyOf(tx'.hash) \in 0 .. MaxDifficulty
      BY <2>1, DifficultyType
    <2>. QED  BY <1>2, <1>4, <2>1, <2>2, <2>3, TransactionAssumption
              DEF TxInv, Untouched, MinedUnsigned, SignedIsFinal, HashIsCurrent, Constructed, Idle
  <1>5. CASE terms \notin Unscripted
    <2>1. tx' = [terms |-> terms, payload |-> payload, signatures |-> <<>>,
                 hash |-> [terms |-> terms, payload |-> payload]]
      BY <1>3, <1>5 DEF UpdateHash, Content
    <2>2. tx'.hash \in Contents /\ tx'.hash = Content(tx)'
      BY <2>1 DEF Contents, Content
    <2>3. TxTypeOK'
      BY <1>2, <2>1, <2>2, TransactionAssumption DEF TxTypeOK, Payload
    <2>4. DifficultyOf(tx'.hash) \in 0 .. MaxDifficulty
      BY <2>2, DifficultyType
    <2>. QED  BY <1>2, <2>1, <2>2, <2>3, <2>4, TransactionAssumption
              DEF TxInv, Untouched, MinedUnsigned, SignedIsFinal, HashIsCurrent, Constructed, Idle
  <1>. QED  BY <1>4, <1>5

LEMMA SignInv == ASSUME TxInv, NEW key \in Keys, Sign(key) PROVE TxInv'
  <1>1. Idle /\ Constructed
    BY DEF Sign
  <1>2. UNCHANGED <<mining, mined, sent>>
    BY DEF Sign
  <1>3. /\ tx \in [terms : Terms \cup {NoTerms}, payload : Payload, signatures : Seq(Signatures),
                   hash : Contents \cup {NullHash}]
        /\ tx.terms \in Terms
    BY <1>1 DEF TxInv, TxTypeOK, Constructed
  <1>4. Signature(key, Content(tx)) \in Signatures
    BY <1>3 DEF Signature, Signatures, Messages, Content
  <1>5. tx' = [tx EXCEPT !.signatures = Append(tx.signatures, Signature(key, Content(tx)))]
    BY DEF Sign
  <1>6. /\ tx'.terms = tx.terms /\ tx'.payload = tx.payload /\ tx'.hash = tx.hash
        /\ tx'.signatures = Append(tx.signatures, Signature(key, Content(tx)))
    BY <1>3, <1>5
  <1>7. tx'.signatures \in Seq(Signatures) /\ tx'.signatures # <<>>
    BY <1>3, <1>4, <1>6
  <1>8. TxTypeOK'
    BY <1>2, <1>3, <1>4, <1>5, <1>7 DEF TxInv, TxTypeOK
  <1>9. Content(tx)' = Content(tx) /\ Constructed' /\ Idle'
    BY <1>1, <1>2, <1>6 DEF Content, Constructed, Idle
  <1>10. Untouched' /\ MinedUnsigned' /\ HashIsCurrent'
    BY <1>1, <1>2, <1>6, <1>7, <1>9 DEF TxInv, Untouched, MinedUnsigned, HashIsCurrent, DifficultyOf
  <1>11. \A i \in DOMAIN tx'.signatures : tx'.signatures[i].message = Content(tx)'
    <2>1. SUFFICES ASSUME NEW i \in DOMAIN tx'.signatures PROVE tx'.signatures[i].message = Content(tx)
      BY <1>9
    <2>2. CASE i \in DOMAIN tx.signatures
      BY <1>3, <1>4, <1>6, <2>2 DEF TxInv, SignedIsFinal
    <2>3. CASE i = Len(tx.signatures) + 1
      BY <1>3, <1>4, <1>6, <2>3 DEF Signature
    <2>. QED  BY <1>3, <1>4, <1>6, <2>2, <2>3
  <1>12. SignedIsFinal'
    BY <1>2, <1>6, <1>9, <1>11 DEF TxInv, SignedIsFinal
  <1>. QED  BY <1>8, <1>10, <1>12 DEF TxInv

LEMMA SerializeInv == TxInv /\ Serialize => TxInv'
  <1>. SUFFICES ASSUME TxInv, Serialize PROVE TxInv'
    OBVIOUS
  <1>1. Idle /\ Constructed /\ UNCHANGED <<tx, mining, mined>>
    BY DEF Serialize
  <1>. DEFINE written == [content |-> Content(tx), signatures |-> tx.signatures, hash |-> tx.hash]
  <1>2. sent' = sent \cup {written}
    BY DEF Serialize
  <1>3. written \in [content : Messages, signatures : Seq(Signatures), hash : Contents \cup {NullHash}]
    BY <1>1 DEF TxInv, TxTypeOK, Content, Messages, Constructed
  <1>4. TxTypeOK'
    BY <1>1, <1>2, <1>3 DEF TxInv, TxTypeOK
  <1>5. Untouched' /\ MinedUnsigned' /\ HashIsCurrent'
    BY <1>1, <1>2 DEF TxInv, Untouched, MinedUnsigned, HashIsCurrent, Constructed, Idle, Content, DifficultyOf
  <1>6. SignedIsFinal'
    BY <1>1, <1>2 DEF TxInv, SignedIsFinal, HashIsCurrent, Content
  <1>. QED  BY <1>4, <1>5, <1>6 DEF TxInv

LEMMA MineInv == TxInv /\ Mine => TxInv'
  <1>. SUFFICES ASSUME TxInv, Mine PROVE TxInv'
    OBVIOUS
  <1>1. Idle /\ Constructed /\ UNCHANGED <<tx, sent>>
    BY DEF Mine
  <1>2. \/ UNCHANGED <<mining, mined>>
        \/ /\ tx.signatures = <<>> /\ mined' = 0
           /\ mining' \in [target : 0 .. MaxDifficulty, nonce : 0 .. MaxNonce]
    BY TransactionAssumption DEF Mine
  <1>3. TxTypeOK'
    BY <1>1, <1>2, TransactionAssumption DEF TxInv, TxTypeOK
  <1>4. DifficultyOf(tx.hash) \in 0 .. MaxDifficulty
    BY DifficultyType DEF TxInv, TxTypeOK
  <1>5. HashIsCurrent'
    BY <1>1, <1>2, <1>4, TransactionAssumption DEF TxInv, HashIsCurrent, Constructed, Content, DifficultyOf
  <1>6. Untouched' /\ MinedUnsigned' /\ SignedIsFinal'
    BY <1>1, <1>2 DEF TxInv, Untouched, MinedUnsigned, SignedIsFinal, Constructed, Idle, Content
  <1>. QED  BY <1>3, <1>5, <1>6 DEF TxInv

LEMMA MineTurnInv == TxInv /\ MineTurn => TxInv'
  <1>. SUFFICES ASSUME TxInv, MineTurn PROVE TxInv'
    OBVIOUS
  <1>1. ~ Idle /\ Constructed /\ mined = 0 /\ tx.signatures = <<>>
    BY DEF MineTurn, TxInv, MinedUnsigned
  <1>2. sent' = sent /\ \A s \in sent : s.signatures = <<>>
    BY <1>1 DEF MineTurn, TxInv, MinedUnsigned
  <1>3. mining \in [target : 0 .. MaxDifficulty, nonce : 0 .. MaxNonce]
    BY <1>1 DEF TxInv, TxTypeOK, Idle
  <1>4. DifficultyOf(tx.hash) \in 0 .. MaxDifficulty
    BY DifficultyType DEF TxInv, TxTypeOK
  <1>5. CASE DifficultyOf(tx.hash) >= mining.target
    <2>1. mined' = mining.target /\ mining' = NotMining /\ tx' = tx
      BY <1>5 DEF MineTurn
    <2>2. TxTypeOK'
      BY <1>2, <1>3, <2>1 DEF TxInv, TxTypeOK
    <2>3. HashIsCurrent'
      BY <1>5, <2>1 DEF TxInv, HashIsCurrent, Constructed, Content, DifficultyOf
    <2>. QED  BY <1>1, <1>2, <2>1, <2>2, <2>3
              DEF TxInv, Untouched, MinedUnsigned, SignedIsFinal, Constructed, Idle, Content
  <1>6. CASE ~ (DifficultyOf(tx.hash) >= mining.target) /\ mining.nonce = MaxNonce
    <2>1. mining' = NotMining /\ UNCHANGED <<tx, mined>>
      BY <1>6 DEF MineTurn
    <2>2. TxTypeOK'
      BY <1>2, <2>1 DEF TxInv, TxTypeOK
    <2>3. HashIsCurrent'
      BY <2>1 DEF TxInv, HashIsCurrent, Constructed, Content, DifficultyOf
    <2>. QED  BY <1>1, <1>2, <2>1, <2>2, <2>3
              DEF TxInv, Untouched, MinedUnsigned, SignedIsFinal, Constructed, Idle, Content
  <1>7. CASE ~ (DifficultyOf(tx.hash) >= mining.target) /\ mining.nonce # MaxNonce
    <2>. DEFINE nonce == Nonce(mining.nonce + 1)
    <2>1. /\ mining' = [mining EXCEPT !.nonce = mining.nonce + 1]
          /\ tx' = UpdateHash([tx EXCEPT !.payload = nonce])
          /\ mined' = mined
      BY <1>7 DEF MineTurn
    <2>2. mining.nonce + 1 \in 1 .. MaxNonce
      BY <1>3, <1>7, TransactionAssumption
    <2>3. nonce \in {Nonce(n) : n \in 1 .. MaxNonce}
      BY <2>2
    <2>4. mining' \in [target : 0 .. MaxDifficulty, nonce : 0 .. MaxNonce]
      BY <1>3, <2>1, <2>2
    <2>5. tx \in [terms : Terms \cup {NoTerms}, payload : Payload, signatures : Seq(Signatures),
                  hash : Contents \cup {NullHash}]
      BY DEF TxInv, TxTypeOK
    <2>6. /\ tx' = [tx EXCEPT !.payload = nonce, !.hash = [terms |-> tx.terms, payload |-> nonce]]
          /\ tx'.terms = tx.terms /\ tx'.payload = nonce /\ tx'.signatures = <<>>
          /\ tx'.hash = [terms |-> tx.terms, payload |-> nonce]
      BY <1>1, <2>1, <2>5 DEF UpdateHash, Content
    <2>7. tx'.hash \in Contents
      BY <1>1, <2>3, <2>5, <2>6 DEF Contents, Constructed
    <2>8. TxTypeOK'
      <3>1. nonce \in Payload
        BY <2>3 DEF Payload
      <3>2. tx' \in [terms : Terms \cup {NoTerms}, payload : Payload, signatures : Seq(Signatures),
                     hash : Contents \cup {NullHash}]
        BY <2>5, <2>6, <2>7, <3>1
      <3>. QED  BY <1>2, <2>1, <2>4, <3>2 DEF TxInv, TxTypeOK
    <2>9. HashIsCurrent'
      <3>1. DifficultyOf(tx'.hash) \in 0 .. MaxDifficulty
        BY <2>7, DifficultyType
      <3>2. mined' <= DifficultyOf(tx'.hash)
        BY <1>1, <2>1, <3>1, TransactionAssumption
      <3>3. tx'.hash = Content(tx')
        BY <2>6 DEF Content
      <3>. QED  BY <3>2, <3>3 DEF HashIsCurrent
    <2>10. Constructed'
      BY <1>1, <2>6 DEF Constructed
    <2>11. SignedIsFinal'
      BY <1>2, <2>6 DEF SignedIsFinal
    <2>12. Untouched' /\ MinedUnsigned'
      BY <1>1, <1>2, <2>1, <2>6, <2>10 DEF Untouched, MinedUnsigned
    <2>. QED  BY <2>8, <2>9, <2>11, <2>12 DEF TxInv
  <1>. QED  BY <1>5, <1>6, <1>7

LEMMA TxStepInv == TxInv /\ (TxStep \/ UNCHANGED txVars) => TxInv'
  <1>1. ASSUME TxInv, UNCHANGED txVars PROVE TxInv'
    BY <1>1 DEF txVars, TxInv, TxTypeOK, Untouched, MinedUnsigned, SignedIsFinal, HashIsCurrent,
                Constructed, Idle, Content, DifficultyOf
  <1>. QED  BY <1>1, ConstructInv, SignInv, SerializeInv, MineInv, MineTurnInv DEF TxStep
-----------------------------------------------------------------------------
(* The keys. *)

\* The pairs that their password opens, and whose text can be loaded while the address is the key's.
Usable(p) ==
  /\ p.secret.message \in Keys
  /\ \E password \in Passwords : \E key \in PasswordToKey(password, p.salt) : Opens(p, key)
  /\ p.address = PhantasmaKeys(p.secret.message).address => TextFits(p.address)

\* What is stored carries the hash of a usable pair, or a damaged one.
StoredUsable ==
  stored.form \in {"text", "bytes"} =>
    stored.hash = NoHash \/ \E p \in Pairs : Usable(p) /\ stored.hash = Hash(p)

PairUsable == pair = NoPair \/ (pair \in Pairs /\ Usable(pair))

KeysKnown == keys.private \in Keys

\* A WIF text and a pair's, as records.
StoredShape ==
  \/ stored = Nothing
  \/ stored.form = "wif" /\ stored.key \in Keys
     /\ stored = [form |-> stored.form, key |-> stored.key, hash |-> stored.hash]
  \/ stored.form \in {"text", "bytes"}
     /\ stored = [form |-> stored.form, parts |-> stored.parts, hash |-> stored.hash]

StoreInv == KeysKnown /\ StoredShape /\ PairUsable /\ StoredUsable /\ OpenedKeysSign

\* The address of a key is a user's, and its text reads back.
LEMMA KeyAddress ==
  ASSUME NEW key \in Keys
  PROVE  /\ PhantasmaKeys(key).address \in Addresses
         /\ IsUser(PhantasmaKeys(key).address)
         /\ PhantasmaKeys(key).address.name = PublicKey[key]
         /\ TextFits(PhantasmaKeys(key).address)
  <1>. DEFINE address == PhantasmaKeys(key).address
  <1>1. address = [kind |-> 1, pad |-> 0, name |-> PublicKey[key]]
    BY DEF PhantasmaKeys, FromKey, User
  <1>2. PublicKey[key] \in Names \ Nulls
    BY KeyAssumption
  <1>3. Kind(address) = 1
    BY <1>1, <1>2 DEF Kind, IsNull
  <1>4. address # NullAddress
    BY <1>1 DEF NullAddress
  <1>5. address \in Addresses
    BY <1>1, <1>2, AddressAssumption DEF Addresses, Interop
  <1>6. Text(address) = [prefix |-> "P", bytes |-> address, size |-> 34]
    BY <1>3, <1>4 DEF Text, Prefix, User, LengthInBytes
  <1>7. Readable(Text(address))
    BY <1>3, <1>6 DEF Readable, PrefixFits, User, LengthInBytes
  <1>8. TextFits(address)
    BY <1>1, <1>7 DEF TextFits, Invalid
  <1>. QED  BY <1>1, <1>3, <1>5, <1>8 DEF IsUser, User

LEMMA KeyVerifies ==
  ASSUME NEW key \in Keys, NEW message
  PROVE  Verify(Signature(key, message), message, PhantasmaKeys(key).address)
  BY KeyAddress DEF Verify, Signature

LEMMA StoreInitInv == StoreInit => StoreInv
  BY StoreAssumption DEF StoreInit, StoreInv, KeysKnown, StoredShape, PairUsable, StoredUsable, OpenedKeysSign,
                         NoKeys, Nothing, NotOpened

\* Steps that change keys alone, for other keys.
LEMMA KeysInv ==
  ASSUME StoreInv, NEW key \in Keys, keys' = PhantasmaKeys(key), UNCHANGED <<pair, stored, opened>>
  PROVE  StoreInv'
  BY DEF StoreInv, KeysKnown, StoredShape, PairUsable, StoredUsable, OpenedKeysSign, PhantasmaKeys

LEMMA FromWIFInv == StoreInv /\ FromWIF => StoreInv'
  <1>. SUFFICES ASSUME StoreInv, FromWIF PROVE StoreInv'
    OBVIOUS
  <1>1. stored.key \in Keys
    BY DEF FromWIF, StoreInv, StoredShape, Nothing
  <1>2. PICK key \in Keys : keys' = PhantasmaKeys(key)
    BY <1>1, StoreAssumption DEF FromWIF
  <1>. QED  BY <1>2, KeysInv DEF FromWIF

\* Steps that change pair alone, for a usable one.
LEMMA PairInv ==
  ASSUME StoreInv, PairUsable', UNCHANGED <<keys, stored, opened>>
  PROVE  StoreInv'
  BY DEF StoreInv, KeysKnown, StoredShape, StoredUsable, OpenedKeysSign

LEMMA ProtectInv == StoreInv /\ Protect => StoreInv'
  <1>. SUFFICES ASSUME StoreInv, Protect PROVE StoreInv'
    OBVIOUS
  <1>1. PICK password \in Passwords, salt \in Salts, nonce \in Nonces :
          \E key \in PasswordToKey(password, salt) :
            pair' = [address |-> FromKey(PublicKey[keys.private]), salt |-> salt, nonce |-> nonce,
                     secret |-> Box(keys.private, nonce, key)]
    BY DEF Protect
  <1>2. PICK key \in PasswordToKey(password, salt) :
          pair' = [address |-> FromKey(PublicKey[keys.private]), salt |-> salt, nonce |-> nonce,
                   secret |-> Box(keys.private, nonce, key)]
    BY <1>1
  <1>3. keys.private \in Keys
    BY DEF StoreInv, KeysKnown
  <1>4. /\ FromKey(PublicKey[keys.private]) = PhantasmaKeys(keys.private).address
        /\ FromKey(PublicKey[keys.private]) \in Addresses /\ TextFits(FromKey(PublicKey[keys.private]))
    BY <1>3, KeyAddress DEF PhantasmaKeys
  <1>5. Box(keys.private, nonce, key) \in Boxes
    <2>1. key \in Garbage \cup {KeyOf(p, s) : p \in Passwords \ {Empty}, s \in Salts}
      BY <1>2 DEF PasswordToKey
    <2>. QED  BY <1>3, <2>1 DEF Box, Boxes
  <1>6. pair' \in Pairs
    BY <1>2, <1>4, <1>5 DEF Pairs
  <1>7. /\ pair'.salt = salt /\ pair'.nonce = nonce /\ pair'.address = FromKey(PublicKey[keys.private])
        /\ pair'.secret.message = keys.private /\ pair'.secret.nonce = nonce /\ pair'.secret.key = key
    BY <1>2 DEF Box
  <1>8. Opens(pair', key) /\ key \in PasswordToKey(password, pair'.salt)
    BY <1>2, <1>7 DEF Opens
  <1>9. Usable(pair')
    BY <1>3, <1>4, <1>7, <1>8 DEF Usable
  <1>. QED  BY <1>6, <1>9, PairInv DEF Protect, PairUsable

LEMMA FromPartsInv == StoreInv /\ FromParts => StoreInv'
  <1>. SUFFICES ASSUME StoreInv, FromParts PROVE StoreInv'
    OBVIOUS
  <1>1. pair \in Pairs /\ Usable(pair)
    BY DEF FromParts, StoreInv, PairUsable, NoPair
  <1>2. PICK address \in Addresses : pair' = [pair EXCEPT !.address = address]
    BY StoreAssumption DEF FromParts
  <1>3. /\ pair' \in Pairs
        /\ pair'.address = address /\ pair'.salt = pair.salt /\ pair'.nonce = pair.nonce /\ pair'.secret = pair.secret
    BY <1>1, <1>2 DEF Pairs
  <1>4. Usable(pair')
    BY <1>1, <1>3, KeyAddress DEF Usable, Opens
  <1>. QED  BY <1>3, <1>4, PairInv DEF FromParts, PairUsable

LEMMA LoadInv == StoreInv /\ Load => StoreInv'
  <1>. SUFFICES ASSUME StoreInv, Load PROVE StoreInv'
    OBVIOUS
  <1>1. CASE ~ Accepted
    BY <1>1, PairInv DEF Load, PairUsable
  <1>2. CASE Accepted
    <2>1. PICK p \in Pairs : Usable(p) /\ stored.hash = Hash(p)
      BY <1>2 DEF Accepted, Load, StoreInv, StoredUsable, Hash, NoHash
    <2>2. p = stored.parts
      BY <1>2, <2>1 DEF Accepted, Hash
    <2>. QED  BY <1>2, <2>1, <2>2, PairInv DEF Load, PairUsable
  <1>. QED  BY <1>1, <1>2

LEMMA DecryptInv == StoreInv /\ Decrypt => StoreInv'
  <1>. SUFFICES ASSUME StoreInv, Decrypt PROVE StoreInv'
    OBVIOUS
  <1>1. UNCHANGED <<pair, stored>>
    BY DEF Decrypt
  <1>2. StoredShape' /\ PairUsable' /\ StoredUsable'
    BY <1>1 DEF StoreInv, StoredShape, PairUsable, StoredUsable
  <1>3. CASE UNCHANGED <<keys, opened>>
    BY <1>2, <1>3 DEF StoreInv, KeysKnown, OpenedKeysSign
  <1>4. ASSUME pair.secret # NoSecret, NEW password \in Passwords, NEW key \in PasswordToKey(password, pair.salt),
               keys' = IF Opens(pair, key) THEN PhantasmaKeys(pair.secret.message) ELSE keys,
               opened' = IF Opens(pair, key) /\ BelongsTo(keys', pair)
                         THEN [ok |-> TRUE, pair |-> pair, password |-> password, keys |-> keys']
                         ELSE NotOpened
        PROVE  KeysKnown' /\ OpenedKeysSign'
    <2>1. pair.secret.message \in Keys
      BY <1>4 DEF StoreInv, PairUsable, NoPair, Usable
    <2>2. KeysKnown'
      BY <1>4, <2>1 DEF StoreInv, KeysKnown, PhantasmaKeys
    <2>3. CASE ~ (Opens(pair, key) /\ BelongsTo(keys', pair))
      BY <1>4, <2>2, <2>3 DEF OpenedKeysSign, NotOpened
    <2>4. CASE Opens(pair, key) /\ BelongsTo(keys', pair)
      <3>1. /\ keys' = PhantasmaKeys(pair.secret.message)
            /\ keys'.private = pair.secret.message
            /\ pair.address = PhantasmaKeys(pair.secret.message).address
        BY <1>4, <2>4 DEF PhantasmaKeys, BelongsTo
      <3>2. opened'.pair = pair /\ opened'.password = password /\ opened'.keys = keys'
        BY <1>4, <2>4
      <3>3. pair.secret.key \notin Garbage => pair.secret.key.password = password
        BY <1>4, <2>4 DEF Opens, PasswordToKey, KeyOf
      <3>4. ASSUME NEW message \in Contents
            PROVE  Verify(Signature(opened'.keys.private, message), message, opened'.pair.address)
        BY <2>1, <3>1, <3>2, KeyVerifies
      <3>. QED  BY <2>2, <3>1, <3>2, <3>3, <3>4 DEF OpenedKeysSign
    <2>. QED  BY <2>3, <2>4
  <1>. QED  BY <1>2, <1>3, <1>4 DEF Decrypt, StoreInv

\* What is written, and damaged.
LEMMA StoredInv ==
  ASSUME StoreInv, ToWIF \/ ToText \/ ToBytes \/ Damage
  PROVE  StoreInv'
  <1>1. UNCHANGED <<keys, pair, opened>>
    BY DEF ToWIF, ToText, ToBytes, Damage
  <1>2. KeysKnown' /\ PairUsable' /\ OpenedKeysSign'
    BY <1>1 DEF StoreInv, KeysKnown, PairUsable, OpenedKeysSign
  <1>. SUFFICES StoredShape' /\ StoredUsable'
    BY <1>2 DEF StoreInv
  <1>3. CASE ToWIF
    BY <1>3 DEF ToWIF, WIF, StoreInv, KeysKnown, StoredShape, StoredUsable
  <1>4. CASE ToText \/ ToBytes
    <2>1. CASE pair.secret = NoSecret
      BY <1>4, <2>1 DEF ToText, ToBytes, StoredShape, StoredUsable, Nothing
    <2>2. CASE pair.secret # NoSecret
      <3>1. pair \in Pairs /\ Usable(pair)
        BY <2>2 DEF StoreInv, PairUsable, NoPair
      <3>2. PICK form \in {"text", "bytes"} : stored' = [form |-> form, parts |-> pair, hash |-> Hash(pair)]
        BY <1>4, <2>2 DEF ToText, ToBytes
      <3>. QED  BY <3>1, <3>2 DEF StoredShape, StoredUsable
    <2>. QED  BY <2>1, <2>2
  <1>5. CASE Damage
    <2>1. CASE stored' = [stored EXCEPT !.hash = NoHash]
      BY <1>5, <2>1 DEF Damage, StoreInv, StoredShape, StoredUsable
    <2>2. CASE stored.form = "wif" /\ \E key \in Keys : stored' = [stored EXCEPT !.key = key]
      BY <1>5, <2>2 DEF Damage, StoreInv, StoredShape, StoredUsable
    <2>3. ASSUME stored.form # "wif", NEW part \in {"address", "salt", "nonce", "secret"},
                 stored' = [stored EXCEPT !.parts[part] = Unreadable]
          PROVE  StoredShape' /\ StoredUsable'
      <3>1. /\ stored.form \in {"text", "bytes"}
            /\ stored = [form |-> stored.form, parts |-> stored.parts, hash |-> stored.hash]
        BY <1>5, <2>3 DEF Damage, StoreInv, StoredShape
      <3>2. stored' = [form |-> stored.form, parts |-> [stored.parts EXCEPT ![part] = Unreadable], hash |-> stored.hash]
        BY <2>3, <3>1
      <3>3. stored'.form = stored.form /\ stored'.hash = stored.hash
        BY <3>2
      <3>. QED  BY <3>1, <3>2, <3>3 DEF StoreInv, StoredShape, StoredUsable
    <2>. QED  BY <1>5, <2>1, <2>2, <2>3 DEF Damage
  <1>. QED  BY <1>3, <1>4, <1>5

LEMMA StoreStepInv == StoreInv /\ (StoreNext \/ UNCHANGED storeVars) => StoreInv'
  <1>1. ASSUME StoreInv, UNCHANGED storeVars PROVE StoreInv'
    BY <1>1 DEF storeVars, StoreInv, KeysKnown, StoredShape, PairUsable, StoredUsable, OpenedKeysSign
  <1>2. ASSUME StoreInv, Generate PROVE StoreInv'
    BY <1>2, KeysInv DEF Generate
  <1>. QED  BY <1>1, <1>2, FromWIFInv, ProtectInv, FromPartsInv, LoadInv, DecryptInv, StoredInv DEF StoreNext
-----------------------------------------------------------------------------
LEMMA Invariant == Spec => [](TxInv /\ StoreInv)
  <1>1. Init => TxInv /\ StoreInv
    BY TxInitInv, StoreInitInv DEF Init
  <1>2. TxInv /\ StoreInv /\ [Next]_vars => (TxInv /\ StoreInv)'
    <2>. SUFFICES ASSUME TxInv, StoreInv, [Next]_vars PROVE TxInv' /\ StoreInv'
      OBVIOUS
    <2>1. keys.private \in Keys
      BY DEF StoreInv, KeysKnown
    <2>2. TxStep \/ UNCHANGED txVars
      BY <2>1 DEF Next, SignWithKeys, TxStep, vars
    <2>3. StoreNext \/ UNCHANGED storeVars
      BY DEF Next, SignWithKeys, vars
    <2>. QED  BY <2>2, <2>3, TxStepInv, StoreStepInv
  <1>. QED  BY <1>1, <1>2, PTL DEF Spec

\* What is signed stays as it was signed, between any calls of Sign, Mine and Serialize.
THEOREM SignedTransactionsAreFinal == Spec => []SignedIsFinal
  <1>1. TxInv => SignedIsFinal
    BY DEF TxInv
  <1>. QED  BY <1>1, Invariant, PTL

\* The hash is that of the content, and mining it was not for nothing.
THEOREM HashesAreCurrent == Spec => []HashIsCurrent
  <1>1. TxInv => HashIsCurrent
    BY DEF TxInv
  <1>. QED  BY <1>1, Invariant, PTL

\* IsSignedBy says of the address of a key whether the key signed the transaction.
THEOREM SignersAreFound == Spec => []SignersAreTheKeys
  <1>1. TxInv => SignersAreTheKeys
    <2>. SUFFICES ASSUME TxInv, NEW key \in Keys
                  PROVE  IsSignedBy(tx, {FromKey(PublicKey[key])})
                           <=> \E i \in DOMAIN tx.signatures : tx.signatures[i].key = key
      BY DEF SignersAreTheKeys
    <2>1. IsUser(FromKey(PublicKey[key])) /\ FromKey(PublicKey[key]).name = PublicKey[key]
      BY KeyAddress DEF PhantasmaKeys
    <2>a. tx.signatures \in Seq(Signatures)
      BY DEF TxInv, TxTypeOK
    <2>b. \A i \in DOMAIN tx.signatures : tx.signatures[i] \in Signatures
      BY <2>a
    <2>2. \A i \in DOMAIN tx.signatures :
            tx.signatures[i].key \in Keys /\ tx.signatures[i].message = Content(tx)
      BY <2>b DEF TxInv, SignedIsFinal, Signatures
    <2>3. \A i \in DOMAIN tx.signatures :
            Verify(tx.signatures[i], Content(tx), FromKey(PublicKey[key])) <=> tx.signatures[i].key = key
      BY <2>1, <2>2, KeyAssumption DEF Verify
    <2>. QED  BY <2>3 DEF IsSignedBy
  <1>. QED  BY <1>1, Invariant, PTL

\* No damage to what was stored, and no order of calls, gives a pair that its password does not open.
THEOREM PairsAreUsable == Spec => []PairsStayUsable
  <1>1. StoreInv => PairsStayUsable
    BY DEF StoreInv, PairUsable, Usable, PairsStayUsable, NoPair
  <1>. QED  BY <1>1, Invariant, PTL

\* Keys that were opened are those that were protected, and sign for the pair's address.
THEOREM OpenedKeysAreRight == Spec => []OpenedKeysSign
  <1>1. StoreInv => OpenedKeysSign
    BY DEF StoreInv
  <1>. QED  BY <1>1, Invariant, PTL
-----------------------------------------------------------------------------
(* The types of the keys. *)

\* Keys are always made from a private key, and change in three calls only.
KeysMade == keys \in {PhantasmaKeys(key) : key \in Keys} \cup {NoKeys}

OpenedType ==
  opened \in [ok : {TRUE}, pair : Pairs, password : Passwords, keys : {PhantasmaKeys(key) : key \in Keys}]
               \cup {NotOpened}

LEMMA KeysMadeStep ==
  ASSUME StoreInv, KeysMade, OpenedType, StoreNext \/ UNCHANGED storeVars
  PROVE  KeysMade' /\ OpenedType'
  <1>1. CASE Generate \/ FromWIF
    <2>1. PICK key \in Keys : keys' = PhantasmaKeys(key)
      BY <1>1, StoreAssumption DEF Generate, FromWIF, StoreInv, StoredShape, Nothing
    <2>2. opened' = opened
      BY <1>1 DEF Generate, FromWIF
    <2>. QED  BY <2>1, <2>2 DEF KeysMade, OpenedType
  <1>2. CASE Decrypt
    <2>1. CASE pair.secret = NoSecret
      BY <1>2, <2>1 DEF Decrypt, KeysMade, OpenedType
    <2>2. CASE pair.secret # NoSecret
      <3>0. PICK password \in Passwords : \E key \in PasswordToKey(password, pair.salt) :
              /\ keys' = IF Opens(pair, key) THEN PhantasmaKeys(pair.secret.message) ELSE keys
              /\ opened' = IF Opens(pair, key) /\ BelongsTo(keys', pair)
                           THEN [ok |-> TRUE, pair |-> pair, password |-> password, keys |-> keys']
                           ELSE NotOpened
        BY <1>2, <2>2 DEF Decrypt
      <3>1. PICK key \in PasswordToKey(password, pair.salt) :
              /\ keys' = IF Opens(pair, key) THEN PhantasmaKeys(pair.secret.message) ELSE keys
              /\ opened' = IF Opens(pair, key) /\ BelongsTo(keys', pair)
                           THEN [ok |-> TRUE, pair |-> pair, password |-> password, keys |-> keys']
                           ELSE NotOpened
        BY <3>0
      <3>2. pair \in Pairs /\ pair.secret.message \in Keys
        BY <2>2 DEF StoreInv, PairUsable, NoPair, Usable
      <3>. QED  BY <3>1, <3>2 DEF KeysMade, OpenedType
    <2>. QED  BY <2>1, <2>2
  <1>3. CASE UNCHANGED <<keys, opened>>
    BY <1>3 DEF KeysMade, OpenedType
  <1>. QED
    BY <1>1, <1>2, <1>3 DEF StoreNext, storeVars, ToWIF, Protect, FromParts, ToText, ToBytes, Damage, Load

LEMMA StoreTypes == StoreInv /\ KeysMade /\ OpenedType => StoreTypeOK
  <1>1. StoredShape => stored.form \in {"nothing", "wif", "text", "bytes"}
    BY DEF StoredShape, Nothing
  <1>2. PairUsable => pair \in Pairs \cup {NoPair}
    BY DEF PairUsable
  <1>. QED  BY <1>1, <1>2, Zenon DEF StoreInv, KeysMade, OpenedType, StoreTypeOK

\* Every pair of keys in memory is the one its private key gives, every encrypted pair has all its
\* members, what is stored is one of the four texts, and transactions, their nonces and what was sent
\* are within the bounds Mine keeps, in any order of calls (KeyPair.h, EncryptedKeyPair.h, Transaction.h).
THEOREM TypesHold == Spec => []TypeOK
  <1>1. Init => KeysMade /\ OpenedType
    BY DEF Init, StoreInit, KeysMade, OpenedType
  <1>2. (TxInv /\ StoreInv) /\ (KeysMade /\ OpenedType) /\ [Next]_vars => (KeysMade /\ OpenedType)'
    <2>1. [Next]_vars => StoreNext \/ UNCHANGED storeVars
      BY DEF Next, SignWithKeys, vars
    <2>. QED  BY <2>1, KeysMadeStep
  <1>3. (TxInv /\ StoreInv) /\ (KeysMade /\ OpenedType) => TypeOK
    BY StoreTypes DEF TxInv, TypeOK
  <1>. QED  BY <1>1, <1>2, <1>3, Invariant, PTL DEF Spec
=============================================================================
