------------------------------ MODULE KeyStore ------------------------------
(***************************************************************************)
(* phantasma/Cryptography/KeyPair.h and EncryptedKeyPair.h, with the       *)
(* encryption of AuthenticatedEncryption.h and PhantasmaAPI_sodium.h: the  *)
(* keys an application holds, the pair it protects them with, and the text *)
(* or the bytes it stored of either.                                       *)
(*                                                                         *)
(* A hash is what it was taken of.  A box is the message in it, its nonce  *)
(* and its key; the key made of a password and a salt is the two of them.  *)
(* No key is made of an empty password: then the bytes of the stack are    *)
(* taken that PinnedBytes finds there.                                     *)
(***************************************************************************)
EXTENDS Transaction

CONSTANTS
  NullKey,            \* 32 bytes of 0
  KeptAddresses,      \* addresses an application may have kept apart from the rest of a pair
  Passwords, Empty,   \* Empty is the empty one
  Salts, Nonces,      \* what random salts and nonces may be
  Garbage,            \* what uninitialized bytes may be, no key of a password
  NoSecret,           \* no bytes
  Unreadable          \* a part of what was stored that was damaged

\* The key of a password and a salt.
KeyOf(password, salt) == [password |-> password, salt |-> salt]

\* The keys that may come out of PasswordToKey.
PasswordToKey(password, salt) == IF password = Empty THEN Garbage ELSE {KeyOf(password, salt)}

\* The hash of what is stored, and a damaged one, which is that of nothing the program stores.
Hash(x) == <<x>>
NoHash  == <<>>

\* What Encrypt makes.
Boxes == [message : Keys, nonce : Nonces,
          key : Garbage \cup {KeyOf(p, s) : p \in Passwords \ {Empty}, s \in Salts}]
Box(message, nonce, key) == [message |-> message, nonce |-> nonce, key |-> key]

ASSUME StoreAssumption ==
  /\ NullKey \in Keys /\ Empty \in Passwords /\ KeptAddresses \subseteq Addresses
  /\ \A password \in Passwords, salt \in Salts : KeyOf(password, salt) \notin Garbage
  /\ NoSecret \notin Boxes
  /\ Unreadable \notin Addresses \cup Salts \cup Nonces \cup Boxes

VARIABLES
  keys,     \* a PhantasmaKeys
  pair,     \* an EncryptedKeyPair
  stored,   \* what was written, and perhaps damaged since
  opened    \* history: the pair and the password of the last Decrypt that returned true, and its keys

storeVars == <<keys, pair, stored, opened>>

PhantasmaKeys(key) == [private |-> key, address |-> FromKey(PublicKey[key])]

\* What the default constructors make.
NoKeys == [private |-> NullKey, address |-> NullAddress]
NoPair == [address |-> NullAddress, salt |-> "zeros", nonce |-> "zeros", secret |-> NoSecret]

Nothing == [form |-> "nothing"]

NotOpened == [ok |-> FALSE, pair |-> NoPair, password |-> Empty, keys |-> NoKeys]

StoreInit ==
  /\ keys = NoKeys /\ pair = NoPair /\ stored = Nothing
  /\ opened = NotOpened
-----------------------------------------------------------------------------
(* Keys and their WIF text. *)

Generate ==
  /\ \E key \in Keys : keys' = PhantasmaKeys(key)
  /\ UNCHANGED <<pair, stored, opened>>

\* The key between 0x80 and 0x01, with a checksum of all of it.
WIF(key) == [form |-> "wif", key |-> key, hash |-> Hash(key)]

ToWIF ==
  /\ stored' = WIF(keys.private)
  /\ UNCHANGED <<keys, pair, opened>>

\* A text that is not right gives the null key, which has a public key and an address too.
FromWIF ==
  /\ stored.form = "wif"
  /\ keys' = PhantasmaKeys(IF stored.hash = Hash(stored.key) THEN stored.key ELSE NullKey)
  /\ UNCHANGED <<pair, stored, opened>>
-----------------------------------------------------------------------------
(* The encrypted pair. *)

\* The constructor from a password and a private key.
Protect ==
  /\ \E password \in Passwords, salt \in Salts, nonce \in Nonces :
       \E key \in PasswordToKey(password, salt) :
         pair' = [address |-> FromKey(PublicKey[keys.private]), salt |-> salt, nonce |-> nonce,
                  secret |-> Box(keys.private, nonce, key)]
  /\ UNCHANGED <<keys, stored, opened>>

\* The constructor from the members, with an address that was kept apart.
FromParts ==
  /\ pair.secret # NoSecret
  /\ \E address \in KeptAddresses : pair' = [pair EXCEPT !.address = address]
  /\ UNCHANGED <<keys, stored, opened>>

\* The message comes out for the nonce and the key it went in with.
Opens(p, key) == p.secret.nonce = p.nonce /\ p.secret.key = key

\* Mutant: the address is not compared.
BelongsAlways(k, p) == TRUE

BelongsTo(k, p) == k.address = p.address

\* output is assigned before its address is compared with the one of the pair: with true returned, or
\* with false and the warning of tampering.
Decrypt ==
  /\ \E password \in Passwords :
       \/ /\ pair.secret = NoSecret
          /\ UNCHANGED <<keys, opened>>
       \/ /\ pair.secret # NoSecret
          /\ \E key \in PasswordToKey(password, pair.salt) :
               /\ keys' = IF Opens(pair, key) THEN PhantasmaKeys(pair.secret.message) ELSE keys
               /\ opened' = IF Opens(pair, key) /\ BelongsTo(keys', pair)
                            THEN [ok |-> TRUE, pair |-> pair, password |-> password, keys |-> keys']
                            ELSE NotOpened
  /\ UNCHANGED <<pair, stored>>

\* The text has the address as a text; nothing is made of an empty pair.
ToText ==
  /\ stored' = IF pair.secret = NoSecret THEN Nothing ELSE [form |-> "text", parts |-> pair, hash |-> Hash(pair)]
  /\ UNCHANGED <<keys, pair, opened>>

ToBytes ==
  /\ stored' = IF pair.secret = NoSecret THEN Nothing ELSE [form |-> "bytes", parts |-> pair, hash |-> Hash(pair)]
  /\ UNCHANGED <<keys, pair, opened>>

\* One part of what was stored, or of its hash, is not what it was.
Damage ==
  /\ stored # Nothing
  /\ \/ stored' = [stored EXCEPT !.hash = NoHash]
     \/ stored.form = "wif" /\ \E key \in Keys : stored' = [stored EXCEPT !.key = key]
     \/ /\ stored.form # "wif"
        /\ \E part \in {"address", "salt", "nonce", "secret"} :
             stored' = [stored EXCEPT !.parts[part] = Unreadable]
  /\ UNCHANGED <<keys, pair, opened>>

\* The 47 characters of an address: those of kinds 4 to 44 too, but not the fewer ones of kind 0.
TextFits(address) == address.kind # Invalid /\ Readable(Text(address))

\* Mutant: only the hash of a text is compared.
AcceptedUnhashed ==
  stored.form = "text" => stored.hash = Hash(stored.parts) /\ TextFits(stored.parts.address)

\* FromText and FromBytes make a pair only of what carries the hash of its parts.
Accepted == stored.hash = Hash(stored.parts) /\ (stored.form = "text" => TextFits(stored.parts.address))

Load ==
  /\ stored.form \in {"text", "bytes"}
  /\ pair' = IF Accepted THEN stored.parts ELSE NoPair
  /\ UNCHANGED <<keys, stored, opened>>

StoreNext == Generate \/ ToWIF \/ FromWIF \/ Protect \/ FromParts \/ Decrypt \/ ToText \/ ToBytes \/ Damage \/ Load
-----------------------------------------------------------------------------
Pairs == [address : Addresses, salt : Salts, nonce : Nonces, secret : Boxes]

StoreTypeOK ==
  /\ keys \in {PhantasmaKeys(key) : key \in Keys} \cup {NoKeys}
  /\ pair \in Pairs \cup {NoPair}
  /\ stored.form \in {"nothing", "wif", "text", "bytes"}
  /\ opened \in [ok : {TRUE}, pair : Pairs, password : Passwords, keys : {PhantasmaKeys(key) : key \in Keys}]
               \cup {NotOpened}

\* A pair in memory is never one that its password does not open: whatever was damaged in between, what
\* FromText and FromBytes accept has the salt and the nonce its secret was made with.  And as long as
\* its address is that of its key, its text can be loaded again.
PairsStayUsable ==
  pair.secret # NoSecret =>
    /\ \E password \in Passwords : \E key \in PasswordToKey(password, pair.salt) : Opens(pair, key)
    /\ pair.address = PhantasmaKeys(pair.secret.message).address => TextFits(pair.address)

\* Keys that Decrypt returned true for are the ones that were protected, under the password they were
\* protected with, and what is signed with them verifies for the address of the pair.
OpenedKeysSign ==
  opened.ok =>
    /\ opened.pair.secret.message = opened.keys.private
    /\ opened.pair.secret.key \notin Garbage => opened.pair.secret.key.password = opened.password
    /\ \A message \in Contents : Verify(Signature(opened.keys.private, message), message, opened.pair.address)
=============================================================================
