SPECIFICATION Spec
CONSTANTS
  key = key
  name0 = name0
  name1 = name1
  zeros = zeros
  terms = terms
  unscripted = unscripted
  payload = payload
  NullKey = NullKey
  Empty = Empty
  NoSecret = NoSecret
  Unreadable = Unreadable
  MaxKind = 4
  MaxPad = 1
  Names <- MCNames
  Nulls = {zeros}
  Zeros = zeros
  Keys <- MCKeys
  PublicKey <- MCPublicKey
  Terms = {terms, unscripted}
  Unscripted = {unscripted}
  Payloads = {payload}
  Difficulty <- MCDifficulty
  MaxDifficulty = 3
  MaxNonce = 3
  MaxSignatures = 2
  KeptAddresses <- MCKeptAddresses
  Passwords = {Empty, secret}
  Salts = {salt}
  Nonces = {nonce}
  Garbage = {garbage}
INVARIANTS TypeOK SignedIsFinal HashIsCurrent SignersAreTheKeys PairsStayUsable OpenedKeysSign
CONSTRAINT NothingStored
CHECK_DEADLOCK FALSE
