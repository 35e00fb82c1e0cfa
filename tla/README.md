# Verification of the GOATi blind bag audit

`blindbag_audit` is a command-line tool: given the hash of a Phantasma transaction that opened a
*blind bag* (an NFT "crate" whose contents are rolled at random when it is opened), it fetches the
transaction, the bag's NFT and the minted NFTs from a node, fetches the published odds from a web
site, checks every commitment the bag made before it was opened, repeats the rolls and compares.
The repository also carries the header-only C++ SDK (`src/phantasma/`) the tool is built on.

This directory holds TLA+ models of that code, the TLC runs that check them and TLAPS proofs.
`PROJECT.json` lists the runs, the lines each definition stands for, the mutants that show that
each property can fail, and the hazards the properties are for.

## 1. The system

### Components

| Component | State | Operations | Interacts with | What makes it correct |
|---|---|---|---|---|
| **Audit** `Audit.h`, `main.cpp` | locals of `AuditBoxTx`: one `PhantasmaError`, the transaction, the bag's ROM and RAM, the odds, the generator, two lists of items | one pass: fetch, scan events, check seeds, roll, compare; `main` prints the verdict | RPC client, web site, decoder, generator | a verdict is true of the ledger; a failure to fetch is never a verdict about the bag; it ends |
| **Game randomness** `random.h`, `hash.h` | one word | next word, bounded index by rejection; FNV-1a | audit | no bias, full period, no endless rejection |
| **GOATi NFT data** `goati_nft.h` | none | encode and decode ROM/RAM, make and check crate secrets, mint | audit, script builder | what is written is read back; malformed data is refused |
| **RPC client and JSON** `PhantasmaAPI.h`, `Adapters/PhantasmaAPI_curl.h` | the HTTP buffer; the caller's error object | 36 calls, each request/response, a scanner that looks fields up in the text | node | output is only used when the error is clear; the scanner finds the same field a JSON parser would |
| **Transaction confirmation** `Utils/RpcUtils.h` | none between calls | send, poll until settled | RPC client, node | a verdict is the node's; it waits as long as needed and no longer |
| **Transaction events** `Utils/RpcUtils.h`, `Domain/Event.h` | none | pair the halves of transfers, describe a transaction | RPC client | what is reported is what the chain did |
| **Secure memory** `Security/*.h` | storages pinned or not; reader and writer counts; page protection | a vector, a byte array with handles, pinned buffers | libsodium; key pairs, Base58, big integers | secrets are erased before memory is given back; pages are open exactly while handles are |
| **Script builder, VM** `VM/*.h` | byte buffer, label tables | emit instructions, patch labels, call contracts | transactions | a jump goes to its label; arguments reach the contract in order |
| **Binary reader and writer** `Utils/Binary*.h`, `Domain/Event.h` | cursor, sticky error | varints, byte arrays, big integers, event data | transactions, scripts, events | round trip; the error sticks; no read past the end |
| **Transactions and signatures** `Blockchain/Transaction.h`, `Cryptography/{Hash,Address,Signature}.h`, `EdDSA/Ed25519Signature.h`, `PoW.h` | fields, cached hash, signature list; the nonce of a `Mine` that runs | construct, serialize, sign, mine, ask who signed; addresses and their texts | key pairs, Ed25519, Base58 | the cached hash is that of the fields; every signature stays one of what is sent; a signer is found whoever else signed |
| **Encrypted key pairs** `Cryptography/KeyPair.h`, `EncryptedKeyPair.h`, `AuthenticatedEncryption.h` | keys and their address; address, salt, nonce and secret of a pair; what was stored | generate, WIF text, protect, decrypt, text and byte forms | libsodium, addresses, transactions | what is loaded, damaged or not, is a pair its password opens, or none; keys `Decrypt` returns true for are the protected ones |
| **Numerics** `Numerics/*.h` | word vector and sign | arithmetic, bits, powers and inverses; bytes, decimals, amounts; bases 16, 58, 64 | Base58 in addresses and keys, amounts in events and scripts | a chain of members computes what the integers do; what is written reads back |
| SHA/Ed25519/entropy, text and time utilities, cpprest and rapidjson adapters, vendored curl and sodium headers | | | | not modelled, see section 7 |

### Which behaviours are hard

The tool is one thread that makes blocking calls, so its difficulties are not races. They are:
*partial failure* (any call may fail in four ways, one error object is shared by all calls and
looked at after some of them only), *numbers at their limits* (rejection sampling, cumulative
weights, an index bound), *sequences* (an empty group consumes one random word instead of two and
shifts every later roll), and *termination* of a loop that rejects random words. In the SDK:
reallocation under erasure and pinning, overlapping handles on one page, lost and late RPC replies, a JSON scanner that never builds a
tree, transfers whose two halves are found by a search, big integers whose words are estimated, borrowed
and trimmed, a transaction that must not change once it is signed, stored keys that come back damaged.
Each is listed in `PROJECT.json` under `hazards` with its line and the properties about it.

`main.cpp:7` maps the SDK's `PHANTASMA_EXCEPTION` to `DebugBreak()`: in this build a reported error
kills the process unless a debugger continues it. The audit model therefore has a constant-in-a-run
variable `debugger` and a verdict `Crash`.

## 2. Modules

| Module | Models | Correspondence |
|---|---|---|
| `BlindBag` | vocabulary: what ledger and web site hold, and when an opening is fair | a `world` is a transaction, the tokens and the odds; `OpenedItems` is the reference semantics of the rolls, `SeedsKept` and `RollsKept` the claims of `ReadMe.md` |
| `AuditContract` | abstract specification: one verdict, and what justifies each | `Justified(v, failed)` |
| `BlindBagAudit` | `AuditBoxTx` and the verdicts of `main` | one action per call, early return, event, weight, random word and minted token, in the code's order; `pc` is the place in the function |
| `GameRandom`, `RandomStream` | `XorShift64M`, `RandomIndex`, `Fnv64a` at a parameter width | one turn of the `do`-`while` per step |
| `SequenceContract` | abstract specification: a vector | |
| `SecureVector` | `Security/SecureVector.h` on its storages | `data.cells` is the whole capacity, live elements first, `locked` the mlock; `freed` records what the last call gave back |
| `SecureByteArray` | arrays, reader and writer handles, page protection | members keep their names; `access[b]` is what `sodium_mprotect_*` last set |
| `TxConfirm` | `SendTransaction` .. `SendTransactionWaitConfirm` with a node and a lossy connection | an RPC is two steps, the node's and the client's, and the node works on in between |
| `JsonScanner` | `namespace json`, `PhantasmaAPI.h:3425-3630` | a text is a sequence of tokens (a character that matters, a number, a run of other text), a view is the position it starts at; the sticky `err` flag is returned with each value |
| `JsonTree` | what the node means: trees, and their text, compact or with spaces | the node's JSON writer; external |
| `RpcSchema` | the 28 structures the calls return and the 36 calls | a table of fields and kinds, of parameters and forms of result; structures that no call returns are left out |
| `RpcCall` | `JSONBuilder`, `CheckResponse`, `Deserialize...`, `Parse...Response` and a caller of `PhantasmaAPI` | `Ask`, `HttpPost`, `Return` are the three parts of each call; `NewError` is a caller that starts over |
| `TxEvents` | the event matchers of `RpcUtils.h` | the log grows by the chain's actions; the matchers are operators on it |
| `BinaryWriter` | `Utils/BinaryWriter.h` | bytes of `Base` values; the last three are the varint headers |
| `VirtualMachine` | opcodes and types of `VM/*.h`; the reader of scripts | a disassembler and a machine for straight scripts; external, see below |
| `ScriptBuilder` | `VM/scriptbuilder.h`, the minting scripts of `goati_nft.h` | an `Emit...` member is a request, a record of what its caller asks for; `EmitPrimitive` is what it does to `writer`, `_jumpLocations`, `_labelLocations`; the members above are sequences of requests |
| `BigInteger` | the members of `Numerics/BigInteger.h` on words | a number is its `_sign` and `_data`, words of `WordBits` bits, the low one first; each member is an operator, the loops of `ModPow` and `ModInverse` are one turn each |
| `NumberText` | byte arrays, decimal and hexadecimal texts and amounts of `BigInteger.h` | a character is a digit's value or one of a few named ones |
| `TextCodes` | `Numerics/Base16.h`, `Base58.h`, `Base64.h` | a character is its place in the alphabet; the radixes fit the byte |
| `Numbers` | what a program does with one number: it receives bytes, types characters, and calls a member per step | `exact` is the integer the number ought to be, `fits` says that no argument so far was one a member mistreats, `job` is a `ModPow` or `ModInverse` that runs |
| `Address` | `Cryptography/Address.h` | an address is the kind, the padding byte and the rest of its 34 bytes; a text is its first character and the address its Base58 stands for |
| `Transaction` | `Blockchain/Transaction.h`, `Ed25519Signature.h`, `Hash::GetDifficulty` | `tx` has the members; a hash is what it was taken of; one turn of the loop of `Mine` per step; `sent` remembers what was serialized with its signatures |
| `KeyStore` | `KeyPair.h`, `EncryptedKeyPair.h`, `AuthenticatedEncryption.h` | `keys` and `pair` are the objects of an application, `stored` the text or the bytes it wrote, which `Damage` changes in one part; `opened` remembers the last successful `Decrypt` |
| `Wallet` | composes the three | `SignWithKeys` signs the transaction of `Transaction` with the keys of `KeyStore`, whatever these are by then |
| `MC...` | values of the constants for TLC | |
| `BlindBagAuditProofs`, `BlindBagMatchProofs`, `TxConfirmProofs`, `TxEventsProofs`, `WalletProofs`, `SecureVectorProofs`, `SecureByteArrayProofs`, `ScriptBuilderProofs` | proofs | section 4 |

`BlindBagAudit` composes `BlindBag` (data) with the RPC client as the audit sees it: `GetTransaction`,
`GetBag`, `GetMinted` include `HttpPost`, `CheckResponse` and the parser's error flag, with the rule
that a call whose error object is already set does not parse its reply (`PhantasmaAPI.h:3163-3172`).
A failed call is one of: transport error (code set, empty result); RPC error or malformed reply
(first an exception, hence a crash without debugger; then code set and the result partly filled); reply
that lacks an array or a boolean, which raises nothing: code set and the rest of the result filled, with
and without debugger (`PhantasmaAPI.h:3548`, `:3577`). `RpcCall` has these outcomes in full detail and justifies the rule:
`ErrorsStick` and `ResultIsTrue` are what the audit and `TxConfirm` take for granted of a call. The web site's page is fetched without an error object; it may
arrive, fail, or be another page.

Abstractions: 64-bit words are `0 .. MaxWord`; SHA-256, FNV and the generator are constant
functions in `BlindBag`, so the proofs hold for any; a ROM is its decoded fields, its type, with
"Undecodable" for what `GoatiNftRom_DecodeItem` refuses, and whether decoding it raises an exception
(no base 16 text, cut short, a wrong sign byte); a RAM its fields, whether it is long enough, and whether
its text raises. The data of an event are whole, raise, or state a length that cannot be allocated; they
are decoded before their symbol is looked at (`Audit.h:30`, `:38`). An exception ends a process
without debugger (`main.cpp:7`); with one the run goes on with what was decoded. Texts and their
formatting are left out.

The virtual machine that runs a script is part of a node and not of the repository. `VirtualMachine`
reads an instruction the way its `Emit...` member writes it, and gives it the effect that the comments
of `goati_nft.h` and the members' names tell: arguments are popped first to last, `CTX` makes a context
of a name, `SWITCH` pops the method and calls it. It is written apart from the builder, as a decoder
from bytes, so that the two agree only if the places and lengths are right. Opcodes are kept apart from
the other bytes, which lets a byte have as few as eight values.

In `TxEvents` each receive carries the position of the send it completes (`of`), which the client
never reads. The chain may interleave transfers and leave them incomplete, but does not start a
transfer while one equal in token, amount and chain is open: the events of two such transfers do not
hold what would tell them apart.

In `Address`, `Transaction` and `KeyStore` a hash is injective: it is the value it was taken of. A
signature is the key and the message it was made with, and verifies for the address that holds the
key's public key, whatever the address's padding byte (`Ed25519Signature.h:50` takes the bytes behind
it). A box of `crypto_secretbox_easy` opens for its nonce and key and no other. An empty password
makes no key, and `EncryptedKeyPair.h:50-51` goes on with what the stack holds: one of `Garbage`, at
any call another.

Members of `BigInteger` are not right for all arguments (section 5). Where a member has arguments it
mistreats, its action in `Numbers` says which, in terms of the integers, and `fits` is false from then
on; for all other arguments the properties claim the result.

## 3. Runs

| Run | What it checks and shows |
|---|---|
| `audit` | `TypeOK`; `MatchRestsOnLedger`; `RollsFollowOdds`; `SomeGroupSelected`; that `BlindBagAudit` implements `AuditContract`; `Termination`. For every world and every pattern of failures the verdict is one the contract allows: a fair opening read without failure is a Match, a deviation is never one, a failed call gives Indeterminate, Error, Unsuitable or a crash, never Mismatch |
| `audit_unsuitable` | finding: "Unsuitable transaction" is printed of a fair opening whose first call failed |
| `audit_group_index` | finding: `info.groups` is read one past its end |
| `secure_vector` | `ImplementsContract` (each call does to the elements what `SequenceContract` says of it), `ErasedUnlessKnown`, `PinnedUnlessKnown` |
| `secure_erase` | finding: a storage is given back with data in it |
| `secure_bytes` | `AccessMatchesHandles`, `HandlesUsable`, `OneOwner` |
| `tx_confirm` | `AnswerIsTrue`, and `WaitEnds`: the wait ends once the node has settled the transaction |
| `rpc` | `RequestIsReadable`: the posted request is the JSON of the call. `ResultIsTrue`: a result returned without an error holds what the node meant, member by member. `CompleteResultsAreRead`: a compact response without empty objects in which nothing is missing is read without an error. `NodeErrorsAreReported`: an error of the node ends as its message. `ErrorsStick`: a call that finds the error set leaves it |
| `tx_events` | `ReceivedIsTransferred`, `SentIsTransferred`: the pairs reported are the transfers made, for interleaved, repeated and incomplete ones. `DescriptionNamesATransfer`: the parties named are those of one transfer, if transfers of one token do not overlap and all are complete |
| `numerics` | `ArithmeticIsExact`: after any chain of members the words and the sign are those of the integer, and so are comparisons and bits. `WritingsReadBack`: bytes with and without a sign, decimals, hexadecimals and amounts read back. `CodesReadBack`, `TextsAreWhatTheySay`: Base16, Base58, Base58 with checksum and Base64, from bytes and back, and from any text and back; amounts with fewer and with more decimals than the token. `ModularResults`: what `ModPow` has in hand at each turn is the power asked for, and `ModInverse` returns an inverse or 0. `NoBias`: over a period of the generator every index is returned equally often, for every count and seed |
| `wallet` | `SignedIsFinal`: what was signed, and what was sent signed, is the transaction as it is. `HashIsCurrent`: the hash is that of the content, between two turns of `Mine` too, and a difficulty mined is kept. `SignersAreTheKeys`: `IsSignedBy` says who signed. `PairsStayUsable`: whatever was damaged, a pair in memory is one that its password opens, and its text can be loaded. `OpenedKeysSign`: keys for which `Decrypt` returned true are those protected, under that password, and sign for the pair's address |
| `script` | `ScriptReadsBack`: the script, disassembled, is the list of instructions asked for, and each jump leads behind its label, forward and backward. `CallsAreWanted`: run, it makes the calls asked for, in order, with every argument in its place, and leaves the stack empty; a counted mint reads, increments, writes and appends the counter. `CallsKeepRegisters`: a call overwrites no register but those it may, if the script can be read |

### Bounds, and why they are enough

* `audit`: words of 5 bits, so that rejection, wrap-around and reduction all happen and each weight
  sum leaves another remainder; secret seeds of two bytes and hashes of three; four descriptions of
  odds with empty groups, zero weights, one to three rolls, weights at the boundaries of the sum,
  and four bad ones (an item 0, more weights than groups in two ways, weights that add up to zero);
  48 honest openings made by the reference semantics, and for each the openings that differ in one
  respect (two bags, missing bag, one token more or less, each seed, unparsable or null payload,
  short RAM, RAM that is no base 16 text, wrong type, cut ROM, a wrong sign byte in a ROM, malformed
  and oversized event data, another item, bad odds): 1440 worlds, with and without debugger.
  Each check of the audit is the one that decides in some world. At most four tokens are minted, so
  that failures fall before, between and after good replies.
* `numerics`: words of 8 bits made of two 4-bit bytes; numbers of up to four words arise. Thirteen
  operands and their negations: 0, 1, 2, 10, the limits of half a word, of a word and of two, and
  what is next to them. `CornerWords` and `Limit` bound what is computed with further: numbers whose words are
  0, 1 or the limits, and results of up to 10^6, in chains of any length; a carry or borrow goes through
  every word there is, and a quotient has words of every estimate. Byte arrays and texts of up to four. Base58
  has radix 6 and a checksum of one byte, which is to a 4-bit byte what 58 and four are to 8 bits. The
  generator has words of 5 bits with shifts that give the full period of 31; every seed and count.
* `wallet`: a key and the null key; addresses that differ from the key's by the padding or the kind, and
  the null address; one password besides the empty one, one salt and one nonce, as no code
  compares two of them; difficulties 0 to 2 and targets up to 3, so that mining ends at once, at
  the first or third nonce, or fails after `MaxNonce`; two signatures (`MaxSignatures`).
  `NothingStored` bounds the product of the two halves: a transaction is worked on while nothing is
  stored, with every keys and pair reached before.
* `secure_vector`: capacity at most 4, element values 0 and 1 (no call looks at them). Every branch depends on `size = 0`,
  `size = capacity` or a comparison of two sizes; 1, 2, 4 are three doublings.
* `secure_bytes`: two arrays, two blocks, four handles: two readers and two writers of one array is
  the smallest case in which the first close of each kind is not the last.
* `tx_confirm`: one transaction; no bound is needed, the loop has no counter.
* `rpc`: every call with one set of arguments; for each, responses that are complete, that lack a
  member, hold a member of another kind, an unknown member before or after, an element that does not
  parse, an error with and without its members, a text that is not JSON, an empty body; numbers at
  the limits of 8-bit integers. The scanner does not look at what a run of text says, so one of each
  kind of token is enough; nesting reaches three structures in each other, the deepest in the schema.
* `tx_events`: logs of five events, two addresses, three amounts: two open transfers and an event
  between or after their halves. The theorems of section 4 hold for every length.

* `script`: bytes of eight values, so that lengths from 5 on take a header, places have two digits and
  64 bytes are too long for `EmitLoad`. Up to three `Emit...` members or two calls (`MaxWeight` 6):
  a label, the jump to it and an instruction between or before them, with data on both sides of each
  limit; two calls suffice for one to disturb what another left. Each kind of request, refused ones
  included; every contract and runtime call; arguments that are arrays, empty, flat and nested.

### Fairness

`audit` assumes weak fairness of the process's own steps: it is a single thread and curl returns from
each call. `tx_confirm` assumes that the client runs, that the node handles what reaches it, and, for
`WaitEnds`, strong fairness of a poll being answered: a client that polls for ever is answered again
and again. Nothing is assumed about when, or whether, the node settles the transaction.

`CHECK_DEADLOCK FALSE` is set for `numerics` (a stream ends with the period, a computation at its
bound), `wallet` (nothing is done beyond its bound), `tx_confirm` (the client has returned),
`tx_events` (the log is full) and `script` (the caller has ended the script).

## 4. Proofs

Checked by tlapm from the named assumptions of the modules: the ranges of the constant functions of
`BlindBag`, items that are not 0, a null hash that is a hash and an unparsable text that is not; sets of
keys, handles and amounts of the right kind; for scripts `RequestsAssumption`, which says what a caller
can hand to an `Emit...` member (an operation of the form, its number of operands, bytes, a length that
is an `int`, arrays nested at most twice), and `CallersAssumption`, which says of whom a script of calls is:
methods have different bytes and get the number of arguments they take, nothing that a call loads is too
long, registers 0 to 3 exist, and a caller who adds instructions of his own loads and copies registers, marks places,
and leaves the stack and the calls to the members that make calls (`Beside`). TLC evaluates it for the callers of the run.

The provers have no induction over data. Where a proof needs it, it is done by hand: a set of numbers
with 0 and the successor of each member has them all, because otherwise there were a least one outside
(`WFMin` and `NatLessThanWellFounded` of the library). A recursive function, of which nothing can be
said before it is known to exist, is shown to exist the same way, by extending the function on `0 .. n`
to `n + 1`; then its equations may be used.

* `TypeCorrect`: `Spec => []TypeOK` for every word size, ledger, web page, hash function and
  generator. `TypeOK` alone is not inductive: in the middle of a roll it does not say that `roll` is
  in range, that the sum used as divisor is not zero, or that a list is still empty before its
  phase. `TypeInv` adds these facts, by phases of `pc`. The proof is one lemma per action.
* `GroupAlwaysFound`: `Spec => []SomeGroupSelected`, the assertion of `Audit.h:199`. The two loops
  add the same weights, in two variables. `RollInv` says that `sum` and `cumulative` are the values
  of one function of partial sums at the index reached, and that the number drawn is below the
  total; so the second loop passes it at the latest at the last weight.
* `ItemsFollowOdds`: `Spec => []RollsFollowOdds`. The reference semantics is recursive: sums of
  weights, words that are rejected, the generator and the items after each roll. `OddsInv` says that the
  items produced and the generator are the reference's before the roll in progress; while
  a word is drawn, the first word to be kept is the one the reference keeps, which a rejected word does
  not change; and after it that group, index and generator are the reference's. An empty
  group takes one word, not two.
* `AuditImplementsContract` (`BlindBagMatchProofs`): `Spec => ImplementsContract`, the refinement of
  `AuditContract`, step by step. An action that gives no verdict is a stutter or `Fail`; one that does
  must be justified. Match rests on `LedgerInv` and `OddsInv`; for a Mismatch the item that differs
  is the reference's, so the rolls were not kept; the other verdicts have one lemma for each group of
  early returns. A crash is allowed when a reply failed, when the odds have no meaning, or when something
  read about the opening does not decode (`Unreadable`). `ReadInv` says that an error in the error object counts as a failure, that the events
  scanned were the transaction's, one bag was burnt and something minted, and that the odds in use are
  the site's: that is what lets a verdict about the replies be one about the ledger.
* `MatchIsJustified`: `Spec => []MatchRestsOnLedger`, the statement users rely on. `LedgerInv` is the
  conjunction of what each phase establishes and no later one disturbs: the events scanned so far
  give `numBurnt`, `nftId` and the list of minted ids (`ScanInv`); the bag held is the ledger's, and
  each seed that has been passed was checked against it (`CheckInv`); every item compared is the
  ledger's (`MintInv`), which needs that a failed or skipped call leaves a token that does not
  decode.
* `AnswersAreTrue`: `Spec => []AnswerIsTrue` for `TxConfirm`, by the invariant that a reply in flight
  with a final answer is still true when it is handled; `TypesHold` beside it.
* `ReceivedAreTransfers`, `SentAreTransfers`: `TxEvents` for every set of addresses and amounts and logs
  of every length. The search looks at one event and those on one side of it; that it ends at the
  right one rests on three facts of the whole log: a receive completes an earlier equal send, no two
  complete the same, and between two equal sends the first is completed.
* `DescriptionsNameTransfers`: `DescriptionNamesATransfer` for logs of every length. When the transfers of
  a token do not overlap and none is open, the last send and the last receive belong together if they are of one
  token: a receive of another transfer would have that send between its halves.
* `WalletProofs`: the type invariant and the five properties of `Wallet`, for any keys, addresses, passwords, salts and nonces, any
  difficulty of hashes and any number of signatures, nonces and turns; the bound of the run is not one of
  the proofs. `TxInv` strengthens the properties of the transaction by `MinedUnsigned` (a transaction is
  being mined only while it has no signature and none was sent with one): that is why a turn of `Mine`
  may replace the payload. `StoreInv` says that what carries its hash was written by the program:
  salt, nonce and secret of one `Protect`, though perhaps with another address; damage to a part or
  to the hash makes them differ, so that nothing else is ever loaded.
* `NothingIsLost`, `PinsAreKept` (`SecureVectorProofs`): `ErasedUnlessKnown` and `PinnedUnlessKnown` for storages
  of any capacity and any elements, from the type invariant that a vector is never longer than its storage.
* `CallsKeepContract` (`SecureVectorProofs`): `Spec => ImplementsContract`, the refinement of `SequenceContract`.
  `LiveIs` says when the live cells of a storage are a given sequence; each call is then an
  equation between its cells, whether it reallocates, moves them up or down, or stays in place.
* `PagesMatchHandles`, `HandlesAreUsable`, `BlocksHaveOneOwner` (`SecureByteArrayProofs`): `AccessMatchesHandles`,
  `HandlesUsable` and `OneOwner` for any number of arrays, any finite number of handles and any blocks.
  The counts of an array are the cardinalities of the sets of its handles, a block has one array, and its
  pages are as open as those sets ask for, unless it was never to be protected.

* `ScriptIsReadBack` (`ScriptBuilderProofs`): `Spec => []ScriptReadsBack`, for bytes of any number of
  values above 3, requests of every form with data of any length, arrays of any length, any number of calls and
  scripts up to the limit of a 16-bit place. `Inv` says that the script is laid out in the requests
  made: there are places `at` such that the k-th request has written the cells from `at[k - 1]` to
  `at[k]`, `_jumpLocations` has exactly the places `at[k] - 2` of the requests that jump, and
  `_labelLocations` the end of the last NOP of each label. The rest is about the final script. Numbers:
  digits of a number sum up to it, so that a length or a place is read as it was written; a
  reader tells the widths of a count apart by its header. Instructions: no two operations have the same code,
  and the bytes of a request decode to what it asked for, the bytes of its place patched or not. `ToScript`:
  what it patches are the last two cells of a jump, and no cell belongs to two requests. Last the
  listing, from the last instruction to the first.
* `CallsKeepTheRegisters`: `Spec => []CallsKeepRegisters`, the registers a caller may rely on over a call, for
  arguments of any number and arrays of any length. The machine that runs the listing obeys the requests one
  by one (`RunIs`, from the layout above), and a run over two lists of requests has a machine between
  them (`RunsParted`). `Confined(T)` are the requests that write to registers of T only; that the requests of
  an argument are confined to as many registers as its arrays are deep is proved from the inside out
  (`ConfinedFlat`, `ConfinedInto`, `ConfinedCall`).
  The first attempt failed for a good reason: the property did not say that the script can be read. After `LEFT` with
  a negative length, which `EmitLeft` reports and then leaves out, a call is garbage; it takes
  a load, the `LEFT` and a call, one more than the bound of the run allows, for TLC to show it. The property now says `Readable`.
* `ScriptMakesTheCalls`: `Spec => []CallsAreWanted`. `Wanting` strengthens it: while every instruction is
  one of those performed, the machine after the script is idle (its stack empty), has not
  faulted, and has made the calls wanted. A step adds requests and is run from there (`RestRuns`); what they do is
  proved member by member. `LoadsInto`: the requests of an argument leave its value in their register and change
  nothing but registers, for arrays by adding one element after another (`LoadsArray`). `PushesArgs`:
  the arguments are on the stack, the first one on top, since they are pushed from the last to the first.
  `InteropCalls`, `ContractCalls`: a method or a contract takes as many as it has parameters and makes the call. `ReadMakes`,
  `WriteMakes`, `MintMakes`: what is popped to and pushed from registers. `CountedMintMakes`: in
  `MintTokenIncrementingId` the counter is read to register 1, incremented there, written back, which does not disturb it, and
  appended to the ROM in register 2; the token minted has that ROM. Nothing here needs the script to be short.

### Only model-checked

* Liveness, which is out of the provers' reach: `Termination` of the audit, `WaitEnds`.
* `RpcCall`, for its scanner and its tree are recursive operators, with which tlapm has no SMT
  backend; `Numbers`, whose members of `BigInteger` and codes of texts are such operators too.
* `NoBias`, which depends on the bits of the generator (`Bitwise`).

Every other property of a passing run is a theorem.

## 5. Findings

1. *Failed fetch reported as unsuitable* (`Audit.h:21-45`). The error is not looked at after
   `GetTransaction`; the empty transaction has no events, and the tool says "Unsuitable transaction".
   `main` has another message for failed calls.
2. *Group index bound* (`Audit.h:200`). `groupIndex > size` lets `groupIndex == size` through. It takes
   odds with more weights than groups.
3. *Unerased deallocation* (`SecureVector.h:57`, `:122`). `reserve` on a non-empty vector, and any
   call after `resize(0)`, free data unerased, against the comment at `SecureVector.h:14`. In the SDK
   `reserve` is only used on empty vectors; `resize(0)` occurs in `BigInteger::ShiftRight`.

Observed, without a claim in the repository to hold against it: `RpcUtils.h:28-34` loses the server's
message in a build that throws without `PHANTASMA_EXCEPTION_ENABLE`, after which a rejected
transaction is waited for without end; with that macro alone the handler of line 28 does not compile,
because `PHANTASMA_TRY` is chosen before `PHANTASMA_EXCEPTION` is defined (`PhantasmaAPI.h:427-440`). `push_back`
of an element of the vector itself appends a zero when the storage is full, and assigning a
`SecureVector` to itself zeroes it (`SequenceContract` names both). `ReadMe.md:128-139` speaks of a
public seed and a salt where the code uses one ROM seed for both (`Audit.h:91`, `:102`).

Limits of the JSON scanner, of the calls and of the script builder, which the models have and the properties allow for:

* `SkipObject` leaves its loop just after the last value and steps over one character, whatever it is
  (`PhantasmaAPI.h:3507`): after a nested empty object, or with a space before a closing brace, the
  members that follow in the outer object are not found. This ends as an error and never as a wrong
  result, which `ResultIsTrue` checks; `CompleteResultsAreRead` excludes such texts.
* `AsString` ends a string at an escaped quote (`:3570`), without an error; the text before it is
  taken for what the node meant.
* `IndexArray` with an index equal to the size gives a view of the bracket, without an error, and
  booleans and nulls are not counted (`:3592-3625`); no call asks for either.
* A member that should hold an array and holds something else is read as an empty array.
* A label that is never emitted is at 0, its jumps start the script again; the place of a label is cut
  to 16 bits (`scriptbuilder.h:409`). `EmitLeft` and `EmitRight` report a negative length and then
  leave it out (`:67`), so that the next bytes are taken for it. An array without elements
  arrives as nothing, not as an empty Struct (`:579`).
* Scalar results are uninitialised after an error (`:3047`), and a caller that passes no error object
  is not told of it.
* `StringToEventKind` never returns `Custom` for the name "Custom": value 49 also has that name
  (`Event.h:117`, `:123-131`), and the kinds are compared by name everywhere else.

Limits of numbers and keys, which the models have and the properties name or allow for:

* A sum of two negative numbers takes its sign from the `int` its words make (`BigInteger.h:531`), which
  is 0 for sums that are multiples of 2^31; a divisor of this kind counts as 0 (`:640-694`). A quotient
  of 0 loses its only word, and so does a number shifted right to 0 (`:865-911`): such a 0 is not
  equal to `Zero()`, and the loop of `ModPow` (`:1214`), which waits for that, does not end for an exponent
  of 2 or more. `ModInverse` finds no inverse of 1.
* `%` of a negative number is brought up by the divisor, and may equal it (`:688`); `<` compares two
  negative numbers by magnitude and `==` does not look at the sign (`:1011-1062`, `:1145`).
* A negative number whose last word ends with a byte of ones loses its sign byte (`:1471-1510`). `ToHex` writes
  the low word first. `TryParse` returns the error flag. Amounts that are negative are written with
  a wrong fraction; a line break at the end of an amount with too many decimals keeps the wrong digits (`:1650-1654`).
* Base58 of zeros only is read back one byte too long. `Base64::Decode` with an array does not look at the error.
* Texts of addresses of kind 0 are too short for a pair's text, the text of the null address does not read
  back, and kinds above 3 are written as system addresses and refused.
* `Decrypt` assigns its output before it compares addresses (`EncryptedKeyPair.h:98`), so that keys of another
  address are in the caller's hands with `false`. A wrong WIF text gives the null key with its
  address (`KeyPair.h:105-119`). A pair protected with an empty password may not open with it.
  `FromBytes` reads one byte of the four of a size (`:232`).
* A `Mine` that follows one with a lower target replaces the nonce found. The null hash, of a transaction
  without a script, has the highest difficulty.

## 6. Status

Modelled and checked: the audit and its contract, the generator, secure memory, confirmation of
transactions, the RPC client with its JSON scanner, the events of transactions, the script builder,
numbers and their texts, addresses, transactions and key pairs.

What would come next, by weight for the system:

1. `Codec`: `BinaryReader` (varints, arrays, sticky error) against `BinaryWriter`; the ROM and RAM of
   `goati_nft.h` on top. Contract: what is written is read back, and nothing else is accepted.
2. `RpcUtils.h` and `Wallet` together: a signed transaction sent, confirmed and read back.

## 7. Not modelled, and why

* SHA-256, RIPEMD, Ed25519, entropy, authenticated encryption: bit-level, with no state machine;
  uninterpreted functions where they are used.
* `textutils.h`, `Timestamp.h`, printing in `main`: formatting.
* `PhantasmaAPI_cpprest.h`, `PhantasmaAPI_rapidjson.h`: adapters the tool is not built with.
* curl and libsodium: only headers are in the repository; curl is a call that returns or fails,
  libsodium what its calls are documented to do.
* `Transaction::UnserializeData` calls members of the reader that `BinaryReader` does not have, and so does not compile
  with it; ring signatures verify nothing (`Signature.h`). Secure variants of numbers and texts are
  the same templates over `SecureVector`. `GetHashCode`, which nothing calls.
* `SecureByteArray`'s move assignment lacks its `return` and is never called; assigning an array to
  itself reads a block just freed and is not done anywhere; asking an array without a block for a reader
  or a writer (copying one is modelled) is left out for the same reason. munlock works on pages, so that unpinning one vector may unpin a
  neighbour on the same page; `SecureVector` is modelled as if each storage had pages of its own.
* Responses cut off in transit: a failed transfer leaves an empty body in `RpcCall`. Results of calls
  through the rapidjson adapter.
* `EmitVarBytes` and `EmitRaw`, whose caller writes the bytes of instructions himself; scripts of 64 KiB
  and more; arrays nested deeper than twice; a script ended more than once.
* `GetTxTokensMinted`, a filter without a search; the bytes of event data (planned with `Codec`; that decoding
  them fails is in the audit).
* Two open transfers equal in token, amount and chain (`RpcUtils.h:139`): the search cannot tell them apart.
* That the payload of the opening is the hash of the transaction that sent the bag
  (`ReadMe.md:139`, todo at `Audit.h:97`): the tool never fetches that transaction.
