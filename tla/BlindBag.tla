------------------------------ MODULE BlindBag ------------------------------
(***************************************************************************)
(* The vocabulary of a blind-bag opening: what the ledger and the web site *)
(* hold about it, the random numbers drawn from the final seed, and what   *)
(* it means for an opening to be fair.  Audit.h reads exactly these data.  *)
(*                                                                         *)
(* Numbers are Words, 0 .. MaxWord, for the 64-bit words of the code.      *)
(* Hash functions and the generator are constants, so that nothing below   *)
(* depends on their bits; module GameRandom defines them for the runs.     *)
(***************************************************************************)
EXTENDS Integers, Sequences

CONSTANTS
  MaxWord,      \* largest machine word (2^64 - 1 in the code)
  Ids,          \* NFT ids; 0 is the BigInteger of no token
  Items,        \* item ids of the game, nonzero
  Seeds,        \* secret seeds of bags (192 bits)
  Digests,      \* SHA-256 digests
  Hashes,       \* 256-bit transaction hashes
  NullHash,     \* the all-zero Hash
  Unparsable,   \* a payload text that is no hash
  Sha256,       \* [Seeds \X Words -> Digests]
  Fnv64a,       \* [(Seeds \cup Hashes) \X Words -> Words]: data, offset basis
  RngNext,      \* the generator's next state
  RngOutput     \* the number it returns in a state

Words == 0 .. MaxWord

ASSUME WordAssumption == MaxWord \in Nat \ {0}
ASSUME ItemAssumption == Items \subseteq Words \ {0}
ASSUME IdAssumption   == Ids \subseteq Nat /\ 0 \in Ids
ASSUME HashAssumption == NullHash \in Hashes /\ Unparsable \notin Hashes
ASSUME RngAssumption  == RngNext \in [Words -> Words] /\ RngOutput \in [Words -> Words]
ASSUME DigestAssumption ==
  /\ Sha256 \in [Seeds \X Words -> Digests]
  /\ Fnv64a \in [(Seeds \cup Hashes) \X Words -> Words]
-----------------------------------------------------------------------------
(***************************************************************************)
(* What the ledger holds: the texts the tool decodes, each by what it      *)
(* decodes to and by whether decoding it raises PHANTASMA_EXCEPTION.  The  *)
(* fields of a text that raises are what a run goes on with when the       *)
(* exception is continued.                                                 *)
(*                                                                         *)
(* A ROM whose type is "Undecodable" has another version, a type           *)
(* GoatiNftRom_DecodeItem refuses (a Badge, a Bundle, a System token), or  *)
(* is no base 16 text or cut short, which raises; a ROM of an item raises  *)
(* if the sign byte of its counter is neither of the two there are.  A RAM *)
(* raises if it is no base 16 text, and is then short.                     *)
(***************************************************************************)
ItemTypes == {"Item", "Vehicle", "Crate", "License"}
RomTypes  == ItemTypes \cup {"Undecodable"}

Roms == [type : RomTypes, raises : BOOLEAN, itemId : Words, randomSeed : Words,
         secretHash : Digests]
Rams == {ram \in [long : BOOLEAN,  \* 72 bytes or more
                  raises : BOOLEAN,
                  crateSeed : Seeds, randomSeed : Words, finalSeed : Words, txSeed : Hashes] :
           ram.raises => ~ram.long}
Tokens == [rom : Roms, ram : Rams]

\* The data of an event: "Malformed" raises (no base 16 text, cut short, or a wrong sign byte);
\* the string length in "Oversized" data is more than can be allocated.
Events == [kind : {"TokenBurn", "TokenMint", "TokenSend"}, symbol : {"TTRS", "KCAL", ""},
           id : Ids, data : {"Whole", "Malformed", "Oversized"}]
Transactions == [events : Seq(Events), payload : Hashes \cup {Unparsable}]

\* The web site's description of a kind of bag; an item id may be 0 in bad data.
PartInfos == [groups : Seq(Seq(Items \cup {0})), rolls : Seq(Seq(Nat))]

Worlds == [tx : Transactions, tokens : [Ids -> Tokens], info : PartInfos]
-----------------------------------------------------------------------------
\* The events whose data the tool decodes, and those it looks at: it skips the tokens of
\* other symbols.
HoldsToken(e) == e.kind \in {"TokenBurn", "TokenMint"}
IsBurn(e) == e.kind = "TokenBurn" /\ e.symbol = "TTRS"
IsMint(e) == e.kind = "TokenMint" /\ e.symbol = "TTRS"

\* id is that of the only bag burnt.
OnlyBurn(id, events) ==
  \E i \in 1 .. Len(events) :
    /\ IsBurn(events[i]) /\ events[i].id = id
    /\ \A k \in 1 .. Len(events) : IsBurn(events[k]) => k = i

\* ids are those of all the minted tokens, in order: f gives each one its event.
ListsMints(ids, events) ==
  \E f \in [1 .. Len(ids) -> 1 .. Len(events)] :
    /\ \A k \in 1 .. Len(ids) : IsMint(events[f[k]]) /\ events[f[k]].id = ids[k]
    /\ \A k, l \in 1 .. Len(ids) : k < l => f[k] < f[l]
    /\ \A i \in 1 .. Len(events) : IsMint(events[i]) => \E k \in 1 .. Len(ids) : f[k] = i

\* The sum of the first n weights of a roll, for each n.
Cumulative(weights) ==
  LET sum[n \in 0 .. Len(weights)] == IF n = 0 THEN 0 ELSE sum[n - 1] + weights[n]
  IN sum

TotalWeight(weights) == Cumulative(weights)[Len(weights)]

\* RandomIndex keeps a random word only below this multiple of count.
EndValid(count) == (MaxWord \div count) * count

\* Hash::Parse: a text that is no hash gives the null hash.
ParseHash(payload) == IF payload = Unparsable THEN NullHash ELSE payload

\* The group a roll's number falls in: the first whose cumulative weight exceeds it.
GroupsAbove(weights, r) == {j \in 1 .. Len(weights) : r < Cumulative(weights)[j]}

SelectedGroup(weights, r) ==
  CHOOSE j \in GroupsAbove(weights, r) : \A k \in GroupsAbove(weights, r) : j <= k

SecretSeedOf(ram)  == Fnv64a[<<ram.crateSeed, ram.randomSeed>>]
FinalSeedOf(ram) == Fnv64a[<<ram.txSeed, SecretSeedOf(ram)>>]
-----------------------------------------------------------------------------
(***************************************************************************)
(* The reference semantics of opening a bag, by whole rolls: a bounded     *)
(* number is the first word of the stream that is not rejected, modulo the *)
(* bound.                                                                  *)
(***************************************************************************)
FirstKept(count) ==
  LET from[s \in Words] == IF RngOutput[s] < EndValid(count) THEN s ELSE from[RngNext[s]]
  IN from

Bounded(state, count) ==
  LET kept == FirstKept(count)[state]
  IN [index |-> RngOutput[kept] % count, state |-> RngNext[kept]]

OpenRoll(opened, weights, groups) ==
  LET roll  == Bounded(opened.state, TotalWeight(weights))
      group == groups[SelectedGroup(weights, roll.index)]
      item  == Bounded(roll.state, Len(group))
  IN IF group = <<>> THEN [opened EXCEPT !.state = roll.state]
     ELSE [items |-> Append(opened.items, group[item.index + 1]), state |-> item.state]

\* The items the first n rolls give, and the generator's state after them.
Opened(seed, info) ==
  LET open[n \in 0 .. Len(info.rolls)] ==
        IF n = 0 THEN [items |-> <<>>, state |-> seed]
        ELSE OpenRoll(open[n - 1], info.rolls[n], info.groups)
  IN open

OpenedItems(seed, info) == Opened(seed, info)[Len(info.rolls)].items
-----------------------------------------------------------------------------
(***************************************************************************)
(* What a world says, independently of how the tool reads it.              *)
(***************************************************************************)
\* The ids of the events at some positions, among the first n events, for each n.
IdsAt(events, at) ==
  LET ids[n \in 0 .. Len(events)] ==
        IF n = 0 THEN <<>>
        ELSE IF n \in at THEN Append(ids[n - 1], events[n].id) ELSE ids[n - 1]
  IN ids

Burns(events) == IdsAt(events, {i \in 1 .. Len(events) : IsBurn(events[i])})
Mints(events) == IdsAt(events, {i \in 1 .. Len(events) : IsMint(events[i])})

Burnt(w)  == Burns(w.tx.events)[Len(w.tx.events)]
Minted(w) == Mints(w.tx.events)[Len(w.tx.events)]
BagId(w)  == IF Burnt(w) = <<>> THEN 0 ELSE Burnt(w)[Len(Burnt(w))]
Bag(w)    == w.tokens[BagId(w)]

IsOpening(w)  == BagId(w) # 0 /\ Minted(w) # <<>>
OneBag(w)     == Len(Burnt(w)) = 1
BagIsCrate(w) == Bag(w).rom.type = "Crate"

\* Odds the reference semantics gives a meaning to.
WellFormed(info) ==
  /\ \A g \in 1 .. Len(info.groups) : \A i \in 1 .. Len(info.groups[g]) : info.groups[g][i] # 0
  /\ \A n \in 1 .. Len(info.rolls) :
       /\ TotalWeight(info.rolls[n]) > 0
       /\ Len(info.rolls[n]) <= Len(info.groups)

\* Decoding something the tool reads about the opening raises an exception.
Unreadable(w) ==
  \/ w.tx.payload = Unparsable
  \/ \E i \in 1 .. Len(w.tx.events) : /\ HoldsToken(w.tx.events[i])
                                      /\ w.tx.events[i].data # "Whole"
  \/ Bag(w).rom.raises \/ Bag(w).ram.raises
  \/ \E k \in 1 .. Len(Minted(w)) : w.tokens[Minted(w)[k]].rom.raises

MintsDecode(w) == \A k \in 1 .. Len(Minted(w)) : w.tokens[Minted(w)[k]].rom.type \in ItemTypes

\* The seeds a bag publishes agree with what was committed before the opening.
SeedsKept(token, payload) ==
  /\ token.ram.randomSeed = token.rom.randomSeed
  /\ Sha256[<<token.ram.crateSeed, token.rom.randomSeed>>] = token.rom.secretHash
  /\ token.ram.txSeed = ParseHash(payload)
  /\ token.ram.finalSeed = FinalSeedOf(token.ram)

CommitmentsKept(w) == SeedsKept(Bag(w), w.tx.payload)

MintedItems(w) == [k \in 1 .. Len(Minted(w)) |-> w.tokens[Minted(w)[k]].rom.itemId]

\* Exactly the items that the published odds give for the published final seed.
RollsKept(w) == MintedItems(w) = OpenedItems(Bag(w).ram.finalSeed, w.info)
=============================================================================
