-------------------------- MODULE MCBlindBagAudit --------------------------
(***************************************************************************)
(* Small openings for TLC: 5-bit words, seeds and hashes of two bytes, up  *)
(* to four minted tokens.  Honest openings, minted by the reference        *)
(* semantics for every seed and every description of odds, and, for each,  *)
(* the openings that differ from it in one respect.                        *)
(***************************************************************************)
EXTENDS BlindBagAudit

Random == INSTANCE GameRandom WITH Bits <- 5, ShiftA <- 1, ShiftB <- 3, ShiftC <- 2,
                                   Multiplier <- 21, Prime <- 19

MCWord    == 31
MCIds     == 0 .. 4
MCItems   == 1 .. 5
MCSeeds   == {<<3, 9>>, <<30, 1>>}
MCHashes  == {<<0, 0, 0>>, <<5, 1, 7>>, <<8, 2, 2>>}
MCNull    == <<0, 0, 0>>
MCUnparsable == <<>>
MCDigests == MCSeeds \X (0 .. MCWord)
\* Collision free, as SHA-256 is taken to be.
MCSha == [p \in MCSeeds \X (0 .. MCWord) |-> p]
MCFnv == [p \in (MCSeeds \cup MCHashes) \X (0 .. MCWord) |-> Random!Fnv(p[1], p[2])]
MCNext   == [s \in 0 .. MCWord |-> Random!XorShiftNext(s)]
MCOutput == [s \in 0 .. MCWord |-> Random!XorShiftOutput(s)]
MCStray  == {<<>>, <<4>>}

Infos == {
  [groups |-> <<<<1, 2, 3>>, <<4, 5>>, <<>>>>, rolls |-> <<<<5, 3, 1>>, <<10, 6, 2>>>>],
  [groups |-> <<<<1>>, <<2, 3>>>>,             rolls |-> <<<<1, 0>>, <<0, 7>>>>],
  [groups |-> <<<<1, 2, 3, 4, 5>>>>,           rolls |-> <<<<11>>>>],
  [groups |-> <<<<>>, <<5>>>>,                 rolls |-> <<<<2, 1>>, <<1, 2>>, <<3, 3>>>>]}

BadInfos == {
  [groups |-> <<<<1, 0>>, <<2>>>>, rolls |-> <<<<1, 2>>>>],
  [groups |-> <<<<1, 2>>>>,        rolls |-> <<<<1, 1>>, <<1>>>>],
  [groups |-> <<<<1, 2>>>>,        rolls |-> <<<<1, 1, 2>>>>],
  [groups |-> <<<<1, 2>>>>,        rolls |-> <<<<3>>, <<0>>>>]}

Event(k, s, i) == [kind |-> k, symbol |-> s, id |-> i, data |-> "Whole"]

CrateToken(seed, word, hash) ==
  LET ram == [long |-> TRUE, raises |-> FALSE, crateSeed |-> seed, randomSeed |-> word, finalSeed |-> 0,
              txSeed |-> hash]
  IN [rom |-> [type |-> "Crate", raises |-> FALSE, itemId |-> 31, randomSeed |-> word,
               secretHash |-> MCSha[seed, word]],
      ram |-> [ram EXCEPT !.finalSeed = FinalSeedOf(ram)]]

ItemToken(item) ==
  [EmptyToken EXCEPT !.rom.type = "Item", !.rom.raises = FALSE, !.rom.itemId = item]

\* The crate is token 4; the items minted are tokens 1, 2 and 3, a KCAL burn and a transfer
\* are events too.
Honest(seed, word, hash, odds) ==
  LET crate  == CrateToken(seed, word, hash)
      opened == OpenedItems(crate.ram.finalSeed, odds)
  IN [tx |-> [events |-> <<Event("TokenBurn", "KCAL", 2), Event("TokenBurn", "TTRS", 4),
                           Event("TokenSend", "TTRS", 1)>>
                         \o [k \in 1 .. Len(opened) |-> Event("TokenMint", "TTRS", k)],
              payload |-> hash],
      tokens |-> [i \in MCIds |-> IF i = 4 THEN crate
                                  ELSE ItemToken(IF i \in 1 .. Len(opened) THEN opened[i] ELSE 5)],
      info |-> odds]

HonestWorlds == {Honest(s, w, h, i) : s \in MCSeeds, w \in {0, 6, 19},
                                      h \in MCHashes \ {MCNull}, i \in Infos}

AddEvent(w, e) == [w EXCEPT !.tx.events = Append(@, e)]

Deviations(w) ==
  { AddEvent(w, Event("TokenBurn", "TTRS", 1)),      \* two bags opened at once
    AddEvent(w, Event("TokenBurn", "TTRS", 0)),
    AddEvent(w, Event("TokenMint", "TTRS", 3)),      \* one token too many
    AddEvent(w, Event("TokenMint", "KCAL", 3)),
    [w EXCEPT !.tx.events = Tail(Tail(@))],          \* no bag burnt
    [w EXCEPT !.tx.events = SubSeq(@, 1, Len(@) - 1)],  \* one token too few
    [w EXCEPT !.tx.payload = MCUnparsable],
    [w EXCEPT !.tx.payload = MCUnparsable, !.tokens[4].ram.txSeed = MCNull],
    [w EXCEPT !.tx.payload = MCNull],
    [w EXCEPT !.tokens[4].ram.randomSeed = 1],
    [w EXCEPT !.tokens[4].ram.crateSeed = CHOOSE s \in MCSeeds : s # @],
    [w EXCEPT !.tokens[4].ram.finalSeed = (@ + 1) % 32],
    [w EXCEPT !.tokens[4].ram.long = FALSE],
    [w EXCEPT !.tokens[4].rom.type = "Item"],
    [w EXCEPT !.tokens[4].rom.type = "Undecodable", !.tokens[4].rom.raises = TRUE],
    [w EXCEPT !.tokens[4].rom.raises = TRUE],        \* only its counter's sign byte is wrong
    [w EXCEPT !.tokens[4].ram.raises = TRUE, !.tokens[4].ram.long = FALSE],
    [w EXCEPT !.tokens[1].rom.itemId = (@ % 5) + 1], \* another item than rolled
    [w EXCEPT !.tokens[2].rom.itemId = (@ % 5) + 1],
    [w EXCEPT !.tokens[1].rom.type = "Undecodable"],
    [w EXCEPT !.tokens[1].rom.type = "Undecodable", !.tokens[1].rom.raises = TRUE],
    [w EXCEPT !.tokens[2].rom.raises = TRUE],
    [w EXCEPT !.tx.events[2].data = "Malformed", !.tx.events[2].id = 0],
    [w EXCEPT !.tx.events[3].kind = "TokenMint", !.tx.events[3].symbol = "",
              !.tx.events[3].data = "Malformed"],
    [w EXCEPT !.tx.events[1].data = "Oversized"] }
  \cup {[w EXCEPT !.info = i] : i \in BadInfos}

MCWorlds == HonestWorlds \cup UNION {Deviations(w) : w \in HonestWorlds}
=============================================================================
