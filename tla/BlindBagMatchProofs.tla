------------------------ MODULE BlindBagMatchProofs ------------------------
(***************************************************************************)
(* What a Match rests on, for every ledger and every pattern of failures:  *)
(* the theorem MatchIsJustified.  The invariant follows the data from the  *)
(* ledger through the scan of the events, the fetch of the bag, the chain  *)
(* of checks and the fetches of the minted tokens to the comparison.       *)
(*                                                                         *)
(* And the theorem AuditImplementsContract: every verdict is one that      *)
(* AuditContract justifies.                                                *)
(***************************************************************************)
EXTENDS BlindBagAuditProofs

\* OnlyBurn and ListsMints of the first n events.
OnlyBurnIn(id, events, n) ==
  \E i \in 1 .. n :
    /\ IsBurn(events[i]) /\ events[i].id = id
    /\ \A k \in 1 .. n : IsBurn(events[k]) => k = i

ListsMintsIn(ids, events, n) ==
  \E f \in [1 .. Len(ids) -> 1 .. n] :
    /\ \A k \in 1 .. Len(ids) : IsMint(events[f[k]]) /\ events[f[k]].id = ids[k]
    /\ \A k, l \in 1 .. Len(ids) : k < l => f[k] < f[l]
    /\ \A i \in 1 .. n : IsMint(events[i]) => \E k \in 1 .. Len(ids) : f[k] = i

\* The steps that follow each check; PastBag are those after the bag arrived.
PastSeeds    == {"GetPartInfo"} \cup RollSteps \cup AfterRolls
PastTxSeed   == PastSeeds \cup {"CheckFinalSeed"}
PastSecret   == PastTxSeed \cup {"CheckTxSeed"}
PastRandom   == PastSecret \cup {"CheckCrateSecret"}
PastDecode   == PastRandom \cup {"CheckRandomSeed", "CheckRam"}
PastBag      == PastDecode \cup {"DecodeBag"}
PastScan     == PastBag \cup {"GetBag"}

ScanInv ==
  /\ pc \in {"ScanEvents", "GetBag"} /\ err = "None" => tx = world.tx
  /\ pc = "ScanEvents" =>
       /\ numBurnt = 0 => nftId = 0 /\ \A i \in 1 .. evt - 1 : ~IsBurn(tx.events[i])
       /\ numBurnt = 1 => OnlyBurnIn(nftId, tx.events, evt - 1)
       /\ ListsMintsIn(nftIdsMinted, tx.events, evt - 1)
  /\ pc \in PastScan =>
       /\ OnlyBurn(nftId, tx.events) /\ nftId # 0
       /\ ListsMints(nftIdsMinted, tx.events)

CheckInv ==
  /\ pc \in PastBag => tx = world.tx /\ bag = world.tokens[nftId]
  /\ pc \in PastDecode => bag.rom.type = "Crate"
  /\ pc \in PastRandom => bag.rom.randomSeed = bag.ram.randomSeed
  /\ pc \in PastSecret => Sha256[<<bag.ram.crateSeed, bag.rom.randomSeed>>] = bag.rom.secretHash
  /\ pc \in PastTxSeed => bag.ram.txSeed = ParseHash(tx.payload)
  /\ pc \in PastSeeds  => bag.ram.finalSeed = FinalSeedOf(bag.ram)

MintInv ==
  /\ \A k \in 1 .. Len(itemsMinted) : itemsMinted[k] = world.tokens[nftIdsMinted[k]].rom.itemId
  /\ pc = "Compare" => Len(itemsMinted) = Len(nftIdsMinted)

LedgerInv == ScanInv /\ CheckInv /\ MintInv /\ MatchRestsOnLedger
-----------------------------------------------------------------------------
\* One more event that is a mint, and one that is not.
LEMMA MintListed ==
  ASSUME NEW ids, NEW id, ids \in Seq(Ids), id \in Ids, NEW events, NEW n \in Nat,
         IsMint(events[n + 1]), events[n + 1].id = id, ListsMintsIn(ids, events, n)
  PROVE  ListsMintsIn(Append(ids, id), events, n + 1)
  <1>1. PICK f \in [1 .. Len(ids) -> 1 .. n] :
          /\ \A k \in 1 .. Len(ids) : IsMint(events[f[k]]) /\ events[f[k]].id = ids[k]
          /\ \A k, l \in 1 .. Len(ids) : k < l => f[k] < f[l]
          /\ \A i \in 1 .. n : IsMint(events[i]) => \E k \in 1 .. Len(ids) : f[k] = i
    BY DEF ListsMintsIn
  <1>. DEFINE more == Append(ids, id)
              m    == Len(ids)
              g    == [k \in 1 .. m + 1 |-> IF k = m + 1 THEN n + 1 ELSE f[k]]
  <1>2. /\ m \in Nat /\ Len(more) = m + 1 /\ more[m + 1] = id
        /\ \A k \in 1 .. m : more[k] = ids[k]
    OBVIOUS
  <1>3. /\ g[m + 1] = n + 1
        /\ \A k \in 1 .. m : g[k] = f[k] /\ f[k] \in 1 .. n
    BY <1>2
  <1>4. /\ \A k \in 1 .. Len(more) : k = m + 1 \/ k \in 1 .. m
        /\ \A k \in 1 .. m : k \in 1 .. Len(more) /\ k < m + 1
        /\ m + 1 \in 1 .. Len(more)
    BY <1>2
  <1>. HIDE DEF more, m
  <1>5. g \in [1 .. Len(more) -> 1 .. n + 1]
    <2>1. ASSUME NEW k \in 1 .. Len(more) PROVE g[k] \in 1 .. n + 1
      <3>. HIDE DEF g
      <3>1. CASE k = m + 1
        BY <1>3, <3>1
      <3>2. CASE k \in 1 .. m
        BY <1>3, <3>2
      <3>. QED
        BY <1>4, <3>1, <3>2
    <2>. QED
      BY <1>2, <2>1
  <1>. HIDE DEF g
  <1>6. \A k \in 1 .. Len(more) : IsMint(events[g[k]]) /\ events[g[k]].id = more[k]
    BY <1>1, <1>2, <1>3, <1>4 DEF m
  <1>7. \A k, l \in 1 .. Len(more) : k < l => g[k] < g[l]
    BY <1>1, <1>2, <1>3, <1>4 DEF m
  <1>8. ASSUME NEW i \in 1 .. n + 1, IsMint(events[i]) PROVE \E k \in 1 .. Len(more) : g[k] = i
    <2>1. CASE i = n + 1
      BY <1>3, <1>4, <2>1
    <2>2. CASE i \in 1 .. n
      <3>1. PICK k \in 1 .. m : f[k] = i
        BY <1>1, <1>8, <2>2 DEF m
      <3>2. k \in 1 .. Len(more) /\ g[k] = i
        BY <1>3, <1>4, <3>1
      <3>. QED
        BY <3>2
    <2>. QED
      BY <2>1, <2>2
  <1>9. ListsMintsIn(more, events, n + 1)
    BY <1>5, <1>6, <1>7, <1>8 DEF ListsMintsIn
  <1>. QED
    BY <1>9 DEF more

LEMMA MintNotListed ==
  ASSUME NEW ids, ids \in Seq(Ids), NEW events, NEW n \in Nat,
         ~IsMint(events[n + 1]), ListsMintsIn(ids, events, n)
  PROVE  ListsMintsIn(ids, events, n + 1)
  <1>1. PICK f \in [1 .. Len(ids) -> 1 .. n] :
          /\ \A k \in 1 .. Len(ids) : IsMint(events[f[k]]) /\ events[f[k]].id = ids[k]
          /\ \A k, l \in 1 .. Len(ids) : k < l => f[k] < f[l]
          /\ \A i \in 1 .. n : IsMint(events[i]) => \E k \in 1 .. Len(ids) : f[k] = i
    BY DEF ListsMintsIn
  <1>2. f \in [1 .. Len(ids) -> 1 .. n + 1]
    BY <1>1
  <1>3. \A i \in 1 .. n + 1 : i = n + 1 \/ i \in 1 .. n
    OBVIOUS
  <1>4. \A i \in 1 .. n + 1 : IsMint(events[i]) => \E k \in 1 .. Len(ids) : f[k] = i
    BY <1>1, <1>3
  <1>. QED
    BY <1>1, <1>2, <1>4 DEF ListsMintsIn
-----------------------------------------------------------------------------
\* The scan goes on with the next event, or the data of this one end the process.
LEMMA ScanTurn ==
  ASSUME ScanEvent
  PROVE  \/ /\ ~Fatal(tx.events[evt]) /\ UseEvent(tx.events[evt])
            /\ pc' = "ScanEvents" /\ UNCHANGED verdict
         \/ Fatal(tx.events[evt]) /\ pc' = "Done" /\ verdict' = "Crash"
  BY DEF ScanEvent, Die, Return

\* The scan reads each event of tx once: after it, OnlyBurn and ListsMints hold of all of them.
LEMMA ScanEventStep == TypeInv /\ ScanInv /\ ScanEvent => ScanInv'
  <1>. SUFFICES ASSUME TypeInv, ScanInv, ScanEvent, UseEvent(tx.events[evt]), UNCHANGED pc
                PROVE ScanInv'
    BY ScanTurn
    DEF ScanEvent, ScanInv, PastScan, PastBag, PastDecode, PastRandom, PastSecret, PastTxSeed, PastSeeds,
        RollSteps, AfterRolls
  <1>. DEFINE e == tx.events[evt]
              n == evt - 1
  <1>1. /\ pc = "ScanEvents" /\ pc' = "ScanEvents" /\ tx' = tx /\ world' = world /\ err' = err
        /\ n \in Nat /\ n + 1 = evt /\ evt' - 1 = n + 1
        /\ nftIdsMinted \in Seq(Ids) /\ e.id \in Ids /\ numBurnt \in Nat /\ nftId \in Ids
    <2>1. /\ tx \in Transactions /\ evt \in 1 .. Len(tx.events) + 1 /\ evt <= Len(tx.events)
          /\ nftIdsMinted \in Seq(Ids) /\ numBurnt \in Nat /\ nftId \in Ids
      BY DEF TypeInv, TypeOK, ScanEvent
    <2>2. Len(tx.events) \in Nat
      BY <2>1, TransactionFields
    <2>3. evt \in 1 .. Len(tx.events)
      BY <2>1, <2>2
    <2>4. e.id \in Ids
      BY <2>1, <2>3, TransactionFields
    <2>5. evt' = evt + 1 /\ UNCHANGED <<pc, tx, world, err>> /\ pc = "ScanEvents"
      BY DEF ScanEvent, UseEvent, envVars
    <2>. QED
      BY <2>1, <2>2, <2>3, <2>4, <2>5
  <1>2. /\ err = "None" => tx = world.tx
        /\ numBurnt = 0 => nftId = 0 /\ \A i \in 1 .. n : ~IsBurn(tx.events[i])
        /\ numBurnt = 1 => OnlyBurnIn(nftId, tx.events, n)
        /\ ListsMintsIn(nftIdsMinted, tx.events, n)
    BY <1>1 DEF ScanInv
  <1>3. /\ numBurnt' = IF IsBurn(e) THEN numBurnt + 1 ELSE numBurnt
        /\ nftId' = IF IsBurn(e) THEN e.id ELSE nftId
        /\ nftIdsMinted' = IF IsMint(e) THEN Append(nftIdsMinted, e.id) ELSE nftIdsMinted
    BY DEF UseEvent
  <1>4. \A i \in 1 .. n + 1 : i = n + 1 \/ i \in 1 .. n
    BY <1>1
  <1>5. e = tx.events[n + 1]
    BY <1>1
  <1>. HIDE DEF n, e
  <1>6. numBurnt' = 0 => nftId' = 0 /\ \A i \in 1 .. n + 1 : ~IsBurn(tx.events[i])
    BY <1>1, <1>2, <1>3, <1>4, <1>5
  <1>7. numBurnt' = 1 => OnlyBurnIn(nftId', tx.events, n + 1)
    <2>1. CASE IsBurn(e)
      <3>1. numBurnt' = 1 => \A i \in 1 .. n : ~IsBurn(tx.events[i])
        BY <1>1, <1>2, <1>3, <2>1
      <3>2. n + 1 \in 1 .. n + 1
        BY <1>1
      <3>. QED
        BY <1>3, <1>4, <1>5, <2>1, <3>1, <3>2 DEF OnlyBurnIn
    <2>2. CASE ~IsBurn(e)
      <3>1. \A i \in 1 .. n : i \in 1 .. n + 1
        BY <1>1
      <3>. QED
        BY <1>2, <1>3, <1>4, <1>5, <2>2, <3>1 DEF OnlyBurnIn
    <2>. QED
      BY <2>1, <2>2
  <1>8. ListsMintsIn(nftIdsMinted', tx.events, n + 1)
    <2>1. CASE IsMint(e)
      BY <1>1, <1>2, <1>3, <1>5, <2>1, MintListed
    <2>2. CASE ~IsMint(e)
      BY <1>1, <1>2, <1>3, <1>5, <2>2, MintNotListed
    <2>. QED
      BY <2>1, <2>2
  <1>. QED
    BY <1>1, <1>2, <1>6, <1>7, <1>8
    DEF ScanInv, PastScan, PastBag, PastDecode, PastRandom, PastSecret, PastTxSeed, PastSeeds,
        RollSteps, AfterRolls

LEMMA EndScanStep == TypeInv /\ ScanInv /\ EndScan => ScanInv'
  <1>. SUFFICES ASSUME TypeInv, ScanInv, EndScan PROVE ScanInv'
    OBVIOUS
  <1>1. /\ pc = "ScanEvents" /\ UNCHANGED <<world, err, tx, numBurnt, nftId, nftIdsMinted>>
        /\ evt - 1 = Len(tx.events) /\ numBurnt \in Nat
        /\ pc' \in {"GetBag", "Done"}
        /\ pc' = "GetBag" => nftId # 0 /\ numBurnt <= 1
    <2>1. /\ tx \in Transactions /\ evt \in 1 .. Len(tx.events) + 1 /\ numBurnt \in Nat
          /\ evt > Len(tx.events)
      BY DEF TypeInv, TypeOK, EndScan
    <2>2. Len(tx.events) \in Nat
      BY <2>1, TransactionFields
    <2>3. /\ pc = "ScanEvents" /\ UNCHANGED <<world, err, tx, numBurnt, nftId, nftIdsMinted>>
          /\ pc' \in {"GetBag", "Done"}
          /\ pc' = "GetBag" => nftId # 0 /\ numBurnt <= 1
      BY DEF EndScan, Check, Goto, Return, envVars, txVars, scanVars
    <2>. QED
      BY <2>1, <2>2, <2>3
  <1>2. pc' = "GetBag" => numBurnt = 1
    BY <1>1 DEF ScanInv
  <1>3. pc' = "GetBag" => OnlyBurn(nftId, tx.events) /\ ListsMints(nftIdsMinted, tx.events)
    <2>. SUFFICES ASSUME pc' = "GetBag"
                  PROVE  OnlyBurn(nftId, tx.events) /\ ListsMints(nftIdsMinted, tx.events)
      OBVIOUS
    <2>1. /\ OnlyBurnIn(nftId, tx.events, evt - 1)
          /\ ListsMintsIn(nftIdsMinted, tx.events, evt - 1)
      BY <1>1, <1>2 DEF ScanInv
    <2>2. /\ OnlyBurnIn(nftId, tx.events, Len(tx.events))
          /\ ListsMintsIn(nftIdsMinted, tx.events, Len(tx.events))
      BY <1>1, <2>1
    <2>3. OnlyBurn(nftId, tx.events)
      BY <2>2 DEF OnlyBurn, OnlyBurnIn
    <2>4. ListsMints(nftIdsMinted, tx.events)
      BY <2>2 DEF ListsMints, ListsMintsIn
    <2>. QED
      BY <2>3, <2>4
  <1>. QED
    BY <1>1, <1>3
    DEF ScanInv, PastScan, PastBag, PastDecode, PastRandom, PastSecret, PastTxSeed, PastSeeds,
        RollSteps, AfterRolls

\* No later step disturbs what the scan found.
LEMMA ScanStep == TypeInv /\ ScanInv /\ [Next]_vars => ScanInv'
  <1>. SUFFICES ASSUME TypeInv, ScanInv, [Next]_vars PROVE ScanInv'
    OBVIOUS
  <1>. USE DEF PastScan, PastBag, PastDecode, PastRandom, PastSecret, PastTxSeed, PastSeeds,
               RollSteps, AfterRolls
  <1>1. CASE GetTransaction
    <2>1. /\ pc' \in {"ScanEvents", "Done"} /\ world' = world
          /\ err' = "None" /\ pc' = "ScanEvents" => tx' = world.tx
      BY <1>1 DEF GetTransaction, TypeInv, Fault, Ledger, Goto, Die, Return, envVars
    <2>2. evt' - 1 = 0 /\ numBurnt' = 0 /\ nftId' = 0 /\ nftIdsMinted' = <<>>
      BY <1>1 DEF GetTransaction, TypeInv, scanVars
    <2>3. ListsMintsIn(<<>>, tx'.events, 0)
      <3>1. 1 .. 0 = {} /\ 1 .. Len(<<>>) = {}
        OBVIOUS
      <3>2. [k \in {} |-> 0] \in [1 .. Len(<<>>) -> 1 .. 0]
        BY <3>1
      <3>. QED
        BY <3>1, <3>2 DEF ListsMintsIn
    <2>. QED
      BY <2>1, <2>2, <2>3 DEF ScanInv
  <1>2. CASE pc = "ScanEvents"
    <2>1. ScanEvent \/ EndScan \/ UNCHANGED vars
      BY <1>2 DEF Next, Exit, Audit, GetTransaction, GetBag, DecodeBag, CheckRam, CheckRandomSeed,
        CheckCrateSecret, CheckTxSeed, CheckFinalSeed, GetPartInfo, BeginRoll, SumWeights,
        DrawGroup, SelectGroup, UseGroup, DrawItem, GetMinted, Compare
    <2>. QED
      BY <2>1, ScanEventStep, EndScanStep DEF ScanInv, vars, envVars, txVars, scanVars
  <1>3. CASE pc \in PastScan
    <2>1. /\ UNCHANGED <<world, tx, nftId, nftIdsMinted>> /\ pc' # "ScanEvents"
          /\ pc' = "GetBag" => UNCHANGED vars
      BY <1>3, MintedTurn
      DEF Next, Exit, Audit, GetTransaction, ScanEvent, EndScan, GetBag, DecodeBag, CheckRam,
        CheckRandomSeed, CheckCrateSecret, CheckTxSeed, CheckFinalSeed, GetPartInfo, BeginRoll,
        SumWeights, DrawGroup, SelectGroup, UseGroup, DrawItem, GetMinted, Compare,
        RandomIndex, NextRoll, Check, Goto, Return, Die, vars, envVars, txVars, scanVars
    <2>. QED
      BY <1>3, <2>1 DEF ScanInv, vars
  <1>4. CASE pc = "Done"
    <2>1. UNCHANGED vars
      BY <1>4 DEF Next, Exit, Audit, GetTransaction, ScanEvent, EndScan, GetBag, DecodeBag, CheckRam,
        CheckRandomSeed, CheckCrateSecret, CheckTxSeed, CheckFinalSeed, GetPartInfo, BeginRoll,
        SumWeights, DrawGroup, SelectGroup, UseGroup, DrawItem, GetMinted, Compare
    <2>. QED
      BY <1>4, <2>1 DEF ScanInv, vars
  <1>5. CASE UNCHANGED vars
    BY <1>5 DEF ScanInv, vars, envVars, txVars, scanVars
  <1>6. pc \in PastScan \cup {"GetTransaction", "ScanEvents", "Done"}
    BY DEF TypeInv, TypeOK, Steps
  <1>7. pc = "GetTransaction" => GetTransaction \/ UNCHANGED vars
    BY DEF Next, Exit, Audit, ScanEvent, EndScan, GetBag, DecodeBag, CheckRam, CheckRandomSeed,
        CheckCrateSecret, CheckTxSeed, CheckFinalSeed, GetPartInfo, BeginRoll, SumWeights,
        DrawGroup, SelectGroup, UseGroup, DrawItem, GetMinted, Compare
  <1>. QED
    BY <1>1, <1>2, <1>3, <1>4, <1>5, <1>6, <1>7
-----------------------------------------------------------------------------
\* The bag is the ledger's, and each check that was passed still holds of it.
LEMMA CheckStep == TypeInv /\ ScanInv /\ CheckInv /\ [Next]_vars => CheckInv'
  <1>. SUFFICES ASSUME TypeInv, ScanInv, CheckInv, [Next]_vars PROVE CheckInv'
    OBVIOUS
  <1>. USE DEF PastBag, PastDecode, PastRandom, PastSecret, PastTxSeed, PastSeeds,
               RollSteps, AfterRolls
  <1>1. CASE GetBag
    <2>1. /\ pc = "GetBag" /\ pc' \in {"DecodeBag", "Done"} /\ UNCHANGED <<world, tx, nftId>>
          /\ pc' = "DecodeBag" => err = "None" /\ bag' = world.tokens[nftId]
      BY <1>1 DEF GetBag, Fault, Ledger, Goto, Die, Return, TypeInv, TypeOK, envVars, txVars, scanVars
    <2>. QED
      BY <2>1 DEF CheckInv, ScanInv
  <1>2. CASE DecodeBag \/ CheckRam \/ CheckRandomSeed \/ CheckCrateSecret \/ CheckTxSeed
             \/ CheckFinalSeed
    <2>1. UNCHANGED <<world, tx, nftId, bag>>
      BY <1>2 DEF DecodeBag, CheckRam, CheckRandomSeed, CheckCrateSecret, CheckTxSeed,
                  CheckFinalSeed, envVars, txVars, scanVars
    <2>2. \/ pc' = "Done"
          \/ pc = "DecodeBag" /\ pc' = "CheckRam" /\ bag.rom.type = "Crate"
          \/ pc = "CheckRam" /\ pc' = "CheckRandomSeed"
          \/ pc = "CheckRandomSeed" /\ pc' = "CheckCrateSecret" /\ bag.rom.randomSeed = bag.ram.randomSeed
          \/ /\ pc = "CheckCrateSecret" /\ pc' = "CheckTxSeed"
             /\ Sha256[<<bag.ram.crateSeed, bag.rom.randomSeed>>] = bag.rom.secretHash
          \/ pc = "CheckTxSeed" /\ pc' = "CheckFinalSeed" /\ bag.ram.txSeed = ParseHash(tx.payload)
          \/ pc = "CheckFinalSeed" /\ pc' = "GetPartInfo" /\ bag.ram.finalSeed = FinalSeedOf(bag.ram)
      BY <1>2 DEF DecodeBag, CheckRam, CheckRandomSeed, CheckCrateSecret, CheckTxSeed,
                  CheckFinalSeed, Check, Goto, Return, Die
    <2>. QED
      BY <2>1, <2>2 DEF CheckInv
  <1>3. CASE \/ GetTransaction \/ ScanEvent \/ EndScan
    <2>1. pc' \in {"ScanEvents", "GetBag", "Done"}
      BY <1>3, ScanTurn DEF GetTransaction, EndScan, Check, Goto, Return, Die
    <2>. QED
      BY <2>1 DEF CheckInv
  <1>4. CASE \/ GetPartInfo \/ BeginRoll \/ SumWeights \/ DrawGroup \/ SelectGroup \/ UseGroup
             \/ DrawItem \/ GetMinted \/ Compare
    <2>1. UNCHANGED <<world, tx, nftId, bag>>
      BY <1>4 DEF GetPartInfo, BeginRoll, SumWeights, DrawGroup, SelectGroup, UseGroup, DrawItem,
                  GetMinted, Compare, envVars, txVars, scanVars
    <2>2. pc \in PastSeeds
      BY <1>4 DEF GetPartInfo, BeginRoll, SumWeights, DrawGroup, SelectGroup, UseGroup, DrawItem,
                  GetMinted, Compare
    <2>. QED
      BY <2>1, <2>2 DEF CheckInv
  <1>5. CASE UNCHANGED vars
    BY <1>5 DEF CheckInv, vars, envVars, txVars, scanVars
  <1>. QED
    BY <1>1, <1>2, <1>3, <1>4, <1>5 DEF Next, Exit, Audit

\* itemsMinted lists the ledger's items of the first minted tokens.
LEMMA MintStep == TypeInv /\ MintInv /\ [Next]_vars => MintInv'
  <1>. SUFFICES ASSUME TypeInv, MintInv, [Next]_vars PROVE MintInv'
    OBVIOUS
  <1>1. CASE GetMinted
    <2>1. /\ pc = "GetMinted" /\ itemsMinted \in Seq(Words) /\ UNCHANGED <<world, nftIdsMinted>>
          /\ nftIdsMinted \in Seq(Ids) /\ world \in Worlds
      BY <1>1 DEF TypeInv, TypeOK, GetMinted, envVars, txVars, scanVars
    <2>2. CASE itemsMinted' = itemsMinted /\ (pc' = "Compare" => Len(itemsMinted) = Len(nftIdsMinted))
      BY <2>1, <2>2 DEF MintInv
    <2>3. CASE /\ itemsMinted' = Append(itemsMinted, NextMinted.rom.itemId)
               /\ pc' = "GetMinted"
      <3>1. /\ Len(itemsMinted) \in Nat /\ Len(itemsMinted') = Len(itemsMinted) + 1
            /\ \A k \in 1 .. Len(itemsMinted) : itemsMinted'[k] = itemsMinted[k]
            /\ itemsMinted'[Len(itemsMinted) + 1] = NextMinted.rom.itemId
        BY <2>1, <2>3
      <3>2. ASSUME NEW k \in 1 .. Len(itemsMinted')
            PROVE  itemsMinted'[k] = world.tokens[nftIdsMinted[k]].rom.itemId
        <4>1. CASE k = Len(itemsMinted) + 1
          BY <3>1, <4>1 DEF NextMinted
        <4>2. CASE k \in 1 .. Len(itemsMinted)
          BY <3>1, <4>2 DEF MintInv
        <4>. QED
          BY <3>1, <4>1, <4>2
      <3>. QED
        BY <2>1, <2>3, <3>2 DEF MintInv
    <2>. QED
      BY <1>1, <2>2, <2>3, MintedTurn
  <1>2. CASE GetTransaction \/ ScanEvent
    <2>1. itemsMinted = <<>> /\ itemsMinted' = itemsMinted /\ pc' # "Compare"
      BY <1>2 DEF GetTransaction, ScanEvent, Goto, Die, Return, TypeInv, TypeOK, BeforeRolls, Steps,
                  RollSteps, AfterRolls
    <2>2. Len(itemsMinted') = 0
      BY <2>1
    <2>. QED
      BY <2>1, <2>2 DEF MintInv
  <1>3. CASE EndScan \/ GetBag \/ DecodeBag \/ CheckRam \/ CheckRandomSeed \/ CheckCrateSecret
             \/ CheckTxSeed \/ CheckFinalSeed \/ GetPartInfo \/ BeginRoll \/ SumWeights \/ DrawGroup
             \/ SelectGroup \/ UseGroup \/ DrawItem \/ Compare
    <2>1. UNCHANGED <<world, nftIdsMinted, itemsMinted>> /\ pc' # "Compare"
      BY <1>3 DEF EndScan, GetBag, DecodeBag, CheckRam, CheckRandomSeed, CheckCrateSecret,
        CheckTxSeed, CheckFinalSeed, GetPartInfo, BeginRoll, SumWeights, DrawGroup, SelectGroup,
        UseGroup, DrawItem, Compare, RandomIndex, NextRoll, Check, Goto, Return, Die,
        envVars, txVars, scanVars
    <2>. QED
      BY <2>1 DEF MintInv
  <1>4. CASE UNCHANGED vars
    BY <1>4 DEF MintInv, vars, envVars, txVars, scanVars
  <1>. QED
    BY <1>1, <1>2, <1>3, <1>4 DEF Next, Exit, Audit
-----------------------------------------------------------------------------
\* Only the comparison returns Match.
LEMMA OnlyCompareMatches ==
  ASSUME TypeInv, [Next]_vars, verdict' = "Match"
  PROVE  Compare \/ UNCHANGED vars
  <1>1. pc # "Done" => verdict = "Pending"
    BY DEF TypeInv, TypeOK
  <1>2. Audit /\ ~Compare => verdict' \in {verdict, "Error", "Unsuitable", "Indeterminate", "Mismatch", "Crash"}
    BY MintedTurn
    DEF Audit, GetTransaction, ScanEvent, EndScan, GetBag, DecodeBag, CheckRam, CheckRandomSeed,
        CheckCrateSecret, CheckTxSeed, CheckFinalSeed, GetPartInfo, BeginRoll, SumWeights,
        DrawGroup, SelectGroup, UseGroup, DrawItem, NextRoll, Check, Goto, Return, Die
  <1>3. Audit => pc # "Done"
    BY DEF Audit, GetTransaction, ScanEvent, EndScan, GetBag, DecodeBag, CheckRam, CheckRandomSeed,
        CheckCrateSecret, CheckTxSeed, CheckFinalSeed, GetPartInfo, BeginRoll, SumWeights,
        DrawGroup, SelectGroup, UseGroup, DrawItem, GetMinted, Compare
  <1>. QED
    BY <1>1, <1>2, <1>3 DEF Next, Exit

\* The list compared is the ledger's, of every minted token.
LEMMA MintedList ==
  ASSUME TypeInv, MintInv, pc = "Compare"
  PROVE  itemsMinted = [k \in 1 .. Len(nftIdsMinted) |-> world.tokens[nftIdsMinted[k]].rom.itemId]
  <1>1. itemsMinted \in Seq(Words) /\ Len(itemsMinted) = Len(nftIdsMinted)
    BY DEF TypeInv, TypeOK, MintInv
  <1>2. itemsMinted = [k \in 1 .. Len(itemsMinted) |-> itemsMinted[k]]
    BY <1>1
  <1>3. \A k \in 1 .. Len(itemsMinted) : itemsMinted[k] = world.tokens[nftIdsMinted[k]].rom.itemId
    BY DEF MintInv
  <1>. QED
    BY <1>1, <1>2, <1>3

LEMMA MatchStep ==
  TypeInv /\ LedgerInv /\ [Next]_vars => MatchRestsOnLedger'
  <1>. SUFFICES ASSUME TypeInv, LedgerInv, [Next]_vars, verdict' = "Match"
                PROVE  MatchRestsOnLedger'
    BY DEF MatchRestsOnLedger
  <1>1. CASE Compare
    <2>1. /\ pc = "Compare" /\ itemsMinted = itemsProduced
          /\ UNCHANGED <<world, nftId, nftIdsMinted, itemsMinted, itemsProduced>>
      BY <1>1 DEF Compare, Return, envVars, txVars, scanVars, rollVars
    <2>2. pc \in PastSeeds /\ pc \in PastTxSeed /\ pc \in PastSecret /\ pc \in PastRandom
          /\ pc \in PastDecode /\ pc \in PastBag /\ pc \in PastScan
      BY <2>1 DEF PastScan, PastBag, PastDecode, PastRandom, PastSecret, PastTxSeed, PastSeeds, AfterRolls
    <2>3. tx = world.tx /\ bag = world.tokens[nftId]
      BY <2>2 DEF LedgerInv, CheckInv
    <2>4. OnlyBurn(nftId, world.tx.events) /\ nftId # 0 /\ ListsMints(nftIdsMinted, world.tx.events)
      BY <2>2, <2>3 DEF LedgerInv, ScanInv
    <2>5. bag.rom.type = "Crate" /\ SeedsKept(bag, tx.payload)
      BY <2>2 DEF LedgerInv, CheckInv, SeedsKept
    <2>6. itemsMinted = [k \in 1 .. Len(nftIdsMinted) |-> world.tokens[nftIdsMinted[k]].rom.itemId]
      BY <2>1, MintedList DEF LedgerInv
    <2>. QED
      BY <2>1, <2>3, <2>4, <2>5, <2>6 DEF MatchRestsOnLedger
  <1>2. CASE UNCHANGED vars
    BY <1>2 DEF LedgerInv, MatchRestsOnLedger, vars, envVars, txVars, scanVars, rollVars
  <1>. QED
    BY <1>1, <1>2, OnlyCompareMatches

LEMMA LedgerInit == Init => LedgerInv
  <1>. SUFFICES ASSUME Init PROVE LedgerInv
    OBVIOUS
  <1>1. pc = "GetTransaction" /\ verdict = "Pending" /\ itemsMinted = <<>>
    BY DEF Init
  <1>2. Len(itemsMinted) = 0
    BY <1>1
  <1>. QED
    BY <1>1, <1>2
    DEF LedgerInv, ScanInv, CheckInv, MintInv, MatchRestsOnLedger, PastScan, PastBag, PastDecode,
        PastRandom, PastSecret, PastTxSeed, PastSeeds, RollSteps, AfterRolls

LEMMA LedgerAlways == Spec => []LedgerInv
  <1>1. TypeInv /\ LedgerInv /\ [Next]_vars => LedgerInv'
    BY ScanStep, CheckStep, MintStep, MatchStep DEF LedgerInv
  <1>. QED
    BY LedgerInit, TypeAlways, <1>1, PTL DEF Spec

\* For every ledger, every hash function and every pattern of failed replies: when the tool says
\* Match, the transaction opened one crate, the crate's seeds are the committed ones, and the
\* items compared are the ledger's, all of them (MatchRestsOnLedger; Audit.h:12-235).
THEOREM MatchIsJustified == Spec => []MatchRestsOnLedger
  <1>1. LedgerInv => MatchRestsOnLedger
    BY DEF LedgerInv
  <1>. QED
    BY LedgerAlways, <1>1, PTL
-----------------------------------------------------------------------------
(***************************************************************************)
(* Every verdict is one the contract allows.  The scan has read exactly    *)
(* the ids that Burnt and Minted list; an error is never forgotten; and    *)
(* the odds are the web site's, without a zero item.                       *)
(***************************************************************************)
\* ids lists the ids at the first positions, up to n of them.
IdsUpTo(ids, events, at, n) ==
  ids = [k \in 0 .. n |-> IF k = 0 THEN <<>>
                          ELSE IF k \in at THEN Append(ids[k - 1], events[k].id) ELSE ids[k - 1]]

LEMMA IdsExist ==
  ASSUME NEW events, NEW at
  PROVE  \A n \in Nat : \E f : IdsUpTo(f, events, at, n)
  <1>. DEFINE S == {n \in Nat : \E f : IdsUpTo(f, events, at, n)}
  <1>1. 0 \in S
    <2>1. IdsUpTo([k \in 0 .. 0 |-> <<>>], events, at, 0)
      BY DEF IdsUpTo
    <2>. QED
      BY <2>1
  <1>2. ASSUME NEW n \in Nat, n \in S PROVE n + 1 \in S
    <2>1. PICK f : IdsUpTo(f, events, at, n)
      BY <1>2
    <2>. DEFINE last == IF n + 1 \in at THEN Append(f[n], events[n + 1].id) ELSE f[n]
                g == [k \in 0 .. n + 1 |-> IF k = n + 1 THEN last ELSE f[k]]
                h == [k \in 0 .. n + 1 |->
                        IF k = 0 THEN <<>>
                        ELSE IF k \in at THEN Append(g[k - 1], events[k].id) ELSE g[k - 1]]
    <2>2. ASSUME NEW k \in 0 .. n + 1 PROVE g[k] = h[k]
      <3>1. CASE k = n + 1
        <4>1. k # 0 /\ k - 1 \in 0 .. n + 1 /\ k - 1 # n + 1 /\ k - 1 = n
          BY <3>1
        <4>. QED
          BY <3>1, <4>1, Zenon
      <3>2. CASE k = 0
        BY <2>1, <3>2 DEF IdsUpTo
      <3>3. CASE k \in 1 .. n
        <4>1. /\ k # n + 1 /\ k # 0 /\ k \in 0 .. n
              /\ k - 1 \in 0 .. n + 1 /\ k - 1 # n + 1
          BY <3>3
        <4>2. f[k] = IF k \in at THEN Append(f[k - 1], events[k].id) ELSE f[k - 1]
          BY <2>1, <4>1, Zenon DEF IdsUpTo
        <4>3. g[k] = f[k] /\ g[k - 1] = f[k - 1]
          BY <4>1, Zenon
        <4>. QED
          BY <4>1, <4>2, <4>3, Zenon
      <3>. QED
        BY <3>1, <3>2, <3>3
    <2>3. g = h
      <3>. HIDE DEF last
      <3>. QED
        BY <2>2, Zenon
    <2>4. IdsUpTo(g, events, at, n + 1)
      BY <2>3, Zenon DEF IdsUpTo
    <2>. QED
      BY <2>4
  <1>3. \A n \in Nat : n \in S
    <2>. HIDE DEF S
    <2>. QED
      BY <1>1, <1>2, Induction
  <1>. QED
    BY <1>3

LEMMA IdsAtIs ==
  ASSUME NEW events \in Seq(Events), NEW at
  PROVE  /\ IdsAt(events, at)[0] = <<>>
         /\ \A n \in 1 .. Len(events) :
              IdsAt(events, at)[n] = IF n \in at THEN Append(IdsAt(events, at)[n - 1], events[n].id)
                                     ELSE IdsAt(events, at)[n - 1]
  <1>1. IdsAt(events, at) = CHOOSE ids : IdsUpTo(ids, events, at, Len(events))
    BY Zenon DEF IdsAt, IdsUpTo
  <1>2. Len(events) \in Nat
    OBVIOUS
  <1>3. \E ids : IdsUpTo(ids, events, at, Len(events))
    BY <1>2, IdsExist
  <1>4. IdsUpTo(IdsAt(events, at), events, at, Len(events))
    BY <1>1, <1>3, Zenon
  <1>5. \A k \in 1 .. Len(events) : k \in 0 .. Len(events) /\ k # 0
    BY <1>2
  <1>6. 0 \in 0 .. Len(events)
    BY <1>2
  <1>. QED
    BY <1>4, <1>5, <1>6, Zenon DEF IdsUpTo

\* The burns and the mints among one more event.
LEMMA ScannedIds ==
  ASSUME NEW t \in Transactions, NEW n \in 1 .. Len(t.events)
  PROVE  /\ Burns(t.events)[n] = IF IsBurn(t.events[n])
                                 THEN Append(Burns(t.events)[n - 1], t.events[n].id)
                                 ELSE Burns(t.events)[n - 1]
         /\ Mints(t.events)[n] = IF IsMint(t.events[n])
                                 THEN Append(Mints(t.events)[n - 1], t.events[n].id)
                                 ELSE Mints(t.events)[n - 1]
  <1>1. t.events \in Seq(Events)
    BY TransactionFields
  <1>. DEFINE burns == {i \in 1 .. Len(t.events) : IsBurn(t.events[i])}
              mints == {i \in 1 .. Len(t.events) : IsMint(t.events[i])}
  <1>2. (n \in burns <=> IsBurn(t.events[n])) /\ (n \in mints <=> IsMint(t.events[n]))
    OBVIOUS
  <1>3. Burns(t.events) = IdsAt(t.events, burns) /\ Mints(t.events) = IdsAt(t.events, mints)
    BY DEF Burns, Mints
  <1>. HIDE DEF burns, mints
  <1>. QED
    BY <1>1, <1>2, <1>3, IdsAtIs

LEMMA NothingScanned ==
  ASSUME NEW t \in Transactions
  PROVE  Burns(t.events)[0] = <<>> /\ Mints(t.events)[0] = <<>>
  <1>1. t.events \in Seq(Events)
    BY TransactionFields
  <1>2. \A at : IdsAt(t.events, at)[0] = <<>>
    BY <1>1, IdsAtIs
  <1>. QED
    BY <1>2 DEF Burns, Mints

LastId(ids) == IF ids = <<>> THEN 0 ELSE ids[Len(ids)]

\* What the scan knows after n events.
Scanned(n) ==
  /\ Burns(tx.events)[n] \in Seq(Ids)
  /\ numBurnt = Len(Burns(tx.events)[n]) /\ nftId = LastId(Burns(tx.events)[n])
  /\ nftIdsMinted = Mints(tx.events)[n]

ReadInv ==
  /\ err # "None" => faulty
  /\ pc = "ScanEvents" => Scanned(evt - 1)
  /\ pc \in PastScan => Scanned(Len(tx.events)) /\ numBurnt = 1 /\ nftIdsMinted # <<>>
  /\ pc \in RollSteps \cup AfterRolls => info = world.info /\ ~HasZeroItem(info)

LEMMA ReadScanEvent == TypeInv /\ ReadInv /\ ScanEvent => ReadInv'
  <1>. SUFFICES ASSUME TypeInv, ReadInv, ScanEvent, UseEvent(tx.events[evt]), UNCHANGED pc
                PROVE ReadInv'
    BY ScanTurn
    DEF ScanEvent, ReadInv, PastScan, PastBag, PastDecode, PastRandom, PastSecret, PastTxSeed,
        PastSeeds, RollSteps, AfterRolls
  <1>. DEFINE e == tx.events[evt]
              n == evt - 1
              b == Burns(tx.events)[n]
  <1>1. /\ pc = "ScanEvents" /\ UNCHANGED <<pc, tx, err, faulty>>
        /\ tx \in Transactions /\ evt \in 1 .. Len(tx.events)
        /\ evt' - 1 = evt
    <2>1. /\ tx \in Transactions /\ evt \in 1 .. Len(tx.events) + 1 /\ evt <= Len(tx.events)
          /\ pc = "ScanEvents" /\ UNCHANGED <<pc, tx, err, faulty>> /\ evt' = evt + 1
      BY DEF TypeInv, TypeOK, ScanEvent, UseEvent
    <2>2. Len(tx.events) \in Nat
      BY <2>1, TransactionFields
    <2>. QED
      BY <2>1, <2>2
  <1>2. /\ b \in Seq(Ids) /\ numBurnt = Len(b) /\ nftId = LastId(b)
        /\ nftIdsMinted = Mints(tx.events)[n]
    BY <1>1 DEF ReadInv, Scanned
  <1>3. /\ numBurnt' = IF IsBurn(e) THEN numBurnt + 1 ELSE numBurnt
        /\ nftId' = IF IsBurn(e) THEN e.id ELSE nftId
        /\ nftIdsMinted' = IF IsMint(e) THEN Append(nftIdsMinted, e.id) ELSE nftIdsMinted
    BY DEF UseEvent
  <1>4. /\ Burns(tx.events)[evt] = IF IsBurn(e) THEN Append(b, e.id) ELSE b
        /\ Mints(tx.events)[evt] = IF IsMint(e) THEN Append(Mints(tx.events)[n], e.id) ELSE Mints(tx.events)[n]
    BY <1>1, ScannedIds
  <1>5. e.id \in Ids
    BY <1>1, TransactionFields
  <1>. HIDE DEF b, e, n
  <1>6. /\ Append(b, e.id) \in Seq(Ids) /\ Len(Append(b, e.id)) = Len(b) + 1
        /\ Append(b, e.id) # <<>> /\ Append(b, e.id)[Len(b) + 1] = e.id
    BY <1>2, <1>5
  <1>7. /\ Burns(tx'.events)[evt' - 1] = Burns(tx.events)[evt]
        /\ Mints(tx'.events)[evt' - 1] = Mints(tx.events)[evt]
    BY <1>1
  <1>8. /\ Burns(tx.events)[evt] \in Seq(Ids)
        /\ numBurnt' = Len(Burns(tx.events)[evt]) /\ nftId' = LastId(Burns(tx.events)[evt])
    BY <1>2, <1>3, <1>4, <1>6 DEF LastId
  <1>9. Scanned(evt - 1)'
    BY <1>2, <1>3, <1>4, <1>7, <1>8 DEF Scanned
  <1>. QED
    BY <1>1, <1>9
    DEF ReadInv, PastScan, PastBag, PastDecode, PastRandom, PastSecret, PastTxSeed, PastSeeds,
        RollSteps, AfterRolls

LEMMA ReadStep == TypeInv /\ ReadInv /\ [Next]_vars => ReadInv'
  <1>. SUFFICES ASSUME TypeInv, ReadInv, [Next]_vars PROVE ReadInv'
    OBVIOUS
  <1>. USE DEF PastScan, PastBag, PastDecode, PastRandom, PastSecret, PastTxSeed, PastSeeds,
               RollSteps, AfterRolls
  <1>1. (err # "None" => faulty) /\ TypeInv'
    BY TypeStep DEF ReadInv
  <1>2. CASE GetTransaction
    <2>1. pc' \in {"ScanEvents", "Done"} /\ (err' # "None" => faulty')
      BY <1>1, <1>2 DEF GetTransaction, Fault, Ledger, Goto, Die, Return
    <2>2. tx' \in Transactions
      BY <1>1 DEF TypeInv, TypeOK
    <2>3. evt' - 1 = 0 /\ numBurnt' = 0 /\ nftId' = 0 /\ nftIdsMinted' = <<>>
      BY <1>2 DEF GetTransaction, TypeInv, scanVars
    <2>4. Burns(tx'.events)[0] = <<>> /\ Mints(tx'.events)[0] = <<>>
      BY <2>2, NothingScanned
    <2>5. <<>> \in Seq(Ids) /\ Len(<<>>) = 0 /\ LastId(<<>>) = 0
      BY DEF LastId
    <2>6. /\ Burns(tx'.events)[evt' - 1] = <<>> /\ Mints(tx'.events)[evt' - 1] = <<>>
      BY <2>3, <2>4, Zenon
    <2>7. Scanned(evt - 1)'
      BY <2>3, <2>5, <2>6, Zenon DEF Scanned
    <2>. QED
      BY <2>1, <2>7 DEF ReadInv
  <1>3. CASE ScanEvent
    BY <1>3, ReadScanEvent
  <1>4. CASE EndScan
    <2>1. /\ pc = "ScanEvents" /\ UNCHANGED <<err, faulty, tx, numBurnt, nftId, nftIdsMinted>>
          /\ pc' \in {"GetBag", "Done"} /\ evt > Len(tx.events)
          /\ pc' = "GetBag" => nftId # 0 /\ nftIdsMinted # <<>> /\ numBurnt <= 1
      BY <1>4 DEF EndScan, Check, Goto, Return, txVars, scanVars
    <2>2. evt - 1 = Len(tx.events)
      <3>1. tx \in Transactions /\ evt \in 1 .. Len(tx.events) + 1
        BY DEF TypeInv, TypeOK
      <3>. QED
        BY <2>1, <3>1, TransactionFields
    <2>3. Scanned(Len(tx.events))
      BY <2>1, <2>2 DEF ReadInv
    <2>4. Scanned(Len(tx.events))'
      BY <2>1, <2>3 DEF Scanned
    <2>5. pc' = "GetBag" => numBurnt = 1
      <3>1. nftId # 0 => Burns(tx.events)[Len(tx.events)] # <<>>
        BY <2>3 DEF Scanned, LastId
      <3>2. nftId # 0 => numBurnt \in Nat \ {0}
        BY <2>3, <3>1 DEF Scanned
      <3>. QED
        BY <2>1, <3>2
    <2>. QED
      BY <1>1, <2>1, <2>4, <2>5 DEF ReadInv
  <1>5. CASE pc \in PastScan
    <2>1. /\ UNCHANGED <<tx, numBurnt, nftId, nftIdsMinted>>
          /\ pc' \in PastScan \cup {"Done"} /\ (err' # "None" => faulty')
      BY <1>1, <1>5, MintedTurn
      DEF Next, Exit, Audit, GetTransaction, ScanEvent, EndScan, GetBag, DecodeBag, CheckRam,
        CheckRandomSeed, CheckCrateSecret, CheckTxSeed, CheckFinalSeed, GetPartInfo, BeginRoll,
        SumWeights, DrawGroup, SelectGroup, UseGroup, DrawItem, GetMinted, Compare, Ledger, Fault,
        RandomIndex, NextRoll, Check, Goto, Return, Die, vars, envVars, txVars, scanVars
    <2>2. Scanned(Len(tx.events)) /\ numBurnt = 1 /\ nftIdsMinted # <<>>
      BY <1>5 DEF ReadInv
    <2>3. Scanned(Len(tx.events))' /\ numBurnt' = 1 /\ nftIdsMinted' # <<>>
      BY <2>1, <2>2 DEF Scanned
    <2>4. pc' \in RollSteps \cup AfterRolls => info' = world'.info /\ ~HasZeroItem(info')
      <3>1. CASE GetPartInfo
        BY <3>1 DEF GetPartInfo, Ledger, Goto, Return, Die, envVars
      <3>2. CASE ~GetPartInfo
        <4>1. UNCHANGED <<world, info>> /\ (pc' \in RollSteps \cup AfterRolls => pc \in RollSteps \cup AfterRolls)
          BY <1>5, <3>2, MintedTurn
          DEF Next, Exit, Audit, GetTransaction, ScanEvent, EndScan, GetBag, DecodeBag, CheckRam,
            CheckRandomSeed, CheckCrateSecret, CheckTxSeed, CheckFinalSeed, BeginRoll,
            SumWeights, DrawGroup, SelectGroup, UseGroup, DrawItem, GetMinted, Compare,
            RandomIndex, NextRoll, Check, Goto, Return, Die, vars, envVars
        <4>. QED
          BY <4>1 DEF ReadInv
      <3>. QED
        BY <3>1, <3>2
    <2>. QED
      BY <2>1, <2>3, <2>4 DEF ReadInv
  <1>6. CASE UNCHANGED vars
    BY <1>6 DEF ReadInv, Scanned, vars, envVars, txVars, scanVars
  <1>7. pc \in PastScan \cup {"GetTransaction", "ScanEvents", "Done"}
    BY DEF TypeInv, TypeOK, Steps
  <1>8. GetTransaction \/ ScanEvent \/ EndScan \/ UNCHANGED vars \/ pc \in PastScan
    BY <1>7 DEF Next, Exit, Audit, GetBag, DecodeBag, CheckRam, CheckRandomSeed, CheckCrateSecret,
        CheckTxSeed, CheckFinalSeed, GetPartInfo, BeginRoll, SumWeights, DrawGroup, SelectGroup,
        UseGroup, DrawItem, GetMinted, Compare
  <1>. QED
    BY <1>2, <1>3, <1>4, <1>5, <1>6, <1>8

LEMMA ReadInit == Init => ReadInv
  BY DEF Init, ReadInv, PastScan, PastBag, PastDecode, PastRandom, PastSecret, PastTxSeed, PastSeeds,
         RollSteps, AfterRolls
-----------------------------------------------------------------------------
\* The contract states its terms over a copy of the vocabulary: each of them means the same.
LEMMA SameBag ==
  ASSUME NEW w
  PROVE  /\ Contract!Burnt(w) = Burnt(w) /\ Contract!Minted(w) = Minted(w)
         /\ Contract!BagId(w) = BagId(w) /\ Contract!Bag(w) = Bag(w)
  <1>1. ASSUME NEW events
        PROVE  Contract!Burns(events) = Burns(events) /\ Contract!Mints(events) = Mints(events)
    BY Zenon DEF Contract!Burns, Burns, Contract!Mints, Mints, Contract!IdsAt, IdsAt,
                 Contract!IsBurn, IsBurn, Contract!IsMint, IsMint
  <1>2. Contract!Burnt(w) = Burnt(w) /\ Contract!Minted(w) = Minted(w)
    BY <1>1 DEF Contract!Burnt, Burnt, Contract!Minted, Minted
  <1>3. Contract!BagId(w) = BagId(w)
    BY <1>2 DEF Contract!BagId, BagId
  <1>. QED
    BY <1>2, <1>3 DEF Contract!Bag, Bag

LEMMA SameSums ==
  ASSUME NEW weights
  PROVE  /\ Contract!Cumulative(weights) = Cumulative(weights)
         /\ Contract!TotalWeight(weights) = TotalWeight(weights)
  BY Zenon DEF Contract!Cumulative, Cumulative, Contract!TotalWeight, TotalWeight

LEMMA SameRoll ==
  ASSUME NEW opened, NEW w, NEW groups
  PROVE  Contract!OpenRoll(opened, w, groups) = OpenRoll(opened, w, groups)
  <1>1. ASSUME NEW s, NEW count PROVE Contract!Bounded(s, count) = Bounded(s, count)
    <2>1. Contract!FirstKept(count) = FirstKept(count)
      BY Zenon DEF Contract!FirstKept, FirstKept, Contract!EndValid, EndValid, Contract!Words, Words
    <2>. QED
      BY <2>1 DEF Contract!Bounded, Bounded
  <1>2. ASSUME NEW x PROVE Contract!SelectedGroup(w, x) = SelectedGroup(w, x)
    <2>1. Contract!GroupsAbove(w, x) = GroupsAbove(w, x)
      BY SameSums DEF Contract!GroupsAbove, GroupsAbove
    <2>. QED
      BY <2>1 DEF Contract!SelectedGroup, SelectedGroup
  <1>. DEFINE number  == Bounded(opened.state, TotalWeight(w))
              chosen  == groups[SelectedGroup(w, number.index)]
              numberC == Contract!Bounded(opened.state, Contract!TotalWeight(w))
              chosenC == groups[Contract!SelectedGroup(w, numberC.index)]
  <1>3. numberC = number
    BY <1>1, SameSums
  <1>4. chosenC = chosen
    BY <1>2, <1>3
  <1>5. Contract!Bounded(numberC.state, Len(chosenC)) = Bounded(number.state, Len(chosen))
    BY <1>1, <1>3, <1>4
  <1>. QED
    BY <1>3, <1>4, <1>5, Zenon DEF Contract!OpenRoll, OpenRoll

LEMMA SameTerms ==
  ASSUME NEW w
  PROVE  /\ Contract!IsOpening(w) = IsOpening(w) /\ Contract!OneBag(w) = OneBag(w)
         /\ Contract!BagIsCrate(w) = BagIsCrate(w) /\ Contract!Bag(w) = Bag(w)
         /\ Contract!WellFormed(w.info) = WellFormed(w.info)
         /\ Contract!MintsDecode(w) = MintsDecode(w)
         /\ Contract!Unreadable(w) = Unreadable(w)
         /\ Contract!CommitmentsKept(w) = CommitmentsKept(w)
         /\ Contract!RollsKept(w) = RollsKept(w)
  <1>1. /\ Contract!IsOpening(w) = IsOpening(w) /\ Contract!OneBag(w) = OneBag(w)
        /\ Contract!BagIsCrate(w) = BagIsCrate(w) /\ Contract!Bag(w) = Bag(w)
    BY SameBag, Zenon DEF Contract!IsOpening, IsOpening, Contract!OneBag, OneBag,
                          Contract!BagIsCrate, BagIsCrate
  <1>2. Contract!WellFormed(w.info) = WellFormed(w.info)
    BY SameSums, Zenon DEF Contract!WellFormed, WellFormed
  <1>3. Contract!MintsDecode(w) = MintsDecode(w)
    BY SameBag DEF Contract!MintsDecode, MintsDecode, Contract!ItemTypes, ItemTypes
  <1>4. Contract!CommitmentsKept(w) = CommitmentsKept(w)
    BY SameBag DEF Contract!CommitmentsKept, CommitmentsKept, Contract!SeedsKept, SeedsKept,
      Contract!ParseHash, ParseHash, Contract!FinalSeedOf, FinalSeedOf,
      Contract!SecretSeedOf, SecretSeedOf
  <1>5. Contract!RollsKept(w) = RollsKept(w)
    <2>1. Contract!MintedItems(w) = MintedItems(w)
      BY SameBag DEF Contract!MintedItems, MintedItems
    <2>2. ASSUME NEW seed, NEW i PROVE Contract!OpenedItems(seed, i) = OpenedItems(seed, i)
      BY SameRoll, Zenon DEF Contract!OpenedItems, OpenedItems, Contract!Opened, Opened
    <2>. QED
      BY <2>1, <2>2, SameBag DEF Contract!RollsKept, RollsKept
  <1>6. Contract!Unreadable(w) = Unreadable(w)
    BY SameBag DEF Contract!Unreadable, Unreadable, Contract!HoldsToken, HoldsToken
  <1>. QED
    BY <1>1, <1>2, <1>3, <1>4, <1>5, <1>6
-----------------------------------------------------------------------------
\* What justifies each verdict, in the terms of the audit.
LEMMA Justifications ==
  ASSUME NEW failed \in BOOLEAN
  PROVE  /\ failed => \A v \in {"Unsuitable", "Indeterminate", "Error", "Crash"} :
                        Contract!Justified(v, failed)
         /\ ~IsOpening(world) \/ ~BagIsCrate(world) => Contract!Justified("Unsuitable", failed)
         /\ \/ ~OneBag(world) \/ ~Bag(world).ram.long
            \/ ~WellFormed(world.info) \/ ~MintsDecode(world)
            => Contract!Justified("Error", failed)
         /\ ~WellFormed(world.info) \/ Unreadable(world)
            => Contract!Justified("Crash", failed)
         /\ IsOpening(world) /\ OneBag(world) /\ BagIsCrate(world) =>
              /\ ~CommitmentsKept(world) => Contract!Justified("Mismatch", failed)
              /\ CommitmentsKept(world) /\ Contract!StrayGroup =>
                   Contract!Justified("Match", failed) /\ Contract!Justified("Mismatch", failed)
              /\ CommitmentsKept(world) /\ WellFormed(world.info) =>
                   Contract!Justified(IF RollsKept(world) THEN "Match" ELSE "Mismatch", failed)
  BY SameTerms DEF Contract!Justified, Contract!Auditable, Contract!Unsupported

AuditInv == TypeInv /\ RollInv /\ OddsInv /\ LedgerInv /\ ReadInv

\* The scan's results are those of the ledger, unless a reply failed.
LEMMA ScannedWorld ==
  ASSUME Scanned(Len(tx.events)), tx = world.tx
  PROVE  /\ Burnt(world) \in Seq(Ids) /\ numBurnt = Len(Burnt(world))
         /\ nftId = BagId(world) /\ nftIdsMinted = Minted(world)
  BY DEF Scanned, Burnt, Minted, BagId, LastId

\* Once the bag has arrived, what the audit holds is what the world says.
LEMMA BagFacts ==
  ASSUME AuditInv, pc \in PastBag
  PROVE  /\ tx = world.tx /\ bag = Bag(world) /\ nftIdsMinted = Minted(world)
         /\ IsOpening(world) /\ OneBag(world)
         /\ pc \in PastDecode => BagIsCrate(world)
         /\ pc \in PastSeeds => CommitmentsKept(world)
         /\ pc \in RollSteps \cup AfterRolls => info = world.info /\ info \in PartInfos
  <1>1. pc \in PastScan
    BY DEF PastScan
  <1>2. tx = world.tx /\ bag = world.tokens[nftId] /\ nftId # 0
    BY <1>1 DEF AuditInv, LedgerInv, CheckInv, ScanInv
  <1>3. Scanned(Len(tx.events)) /\ numBurnt = 1 /\ nftIdsMinted # <<>>
    BY <1>1 DEF AuditInv, ReadInv
  <1>4. numBurnt = Len(Burnt(world)) /\ nftId = BagId(world) /\ nftIdsMinted = Minted(world)
    BY <1>2, <1>3, ScannedWorld
  <1>5. bag = Bag(world)
    BY <1>2, <1>4 DEF Bag
  <1>6. IsOpening(world) /\ OneBag(world)
    BY <1>2, <1>3, <1>4 DEF IsOpening, OneBag
  <1>7. pc \in PastDecode => BagIsCrate(world)
    BY <1>5 DEF BagIsCrate, AuditInv, LedgerInv, CheckInv
  <1>8. pc \in PastSeeds => CommitmentsKept(world)
    <2>1. pc \in PastSeeds => SeedsKept(bag, tx.payload)
      BY DEF SeedsKept, AuditInv, LedgerInv, CheckInv, PastTxSeed, PastSecret, PastRandom
    <2>. QED
      BY <1>2, <1>5, <2>1 DEF CommitmentsKept
  <1>9. pc \in RollSteps \cup AfterRolls => info = world.info /\ info \in PartInfos
    BY DEF AuditInv, ReadInv, TypeInv, TypeOK
  <1>. QED
    BY <1>2, <1>4, <1>5, <1>6, <1>7, <1>8, <1>9

\* An early return is one of the verdicts that the world or a failed reply justifies.
LEMMA ReturnBeforeBag ==
  ASSUME AuditInv, GetTransaction \/ ScanEvent \/ EndScan \/ GetBag, verdict' # "Pending"
  PROVE  Contract!Justified(verdict', faulty')
  <1>1. faulty' \in BOOLEAN
    BY TypeStep DEF AuditInv, TypeInv, TypeOK, Next, Audit
  <1>2. CASE GetTransaction
    BY <1>1, <1>2, Justifications
    DEF GetTransaction, Goto, Die, Return, AuditInv, TypeInv, TypeOK
  <1>3. CASE GetBag
    <2>1. verdict' \in {"Indeterminate", "Crash"} /\ faulty'
      BY <1>3 DEF GetBag, Fault, Ledger, Goto, Die, Return, AuditInv, ReadInv, TypeInv, TypeOK
    <2>. QED
      BY <1>1, <2>1, Justifications
  <1>4. CASE EndScan
    <2>1. /\ pc = "ScanEvents" /\ verdict = "Pending" /\ faulty' = faulty
          /\ evt > Len(tx.events) /\ evt \in 1 .. Len(tx.events) + 1 /\ tx \in Transactions
          /\ \/ (nftId = 0 \/ nftIdsMinted = <<>>) /\ verdict' = "Unsuitable"
             \/ ~(numBurnt <= 1) /\ verdict' = "Error"
      BY <1>4 DEF EndScan, Check, Goto, Return, AuditInv, TypeInv, TypeOK
    <2>2. CASE faulty
      BY <1>1, <2>1, <2>2, Justifications
    <2>3. CASE ~faulty
      <3>1. tx = world.tx
        BY <2>1, <2>3 DEF AuditInv, ReadInv, LedgerInv, ScanInv
      <3>2. Scanned(Len(tx.events))
        <4>1. evt - 1 = Len(tx.events)
          BY <2>1, TransactionFields
        <4>. QED
          BY <2>1, <4>1 DEF AuditInv, ReadInv
      <3>3. /\ numBurnt = Len(Burnt(world)) /\ nftId = BagId(world) /\ nftIdsMinted = Minted(world)
        BY <3>1, <3>2, ScannedWorld
      <3>4. CASE (nftId = 0 \/ nftIdsMinted = <<>>) /\ verdict' = "Unsuitable"
        BY <1>1, <3>3, <3>4, Justifications DEF IsOpening
      <3>5. CASE ~(numBurnt <= 1) /\ verdict' = "Error"
        BY <1>1, <3>3, <3>5, Justifications DEF OneBag
      <3>. QED
        BY <2>1, <3>4, <3>5
    <2>. QED
      BY <1>1, <2>2, <2>3 DEF AuditInv, TypeInv, TypeOK
  <1>5. CASE ScanEvent
    <2>1. verdict' = "Crash" /\ Fatal(tx.events[evt]) /\ faulty' = faulty /\ pc = "ScanEvents"
          /\ tx \in Transactions /\ evt \in 1 .. Len(tx.events) + 1 /\ evt <= Len(tx.events)
      BY <1>5, ScanTurn DEF ScanEvent, AuditInv, TypeInv, TypeOK
    <2>2. evt \in 1 .. Len(tx.events)
      BY <2>1, TransactionFields
    <2>3. faulty' \/ tx = world.tx
      BY <2>1 DEF AuditInv, ReadInv, LedgerInv, ScanInv
    <2>4. tx = world.tx => Unreadable(world)
      BY <2>1, <2>2 DEF Unreadable, Fatal
    <2>. QED
      BY <1>1, <2>1, <2>3, <2>4, Justifications
  <1>. QED
    BY <1>2, <1>3, <1>4, <1>5

\* A check that fails shows what is wrong with the bag, whatever the replies.
LEMMA ReturnFromChecks ==
  ASSUME AuditInv, verdict' # "Pending",
         DecodeBag \/ CheckRam \/ CheckRandomSeed \/ CheckCrateSecret \/ CheckTxSeed \/ CheckFinalSeed
  PROVE  Contract!Justified(verdict', faulty')
  <1>1. /\ pc \in PastBag /\ verdict = "Pending" /\ faulty' \in BOOLEAN
        /\ pc # "DecodeBag" => pc \in PastDecode
    BY DEF DecodeBag, CheckRam, CheckRandomSeed, CheckCrateSecret, CheckTxSeed, CheckFinalSeed,
      AuditInv, TypeInv, TypeOK, PastBag, PastDecode, PastRandom, PastSecret, PastTxSeed
  <1>2. /\ tx = world.tx /\ bag = Bag(world) /\ IsOpening(world) /\ OneBag(world)
        /\ pc # "DecodeBag" => BagIsCrate(world)
    BY <1>1, BagFacts
  <1>3. \/ (bag.rom.raises \/ bag.ram.raises) /\ verdict' = "Crash"
        \/ bag.rom.type # "Crate" /\ verdict' = "Unsuitable"
        \/ ~bag.ram.long /\ verdict' = "Error"
        \/ tx.payload = Unparsable /\ verdict' = "Crash"
        \/ pc # "DecodeBag" /\ ~SeedsKept(bag, tx.payload) /\ verdict' = "Mismatch"
    BY <1>1 DEF DecodeBag, CheckRam, CheckRandomSeed, CheckCrateSecret, CheckTxSeed, CheckFinalSeed,
                Check, Goto, Return, Die, SeedsKept
  <1>4. ~SeedsKept(bag, tx.payload) => ~CommitmentsKept(world)
    BY <1>2 DEF CommitmentsKept
  <1>. QED
    BY <1>1, <1>2, <1>3, <1>4, Justifications DEF BagIsCrate, Unreadable

\* The rolls stop only on a failed reply or on odds that are not well formed.
LEMMA ReturnFromRolls ==
  ASSUME AuditInv, verdict' # "Pending",
         GetPartInfo \/ BeginRoll \/ SumWeights \/ DrawGroup \/ SelectGroup \/ UseGroup \/ DrawItem
  PROVE  Contract!Justified(verdict', faulty')
  <1>1. verdict = "Pending" /\ faulty' \in BOOLEAN
    <2>1. faulty' \in BOOLEAN
      BY TypeStep DEF AuditInv, TypeInv, TypeOK, Next, Audit
    <2>. QED
      BY <2>1 DEF GetPartInfo, BeginRoll, SumWeights, DrawGroup, SelectGroup, UseGroup, DrawItem,
                  AuditInv, TypeInv, TypeOK
  <1>2. verdict' \in {"Error", "Crash", "Indeterminate"}
    BY <1>1 DEF GetPartInfo, BeginRoll, SumWeights, DrawGroup, SelectGroup, UseGroup, DrawItem,
                Check, NextRoll, Goto, Return, Die
  <1>3. CASE GetPartInfo
    <2>1. faulty' \/ (HasZeroItem(world.info) /\ verdict' = "Error")
      BY <1>1, <1>3 DEF GetPartInfo, Goto, Return, Die
    <2>2. HasZeroItem(world.info) => ~WellFormed(world.info)
      BY DEF HasZeroItem, WellFormed
    <2>. QED
      BY <1>1, <1>2, <2>1, <2>2, Justifications
  <1>4. CASE SumWeights \/ SelectGroup \/ UseGroup
    <2>1. pc \in InRoll /\ pc \in RollSteps /\ pc \in PastBag /\ verdict' # "Indeterminate"
      BY <1>1, <1>4 DEF SumWeights, SelectGroup, UseGroup, Check, NextRoll, Goto, Return, Die, InRoll,
        RollSteps, PastBag, PastDecode, PastRandom, PastSecret, PastTxSeed, PastSeeds
    <2>2. info = world.info /\ info \in PartInfos
      BY <2>1, BagFacts
    <2>3. /\ roll <= Len(info.rolls) /\ j \in Nat \ {0} /\ groupIndex \in Nat
      BY <2>1 DEF AuditInv, TypeInv, TypeOK
    <2>4. /\ roll \in 1 .. Len(info.rolls) /\ Len(Weights) \in Nat /\ Len(info.groups) \in Nat
      BY <2>2, <2>3, RollWeights, InfoFields DEF AuditInv
    <2>5. WellFormed(info) => TotalWeight(Weights) > 0 /\ Len(Weights) <= Len(info.groups)
      BY <2>4 DEF WellFormed, Weights
    <2>6. ASSUME SumWeights PROVE ~WellFormed(info)
      <3>1. /\ sum = 0 /\ pc = "SumWeights" /\ j > Len(Weights)
        BY <1>1, <2>6 DEF SumWeights, Goto, Return, Die
      <3>2. /\ j <= Len(Weights) + 1 /\ sum = Cumulative(Weights)[j - 1]
        BY <3>1 DEF AuditInv, RollInv
      <3>3. j - 1 = Len(Weights)
        BY <2>3, <2>4, <3>1, <3>2
      <3>4. TotalWeight(Weights) = 0
        BY <3>1, <3>2, <3>3 DEF TotalWeight
      <3>. QED
        BY <2>5, <3>4
    <2>7. ASSUME SelectGroup PROVE ~WellFormed(info)
      <3>1. pc = "SelectGroup"
        BY <2>7 DEF SelectGroup
      <3>2. j <= Len(Weights)
        BY <3>1, GroupFound DEF AuditInv, SomeGroupSelected
      <3>3. ~GroupInRange(j)
        BY <1>1, <2>3, <2>4, <2>7, <3>2 DEF SelectGroup, Check, Goto, Return
      <3>4. j > Len(info.groups)
        BY <2>3, <2>4, <3>3 DEF GroupInRange
      <3>5. Len(Weights) > Len(info.groups)
        BY <2>3, <2>4, <3>2, <3>4
      <3>. QED
        BY <2>4, <2>5, <3>5
    <2>8. ASSUME UseGroup PROVE ~WellFormed(info)
      <3>1. groupIndex > Len(info.groups) /\ groupIndex <= Len(Weights)
        BY <1>1, <2>4, <2>8 DEF UseGroup, NextRoll, Goto, Return, Die, AuditInv, RollInv
      <3>. QED
        BY <2>3, <2>4, <2>5, <3>1
    <2>9. ~WellFormed(world.info)
      BY <1>4, <2>2, <2>6, <2>7, <2>8
    <2>. QED
      BY <1>1, <1>2, <2>1, <2>9, Justifications
  <1>5. CASE BeginRoll \/ DrawGroup \/ DrawItem
    BY <1>1, <1>5 DEF BeginRoll, DrawGroup, DrawItem, Goto
  <1>. QED
    BY <1>3, <1>4, <1>5

\* A minted token that was not used did not decode, or raised, or a reply failed.
LEMMA ReturnFromMinted ==
  ASSUME AuditInv, GetMinted, verdict' # "Pending"
  PROVE  Contract!Justified(verdict', faulty')
  <1>1. /\ pc = "GetMinted" /\ verdict = "Pending" /\ faulty' \in BOOLEAN /\ faulty \in BOOLEAN
        /\ nftIdsMinted \in Seq(Ids) /\ itemsMinted \in Seq(Words)
    <2>1. faulty' \in BOOLEAN
      BY TypeStep DEF AuditInv, TypeInv, TypeOK, Next, Audit
    <2>. QED
      BY <2>1 DEF GetMinted, AuditInv, TypeInv, TypeOK
  <1>2. verdict' \in {"Error", "Crash"} /\ Len(itemsMinted) <= Len(nftIdsMinted)
    BY <1>1, MintedTurn DEF AuditInv, TypeInv, TypeOK
  <1>. DEFINE Undecoded == \/ ~Decodes(NextMinted) /\ verdict' = "Error"
                           \/ NextMinted.rom.raises /\ verdict' = "Crash"
  <1>3. faulty' \/ (Len(itemsMinted) < Len(nftIdsMinted) /\ Undecoded)
    BY <1>1 DEF GetMinted, UseMinted, DecodeMinted, Ledger, Fault, Goto, Return, Die, AuditInv, ReadInv
  <1>4. CASE Len(itemsMinted) < Len(nftIdsMinted) /\ Undecoded
    <2>1. nftIdsMinted = Minted(world)
      BY <1>1, BagFacts DEF AfterRolls, PastBag, PastDecode, PastRandom, PastSecret, PastTxSeed, PastSeeds
    <2>2. Len(itemsMinted) + 1 \in 1 .. Len(nftIdsMinted)
      BY <1>1, <1>4
    <2>3. ~Decodes(NextMinted) => ~MintsDecode(world)
      BY <2>1, <2>2 DEF MintsDecode, Decodes, NextMinted
    <2>4. NextMinted.rom.raises => Unreadable(world)
      BY <2>1, <2>2 DEF Unreadable, NextMinted
    <2>. QED
      BY <1>1, <1>4, <2>3, <2>4, Justifications
  <1>. QED
    BY <1>1, <1>2, <1>3, <1>4, Justifications

\* The comparison decides whether the rolls were kept, wherever the odds have a meaning.
LEMMA Comparison ==
  ASSUME AuditInv, Compare
  PROVE  Contract!Justified(verdict', faulty')
  <1>1. pc = "Compare" /\ faulty' \in BOOLEAN
        /\ verdict' = IF itemsMinted = itemsProduced THEN "Match" ELSE "Mismatch"
    BY DEF Compare, Return, AuditInv, TypeInv, TypeOK
  <1>2. /\ bag = Bag(world) /\ nftIdsMinted = Minted(world)
        /\ IsOpening(world) /\ OneBag(world) /\ BagIsCrate(world) /\ CommitmentsKept(world)
        /\ info = world.info /\ info \in PartInfos
    <2>1. pc \in AfterRolls /\ pc \in PastSeeds /\ pc \in PastDecode /\ pc \in PastBag
      BY <1>1 DEF AfterRolls, PastBag, PastDecode, PastRandom, PastSecret, PastTxSeed, PastSeeds
    <2>. QED
      BY <2>1, BagFacts
  <1>3. itemsMinted = MintedItems(world)
    BY <1>1, <1>2, MintedList DEF MintedItems, AuditInv, LedgerInv
  <1>4. roll = Len(info.rolls) + 1 /\ roll - 1 = Len(info.rolls)
    BY <1>1, <1>2, InfoFields DEF AuditInv, RollInv, AfterRolls
  <1>5. WellFormed(info) => itemsProduced = OpenedItems(bag.ram.finalSeed, info)
    <2>1. WellFormed(info) => Before = [items |-> itemsProduced, state |-> Before.state]
      BY <1>1 DEF AuditInv, OddsInv, AfterRolls
    <2>2. OpenedItems(bag.ram.finalSeed, info) = Before.items
      BY <1>4 DEF OpenedItems, Before, Odds
    <2>. QED
      BY <2>1, <2>2
  <1>6. Contract!StrayGroup \/ WellFormed(info)
    <2>1. \A n \in 1 .. Len(info.rolls) : TotalWeight(info.rolls[n]) > 0
      BY <1>4 DEF AuditInv, RollInv
    <2>2. \A n \in 1 .. Len(info.rolls) : Len(info.rolls[n]) \in Nat /\ Len(info.groups) \in Nat
      BY <1>2, InfoFields
    <2>3. ~HasZeroItem(info)
      BY <1>1 DEF AuditInv, ReadInv, AfterRolls
    <2>. QED
      BY <1>2, <2>1, <2>2, <2>3 DEF WellFormed, HasZeroItem, Contract!StrayGroup
  <1>7. WellFormed(info) => (RollsKept(world) <=> itemsMinted = itemsProduced)
    BY <1>2, <1>3, <1>5 DEF RollsKept
  <1>. QED
    BY <1>1, <1>2, <1>6, <1>7, Justifications

LEMMA ContractStep == AuditInv /\ [Next]_vars => [Contract!Next]_(Contract!contractVars)
  <1>. SUFFICES ASSUME AuditInv, [Next]_vars PROVE [Contract!Next]_(Contract!contractVars)
    OBVIOUS
  <1>1. CASE Audit
    <2>1. world' = world /\ verdict = "Pending"
      BY <1>1 DEF Audit, GetTransaction, ScanEvent, EndScan, GetBag, DecodeBag, CheckRam,
        CheckRandomSeed, CheckCrateSecret, CheckTxSeed, CheckFinalSeed, GetPartInfo, BeginRoll,
        SumWeights, DrawGroup, SelectGroup, UseGroup, DrawItem, GetMinted, Compare,
        envVars, AuditInv, TypeInv, TypeOK
    <2>2. faulty' \in {faulty, TRUE}
      BY <1>1 DEF Audit, GetTransaction, ScanEvent, EndScan, GetBag, DecodeBag, CheckRam,
        CheckRandomSeed, CheckCrateSecret, CheckTxSeed, CheckFinalSeed, GetPartInfo, BeginRoll,
        SumWeights, DrawGroup, SelectGroup, UseGroup, DrawItem, GetMinted, Compare, Ledger, Fault
    <2>3. CASE verdict' = "Pending"
      BY <2>1, <2>2, <2>3 DEF Contract!Next, Contract!Fail, Contract!contractVars
    <2>4. CASE verdict' # "Pending"
      <3>1. verdict' \in Contract!Verdicts
        BY <1>1, <2>4, TypeStep DEF AuditInv, TypeInv, TypeOK, Next, Contract!Verdicts, Results
      <3>2. Contract!Justified(verdict', faulty')
        BY <1>1, <2>4, ReturnBeforeBag, ReturnFromChecks, ReturnFromRolls, ReturnFromMinted,
           Comparison DEF Audit
      <3>3. Contract!Decide(verdict')
        BY <2>1, <2>2, <3>2 DEF Contract!Decide
      <3>. QED
        BY <3>1, <3>3 DEF Contract!Next
    <2>. QED
      BY <2>3, <2>4
  <1>2. CASE UNCHANGED vars
    BY <1>2 DEF vars, envVars, Contract!contractVars
  <1>. QED
    BY <1>1, <1>2 DEF Next, Exit

\* The tool implements its contract, for every ledger, web site, generator and pattern of failed
\* replies: it gives one verdict, a Mismatch or a Match only on what the ledger and the odds
\* say, and a failure of its own never as a Mismatch (ImplementsContract; Audit.h:12-235).
THEOREM AuditImplementsContract == Spec => ImplementsContract
  <1>1. Init => Contract!Init
    <2>1. Contract!Worlds = Worlds
      BY Zenon DEF Contract!Worlds, Worlds, Contract!Transactions, Transactions, Contract!Events, Events,
        Contract!Tokens, Tokens, Contract!Roms, Roms, Contract!Rams, Rams, Contract!RomTypes, RomTypes,
        Contract!ItemTypes, ItemTypes, Contract!Words, Words, Contract!PartInfos, PartInfos
    <2>. QED
      BY <2>1, WorldsAssumption DEF Init, Contract!Init
  <1>2. Spec => []ReadInv
    BY ReadInit, ReadStep, TypeAlways, PTL DEF Spec
  <1>3. Spec => []AuditInv
    BY <1>2, TypeAlways, RollAlways, OddsAlways, LedgerAlways, PTL DEF AuditInv
  <1>. QED
    BY <1>1, <1>3, ContractStep, PTL DEF Spec, ImplementsContract, Contract!Spec
=============================================================================
