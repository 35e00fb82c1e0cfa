------------------------ MODULE BlindBagAuditProofs ------------------------
(***************************************************************************)
(* Theorems about BlindBagAudit, for every ledger, every width of a word,  *)
(* every generator and every hash function.                                *)
(***************************************************************************)
EXTENDS BlindBagAudit, WellFoundedInduction, TLAPS

USE DEF Words

\* The steps that follow each of the tool's checks.
RollSteps      == {"BeginRoll", "SumWeights", "DrawGroup", "SelectGroup", "UseGroup", "DrawItem"}
InRoll         == RollSteps \ {"BeginRoll"}
AfterRolls     == {"GetMinted", "Compare"}
BeforeRolls    == Steps \ (RollSteps \cup AfterRolls \cup {"Done"})

\* What TypeOK needs to be inductive: a roll in progress is one of info.rolls, a divisor is
\* not zero, and the variables of later phases keep their initial values.
TypeInv ==
  /\ TypeOK
  /\ pc = "GetTransaction" => /\ evt = 1 /\ numBurnt = 0 /\ nftId = 0
                              /\ nftIdsMinted = <<>> /\ err = "None"
  /\ pc \in BeforeRolls => roll = 1
  /\ pc \in BeforeRolls \cup RollSteps => itemsMinted = <<>>
  /\ pc \in InRoll => roll <= Len(info.rolls)
  /\ pc = "DrawGroup" => sum # 0
  /\ pc = "UseGroup" => groupIndex # 0
  /\ pc = "DrawItem" => group # <<>>
-----------------------------------------------------------------------------
\* The data of a world, and the empty reply, have their types.
LEMMA WorldData ==
  ASSUME world \in Worlds
  PROVE  /\ world.tx \in Transactions /\ EmptyTx \in Transactions
         /\ world.info \in PartInfos
         /\ \A i \in Ids : world.tokens[i] \in Tokens
         /\ EmptyToken \in Tokens
  <1>1. world.tx \in Transactions /\ world.info \in PartInfos
    BY DEF Worlds
  <1>2. \A i \in Ids : world.tokens[i] \in Tokens
    BY DEF Worlds
  <1>3. EmptyTx \in Transactions
    BY DEF EmptyTx, Transactions
  <1>4. world.tokens[0] \in Tokens
    BY <1>2, IdAssumption
  <1>5. world.tokens[0].rom.secretHash \in Digests /\ world.tokens[0].ram.crateSeed \in Seeds
    BY <1>4 DEF Tokens, Roms, Rams
  <1>6. (CHOOSE d \in Digests : TRUE) \in Digests /\ (CHOOSE s \in Seeds : TRUE) \in Seeds
    BY <1>5
  <1>7. 0 \in Words
    BY WordAssumption
  <1>8. EmptyToken \in Tokens
    BY <1>6, <1>7, HashAssumption DEF EmptyToken, Tokens, Roms, Rams, RomTypes
  <1>. QED
    BY <1>1, <1>2, <1>3, <1>8

\* An empty reply does not decode.
LEMMA EmptyTokenFails == ~Decodes(EmptyToken)
  BY DEF Decodes, EmptyToken, ItemTypes

\* The words of the generator are words, and a remainder is below its divisor.
LEMMA RandomWord ==
  ASSUME NEW s \in Words, NEW count \in Nat \ {0}
  PROVE  /\ RngNext[s] \in Words /\ RngOutput[s] \in Nat
         /\ RngOutput[s] % count \in 0 .. count - 1
  <1>1. RngNext[s] \in Words /\ RngOutput[s] \in Words
    BY RngAssumption
  <1>. QED
    BY <1>1, WordAssumption

\* The parts of a transaction, of a token and of a part_info have their types.
LEMMA TransactionFields ==
  ASSUME NEW t \in Transactions
  PROVE  /\ t.events \in Seq(Events)
         /\ \A i \in 1 .. Len(t.events) : t.events[i] \in Events /\ t.events[i].id \in Ids
         /\ [t EXCEPT !.payload = Unparsable] \in Transactions
         /\ [t EXCEPT !.events = <<>>] \in Transactions
  <1>1. t.events \in Seq(Events)
    BY DEF Transactions
  <1>2. \A i \in 1 .. Len(t.events) : t.events[i] \in Events
    BY <1>1
  <1>3. \A e \in Events : e.id \in Ids
    BY DEF Events
  <1>4. [t EXCEPT !.payload = Unparsable] \in Transactions
    BY DEF Transactions
  <1>5. [t EXCEPT !.events = <<>>] \in Transactions
    <2>1. <<>> \in Seq(Events)
      OBVIOUS
    <2>2. [t EXCEPT !.events = <<>>] = [events |-> <<>>, payload |-> t.payload]
      BY DEF Transactions
    <2>. QED
      BY <2>1, <2>2 DEF Transactions
  <1>. QED
    BY <1>1, <1>2, <1>3, <1>4, <1>5

\* A transaction with one event garbled is one.
LEMMA GarbledTransaction ==
  ASSUME world.tx \in Transactions, NEW i \in 1 .. Len(world.tx.events)
  PROVE  Garbled(i) \in Transactions
  <1>. DEFINE e  == [world.tx.events[i] EXCEPT !.symbol = "", !.data = "Malformed"]
              es == [world.tx.events EXCEPT ![i] = e]
  <1>1. world.tx.events \in Seq(Events) /\ world.tx.events[i] \in Events
    BY TransactionFields
  <1>2. e \in Events
    BY <1>1 DEF Events
  <1>. HIDE DEF e
  <1>3. es \in Seq(Events)
    BY <1>1, <1>2
  <1>. HIDE DEF es
  <1>4. [world.tx EXCEPT !.events = es] = [events |-> es, payload |-> world.tx.payload]
    BY DEF Transactions
  <1>5. [events |-> es, payload |-> world.tx.payload] \in Transactions
    BY <1>3 DEF Transactions
  <1>6. Garbled(i) = [world.tx EXCEPT !.events = es]
    BY Zenon DEF Garbled, es, e
  <1>. QED
    BY <1>4, <1>5, <1>6

LEMMA TokenFields ==
  ASSUME NEW t \in Tokens
  PROVE  t.ram.finalSeed \in Words /\ t.rom.itemId \in Words
  BY DEF Tokens, Roms, Rams

LEMMA InfoFields ==
  ASSUME NEW i \in PartInfos
  PROVE  /\ Len(i.rolls) \in Nat /\ Len(i.groups) \in Nat
         /\ \A n \in 1 .. Len(i.rolls) : /\ Len(i.rolls[n]) \in Nat
                                         /\ \A k \in 1 .. Len(i.rolls[n]) : i.rolls[n][k] \in Nat
         /\ \A g \in 1 .. Len(i.groups) : i.groups[g] \in Seq(Items \cup {0})
  <1>1. i.rolls \in Seq(Seq(Nat)) /\ i.groups \in Seq(Seq(Items \cup {0}))
    BY DEF PartInfos
  <1>2. \A n \in 1 .. Len(i.rolls) : i.rolls[n] \in Seq(Nat)
    BY <1>1
  <1>3. \A g \in 1 .. Len(i.groups) : i.groups[g] \in Seq(Items \cup {0})
    BY <1>1
  <1>4. \A n \in 1 .. Len(i.rolls) : \A k \in 1 .. Len(i.rolls[n]) : i.rolls[n][k] \in Nat
    BY <1>2
  <1>5. Len(i.rolls) \in Nat /\ Len(i.groups) \in Nat
    BY <1>1
  <1>6. \A n \in 1 .. Len(i.rolls) : Len(i.rolls[n]) \in Nat
    BY <1>2
  <1>. QED
    BY <1>3, <1>4, <1>5, <1>6

\* From an index that counts from 0 to one that counts from 1.
LEMMA IndexShift == \A n \in Nat : \A x \in 0 .. n - 1 : x + 1 \in 1 .. n
  OBVIOUS

LEMMA TypeInit == Init => TypeInv
  <1>. SUFFICES ASSUME Init PROVE TypeInv
    OBVIOUS
  <1>1. world \in Worlds
    BY WorldsAssumption DEF Init
  <1>2. EmptyTx \in Transactions /\ EmptyToken \in Tokens /\ EmptyInfo \in PartInfos
    BY <1>1, WorldData DEF EmptyInfo, PartInfos
  <1>3. world \in Worlds /\ debugger \in BOOLEAN /\ faulty \in BOOLEAN
    BY <1>1 DEF Init
  <1>4. /\ pc \in Steps /\ verdict \in Results \cup {"Pending", "Crash"} /\ err \in Errors
        /\ (pc = "Done") = (verdict # "Pending")
    BY DEF Init, Steps, Errors
  <1>5. tx \in Transactions /\ evt \in 1 .. Len(tx.events) + 1 /\ bag \in Tokens /\ info \in PartInfos
    BY <1>2 DEF Init, EmptyTx
  <1>6. rng \in Words /\ roll \in 1 .. Len(info.rolls) + 1
    BY WordAssumption DEF Init, EmptyInfo
  <1>7. /\ nftId \in Ids /\ nftIdsMinted \in Seq(Ids) /\ numBurnt \in Nat
        /\ j \in Nat \ {0} /\ sum \in Nat /\ cumulative \in Nat /\ r \in Nat
        /\ groupIndex \in Nat /\ group \in Seq(Items \cup {0})
        /\ itemsProduced \in Seq(Items \cup {0}) /\ itemsMinted \in Seq(Words)
        /\ Len(itemsMinted) <= Len(nftIdsMinted)
    BY IdAssumption DEF Init
  <1>8. TypeOK
    BY <1>3, <1>4, <1>5, <1>6, <1>7 DEF TypeOK
  <1>. QED
    BY <1>8 DEF Init, TypeInv, InRoll, RollSteps

\* A step that only decides whether to return keeps the types.
Decision ==
  /\ pc \in BeforeRolls \ {"GetTransaction"}
  /\ \/ pc' \in BeforeRolls \ {"GetTransaction"} /\ verdict' = verdict
     \/ pc' = "Done" /\ verdict' \in Results \cup {"Crash"}
  /\ UNCHANGED <<envVars, faulty, err, txVars, bag, info, rollVars, itemsMinted>>

LEMMA TypeDecision == TypeInv /\ Decision => TypeInv'
  BY DEF Decision, TypeInv, TypeOK, BeforeRolls, RollSteps, AfterRolls, InRoll, Steps,
         Results, envVars, txVars, scanVars, rollVars, sumVars

LEMMA DecisionSteps ==
  EndScan \/ DecodeBag \/ CheckRam \/ CheckRandomSeed \/ CheckCrateSecret \/ CheckTxSeed
    \/ CheckFinalSeed => Decision
  BY DEF EndScan, DecodeBag, CheckRam, CheckRandomSeed, CheckCrateSecret, CheckTxSeed,
         CheckFinalSeed, Decision, BeforeRolls, RollSteps, AfterRolls, Steps, Results,
         Check, Goto, Return, Die

LEMMA TypeGetTransaction == TypeInv /\ GetTransaction => TypeInv'
  <1>. SUFFICES ASSUME TypeInv, GetTransaction PROVE TypeInv'
    OBVIOUS
  <1>1. world \in Worlds /\ pc = "GetTransaction" /\ evt' = 1 /\ err = "None"
    BY DEF TypeInv, TypeOK, GetTransaction, scanVars
  <1>2. \/ tx' \in {world.tx, EmptyTx, [world.tx EXCEPT !.payload = Unparsable], NoEvents, tx}
        \/ \E i \in 1 .. Len(world.tx.events) : tx' = Garbled(i)
    BY DEF GetTransaction
  <1>3. tx' \in Transactions
    <2>1. world.tx \in Transactions /\ EmptyTx \in Transactions /\ tx \in Transactions
      BY <1>1, WorldData DEF TypeInv, TypeOK
    <2>2. [world.tx EXCEPT !.payload = Unparsable] \in Transactions /\ NoEvents \in Transactions
      BY <2>1, TransactionFields DEF NoEvents
    <2>. QED
      BY <1>2, <2>1, <2>2, GarbledTransaction
  <1>4. evt' \in 1 .. Len(tx'.events) + 1
    BY <1>1, <1>3, TransactionFields
  <1>5. /\ pc' \in {"ScanEvents", "Done"} /\ (pc' = "Done") = (verdict' # "Pending")
        /\ verdict' \in {"Pending", "Crash"} /\ err' \in Errors /\ faulty' \in BOOLEAN
    BY <1>1 DEF GetTransaction, TypeInv, TypeOK, Fault, Ledger, Goto, Die, Return, Errors
  <1>. QED
    BY <1>1, <1>3, <1>4, <1>5
    DEF GetTransaction, TypeInv, TypeOK, envVars, scanVars, rollVars, sumVars,
        BeforeRolls, RollSteps, AfterRolls, InRoll, Steps, Results

LEMMA TypeScanEvent == TypeInv /\ ScanEvent => TypeInv'
  <1>. SUFFICES ASSUME TypeInv, ScanEvent PROVE TypeInv'
    OBVIOUS
  <1>1. tx \in Transactions /\ evt \in 1 .. Len(tx.events) /\ Len(tx.events) \in Nat
    BY TransactionFields DEF TypeInv, TypeOK, ScanEvent
  <1>2. tx.events[evt].id \in Ids
    BY <1>1, TransactionFields
  <1>3. nftId' \in Ids /\ nftIdsMinted' \in Seq(Ids) /\ numBurnt' \in Nat
    <2>1. nftId \in Ids /\ nftIdsMinted \in Seq(Ids) /\ numBurnt \in Nat
      BY DEF TypeInv, TypeOK
    <2>2. UseEvent(tx.events[evt]) \/ UNCHANGED scanVars
      BY DEF ScanEvent
    <2>. QED
      BY <1>2, <2>1, <2>2 DEF UseEvent, scanVars
  <1>4. evt' \in 1 .. Len(tx.events) + 1
    BY <1>1 DEF ScanEvent, UseEvent, scanVars
  <1>5. itemsMinted = <<>> /\ roll = 1 /\ pc = "ScanEvents" /\ verdict = "Pending"
    BY DEF ScanEvent, TypeInv, TypeOK, BeforeRolls, Steps, RollSteps, AfterRolls
  <1>6. \/ pc' = "ScanEvents" /\ verdict' = "Pending"
        \/ pc' = "Done" /\ verdict' = "Crash"
    BY <1>5 DEF ScanEvent, Die, Return
  <1>7. /\ UNCHANGED <<envVars, faulty, err, tx, bag, info, rollVars, itemsMinted>>
        /\ Len(itemsMinted') <= Len(nftIdsMinted')
    <2>1. UNCHANGED <<envVars, faulty, err, tx, bag, info, rollVars, itemsMinted>>
      BY DEF ScanEvent
    <2>2. Len(itemsMinted') = 0 /\ Len(nftIdsMinted') \in Nat
      BY <1>3, <1>5, <2>1
    <2>. QED
      BY <2>1, <2>2
  <1>. QED
    BY <1>3, <1>4, <1>5, <1>6, <1>7
    DEF TypeInv, TypeOK, envVars, rollVars, sumVars, BeforeRolls, RollSteps, AfterRolls,
        InRoll, Steps, Results

LEMMA TypeGetBag == TypeInv /\ GetBag => TypeInv'
  <1>. SUFFICES ASSUME TypeInv, GetBag PROVE TypeInv'
    OBVIOUS
  <1>1. pc = "GetBag" /\ world \in Worlds /\ nftId \in Ids
    BY DEF TypeInv, TypeOK, GetBag
  <1>2. bag' \in Tokens
    BY <1>1, WorldData DEF GetBag, TypeInv, TypeOK
  <1>3. /\ pc' \in {"DecodeBag", "Done"} /\ (pc' = "Done") = (verdict' # "Pending")
        /\ verdict' \in {"Pending", "Crash", "Indeterminate"} /\ err' \in Errors
        /\ faulty' \in BOOLEAN
    BY <1>1 DEF GetBag, TypeInv, TypeOK, Fault, Ledger, Goto, Die, Return, Errors
  <1>. QED
    BY <1>1, <1>2, <1>3
    DEF GetBag, TypeInv, TypeOK, envVars, scanVars, txVars, rollVars, sumVars,
        BeforeRolls, RollSteps, AfterRolls, InRoll, Steps, Results

LEMMA TypeGetPartInfo == TypeInv /\ GetPartInfo => TypeInv'
  <1>. SUFFICES ASSUME TypeInv, GetPartInfo PROVE TypeInv'
    OBVIOUS
  <1>1. pc = "GetPartInfo" /\ world \in Worlds /\ bag \in Tokens /\ roll = 1 /\ itemsMinted = <<>>
    BY DEF TypeInv, TypeOK, GetPartInfo, BeforeRolls, Steps, RollSteps, AfterRolls
  <1>2. info' \in PartInfos /\ rng' \in Words
    BY <1>1, WorldData, TokenFields DEF GetPartInfo, TypeInv, TypeOK
  <1>3. roll' \in 1 .. Len(info'.rolls) + 1
    BY <1>1, <1>2, InfoFields DEF GetPartInfo
  <1>4. /\ pc' \in {"BeginRoll", "Done"} /\ (pc' = "Done") = (verdict' # "Pending")
        /\ verdict' \in {"Pending", "Crash", "Indeterminate", "Error"} /\ faulty' \in BOOLEAN
    BY <1>1 DEF GetPartInfo, TypeInv, TypeOK, Ledger, Goto, Die, Return
  <1>. QED
    BY <1>1, <1>2, <1>3, <1>4
    DEF GetPartInfo, TypeInv, TypeOK, envVars, scanVars, txVars, rollVars, sumVars,
        BeforeRolls, RollSteps, AfterRolls, InRoll, Steps, Results

LEMMA TypeSumWeights == TypeInv /\ (BeginRoll \/ SumWeights) => TypeInv'
  <1>. SUFFICES ASSUME TypeInv, BeginRoll \/ SumWeights PROVE TypeInv'
    OBVIOUS
  <1>1. /\ info \in PartInfos /\ roll \in 1 .. Len(info.rolls) + 1
        /\ j \in Nat \ {0} /\ sum \in Nat /\ itemsMinted = <<>>
        /\ pc = "SumWeights" => roll <= Len(info.rolls)
        /\ verdict = "Pending"
    BY DEF TypeInv, TypeOK, BeginRoll, SumWeights, RollSteps, InRoll, BeforeRolls, Steps
  <1>2. j' \in Nat \ {0} /\ sum' \in Nat
    <2>1. CASE BeginRoll
      BY <1>1, <2>1 DEF BeginRoll
    <2>2. CASE SumWeights
      <3>1. j <= Len(Weights) => Weights[j] \in Nat
        BY <1>1, <2>2, InfoFields DEF SumWeights, Weights
      <3>. QED
        BY <1>1, <2>2, <3>1 DEF SumWeights
    <2>. QED
      BY <2>1, <2>2
  <1>3. /\ pc' \in {"GetMinted", "SumWeights", "DrawGroup", "Done"}
        /\ (pc' = "Done") = (verdict' # "Pending") /\ verdict' \in {"Pending", "Crash", "Error"}
        /\ pc' \in {"SumWeights", "DrawGroup"} => roll <= Len(info.rolls)
        /\ pc' = "DrawGroup" => sum' # 0
    BY <1>1 DEF BeginRoll, SumWeights, Goto, Die, Return
  <1>. QED
    BY <1>1, <1>2, <1>3
    DEF BeginRoll, SumWeights, TypeInv, TypeOK, envVars, scanVars, txVars,
        BeforeRolls, RollSteps, AfterRolls, InRoll, Steps, Results

\* One turn of RandomIndex.
LEMMA RandomTurn ==
  ASSUME rng \in Words, r \in Nat, NEW count \in Nat \ {0}, NEW step, RandomIndex(count, step)
  PROVE  /\ rng' \in Words /\ r' \in Nat
         /\ pc' = pc \/ (pc' = step /\ r' \in 0 .. count - 1)
  BY RandomWord DEF RandomIndex

LEMMA TypeDrawGroup == TypeInv /\ DrawGroup => TypeInv'
  <1>. SUFFICES ASSUME TypeInv, DrawGroup PROVE TypeInv'
    OBVIOUS
  <1>1. /\ rng \in Words /\ r \in Nat /\ sum \in Nat \ {0}
        /\ itemsMinted = <<>> /\ pc = "DrawGroup" /\ roll <= Len(info.rolls)
    BY DEF TypeInv, TypeOK, DrawGroup, RollSteps, InRoll
  <1>2. rng' \in Words /\ r' \in Nat /\ pc' \in {"DrawGroup", "SelectGroup"}
    BY <1>1, RandomTurn DEF DrawGroup
  <1>. QED
    BY <1>1, <1>2
    DEF DrawGroup, TypeInv, TypeOK, envVars, scanVars, txVars,
        BeforeRolls, RollSteps, AfterRolls, InRoll, Steps, Results

LEMMA TypeSelectGroup == TypeInv /\ SelectGroup => TypeInv'
  <1>. SUFFICES ASSUME TypeInv, SelectGroup PROVE TypeInv'
    OBVIOUS
  <1>1. /\ info \in PartInfos /\ roll \in 1 .. Len(info.rolls)
        /\ j \in Nat \ {0} /\ cumulative \in Nat /\ groupIndex \in Nat
        /\ itemsMinted = <<>> /\ pc = "SelectGroup" /\ verdict = "Pending"
    BY DEF TypeInv, TypeOK, SelectGroup, RollSteps, InRoll
  <1>2. Len(Weights) \in Nat /\ \A k \in 1 .. Len(Weights) : Weights[k] \in Nat
    BY <1>1, InfoFields DEF Weights
  <1>3. j' \in Nat \ {0} /\ cumulative' \in Nat /\ groupIndex' \in Nat
    <2>1. CASE j > Len(Weights)
      BY <1>1, <2>1 DEF SelectGroup
    <2>2. CASE ~(j > Len(Weights))
      <3>1. Weights[j] \in Nat
        BY <1>1, <1>2, <2>2
      <3>2. cumulative' = cumulative + Weights[j] /\ j' \in {j, j + 1} /\ groupIndex' \in {j, groupIndex}
        BY <2>2 DEF SelectGroup
      <3>. QED
        BY <1>1, <3>1, <3>2
    <2>. QED
      BY <2>1, <2>2
  <1>4. /\ pc' \in {"SelectGroup", "UseGroup", "Done"} /\ (pc' = "Done") = (verdict' # "Pending")
        /\ verdict' \in {"Pending", "Error"}
        /\ pc' = "UseGroup" => groupIndex' # 0
    BY <1>1 DEF SelectGroup, Check, Goto, Return
  <1>. QED
    BY <1>1, <1>3, <1>4
    DEF SelectGroup, TypeInv, TypeOK, envVars, scanVars, txVars,
        BeforeRolls, RollSteps, AfterRolls, InRoll, Steps, Results

LEMMA TypeUseGroup == TypeInv /\ UseGroup => TypeInv'
  <1>. SUFFICES ASSUME TypeInv, UseGroup PROVE TypeInv'
    OBVIOUS
  <1>1. /\ info \in PartInfos /\ roll \in 1 .. Len(info.rolls) /\ Len(info.rolls) \in Nat
        /\ itemsMinted = <<>> /\ pc = "UseGroup" /\ verdict = "Pending"
        /\ groupIndex \in Nat \ {0} /\ group \in Seq(Items \cup {0})
    BY InfoFields DEF TypeInv, TypeOK, UseGroup, RollSteps, InRoll
  <1>2. roll' \in 1 .. Len(info.rolls) + 1
    BY <1>1 DEF UseGroup, NextRoll, Goto
  <1>3. /\ pc' \in {"BeginRoll", "DrawItem", "Done"} /\ (pc' = "Done") = (verdict' # "Pending")
        /\ verdict' \in {"Pending", "Crash"}
        /\ pc' = "DrawItem" => group' # <<>> /\ roll' = roll
    BY <1>1 DEF UseGroup, NextRoll, Goto, Die, Return
  <1>4. StrayGroups \subseteq Seq(Items \cup {0})
    BY WorldsAssumption
  <1>5. group' \in Seq(Items \cup {0})
    BY <1>1, <1>4, InfoFields DEF UseGroup, GroupsAt
  <1>. QED
    BY <1>1, <1>2, <1>3, <1>5
    DEF UseGroup, TypeInv, TypeOK, envVars, scanVars, txVars, sumVars,
        BeforeRolls, RollSteps, AfterRolls, InRoll, Steps, Results

LEMMA TypeDrawItem == TypeInv /\ DrawItem => TypeInv'
  <1>. SUFFICES ASSUME TypeInv, DrawItem PROVE TypeInv'
    OBVIOUS
  <1>1. /\ rng \in Words /\ r \in Nat /\ group \in Seq(Items \cup {0}) /\ group # <<>>
        /\ itemsMinted = <<>> /\ pc = "DrawItem" /\ roll \in 1 .. Len(info.rolls)
        /\ itemsProduced \in Seq(Items \cup {0}) /\ info \in PartInfos
    BY DEF TypeInv, TypeOK, DrawItem, RollSteps, InRoll
  <1>2. Len(group) \in Nat \ {0}
    BY <1>1
  <1>3. RandomIndex(Len(group), "BeginRoll")
    BY DEF DrawItem
  <1>4. /\ rng' \in Words /\ r' \in Nat
        /\ pc' = "DrawItem" \/ (pc' = "BeginRoll" /\ r' \in 0 .. Len(group) - 1)
    BY <1>1, <1>2, <1>3, RandomTurn
  <1>5. /\ itemsProduced' \in Seq(Items \cup {0}) /\ roll' \in 1 .. Len(info.rolls) + 1
        /\ pc' = "DrawItem" => roll' = roll
    <2>1. CASE pc' = "DrawItem"
      BY <1>1, <2>1, InfoFields DEF DrawItem
    <2>2. CASE pc' = "BeginRoll" /\ r' \in 0 .. Len(group) - 1
      <3>1. r' + 1 \in 1 .. Len(group)
        BY <1>2, <2>2, IndexShift
      <3>2. group[r' + 1] \in Items \cup {0}
        BY <1>1, <3>1
      <3>3. itemsProduced' = Append(itemsProduced, group[r' + 1]) /\ roll' = roll + 1
        BY <2>2 DEF DrawItem
      <3>. QED
        BY <1>1, <2>2, <3>2, <3>3, InfoFields
    <2>. QED
      BY <1>4, <2>1, <2>2
  <1>6. pc' \in {"DrawItem", "BeginRoll"}
    BY <1>4
  <1>7. rng' \in Words /\ r' \in Nat
    BY <1>4
  <1>8. UNCHANGED <<world, debugger, faulty, verdict, err, tx, evt, numBurnt, nftId, nftIdsMinted,
                    bag, info, j, sum, cumulative, groupIndex, group, itemsMinted>>
    BY DEF DrawItem, envVars, scanVars, txVars, sumVars
  <1>9. TypeOK'
    BY <1>1, <1>5, <1>6, <1>7, <1>8 DEF TypeInv, TypeOK, Steps
  <1>. QED
    BY <1>1, <1>5, <1>6, <1>8, <1>9 DEF TypeInv, BeforeRolls, RollSteps, AfterRolls, InRoll

\* What GetMinted may do: append the item of the next token, or append nothing.
LEMMA MintedTurn ==
  ASSUME GetMinted
  PROVE  \/ /\ itemsMinted' = itemsMinted
            /\ \/ pc' = "Compare" /\ UNCHANGED verdict /\ Len(itemsMinted) = Len(nftIdsMinted)
               \/ pc' = "Done" /\ verdict' \in {"Error", "Crash"}
         \/ /\ Len(itemsMinted) < Len(nftIdsMinted)
            /\ itemsMinted' = Append(itemsMinted, NextMinted.rom.itemId)
            /\ pc' = "GetMinted" /\ UNCHANGED verdict
  BY EmptyTokenFails DEF GetMinted, UseMinted, DecodeMinted, Goto, Return, Die

LEMMA TypeGetMinted == TypeInv /\ GetMinted => TypeInv'
  <1>. SUFFICES ASSUME TypeInv, GetMinted PROVE TypeInv'
    OBVIOUS
  <1>1. /\ world \in Worlds /\ nftIdsMinted \in Seq(Ids) /\ itemsMinted \in Seq(Words)
        /\ pc = "GetMinted" /\ verdict = "Pending" /\ err \in Errors /\ faulty \in BOOLEAN
        /\ Len(itemsMinted) <= Len(nftIdsMinted)
    BY DEF TypeInv, TypeOK, GetMinted
  <1>2. ASSUME Len(itemsMinted) < Len(nftIdsMinted)
        PROVE  NextMinted.rom.itemId \in Words
    <2>1. Len(itemsMinted) + 1 \in 1 .. Len(nftIdsMinted)
      BY <1>1, <1>2
    <2>2. nftIdsMinted[Len(itemsMinted) + 1] \in Ids
      BY <1>1, <2>1
    <2>. QED
      BY <1>1, <2>2, WorldData, TokenFields DEF NextMinted
  <1>3. itemsMinted' \in Seq(Words) /\ Len(itemsMinted') <= Len(nftIdsMinted)
    <2>1. CASE itemsMinted' = itemsMinted
      BY <1>1, <2>1
    <2>2. CASE /\ Len(itemsMinted) < Len(nftIdsMinted)
               /\ itemsMinted' = Append(itemsMinted, NextMinted.rom.itemId)
      BY <1>1, <1>2, <2>2
    <2>. QED
      BY <2>1, <2>2, MintedTurn
  <1>4. /\ pc' \in {"GetMinted", "Compare", "Done"} /\ (pc' = "Done") = (verdict' # "Pending")
        /\ verdict' \in {"Pending", "Crash", "Error"}
    BY <1>1, MintedTurn
  <1>5. err' \in Errors /\ faulty' \in BOOLEAN
    BY <1>1 DEF GetMinted, Fault, Ledger, Errors
  <1>. QED
    BY <1>1, <1>3, <1>4, <1>5
    DEF GetMinted, TypeInv, TypeOK, envVars, scanVars, txVars, rollVars, sumVars,
        BeforeRolls, RollSteps, AfterRolls, InRoll, Steps, Results

LEMMA TypeCompare == TypeInv /\ Compare => TypeInv'
  BY DEF Compare, TypeInv, TypeOK, Return, envVars, scanVars, txVars, rollVars, sumVars,
         BeforeRolls, RollSteps, AfterRolls, InRoll, Steps, Results

LEMMA TypeStep == TypeInv /\ [Next]_vars => TypeInv'
  <1>1. TypeInv /\ Audit => TypeInv'
    BY DecisionSteps, TypeDecision, TypeGetTransaction, TypeScanEvent, TypeGetBag,
       TypeGetPartInfo, TypeSumWeights, TypeDrawGroup, TypeSelectGroup, TypeUseGroup,
       TypeDrawItem, TypeGetMinted, TypeCompare DEF Audit
  <1>2. TypeInv /\ UNCHANGED vars => TypeInv'
    BY DEF TypeInv, TypeOK, vars, envVars, txVars, scanVars, rollVars, sumVars,
           BeforeRolls, RollSteps, AfterRolls, InRoll
  <1>. QED
    BY <1>1, <1>2 DEF Next, Exit

\* Every variable of AuditBoxTx keeps its type, whatever the ledger, the web site and the
\* replies: no divisor is zero and no roll, group or token is read out of range.
THEOREM TypeCorrect == Spec => []TypeOK
  <1>1. TypeInv => TypeOK
    BY DEF TypeInv
  <1>. QED
    BY TypeInit, TypeStep, <1>1, PTL DEF Spec

\* TypeInv itself, for the theorems below.
LEMMA TypeAlways == Spec => []TypeInv
  BY TypeInit, TypeStep, PTL DEF Spec
-----------------------------------------------------------------------------
(***************************************************************************)
(* The recursive functions of BlindBag exist and satisfy their equations.  *)
(* Each is a CHOOSE: what it computes follows only once a function that    *)
(* satisfies the equation is shown to exist, by induction over its length. *)
(***************************************************************************)
\* Induction over a set instead of a predicate: the numbers outside S would
\* have a least one, < being well founded on Nat.
LEMMA Induction ==
  ASSUME NEW S, 0 \in S, \A n \in Nat : n \in S => n + 1 \in S
  PROVE  \A n \in Nat : n \in S
  <1>. DEFINE T == Nat \ S
              R == OpToRel(<, Nat)
  <1>. SUFFICES ASSUME T # {} PROVE FALSE
    OBVIOUS
  <1>1. IsWellFoundedOn(R, Nat)
    BY NatLessThanWellFounded
  <1>2. PICK n \in T : \A m \in T : <<m, n>> \notin R
    <2>1. T \subseteq Nat
      OBVIOUS
    <2>. HIDE DEF R, T
    <2>. QED
      BY <1>1, <2>1, WFMin
  <1>3. n - 1 \in Nat /\ n - 1 < n
    OBVIOUS
  <1>4. n - 1 \notin T
    BY <1>2, <1>3 DEF OpToRel
  <1>. QED
    BY <1>3, <1>4

\* f gives the sums of the first weights up to n of them.
SumsUpTo(f, weights, n) == f = [k \in 0 .. n |-> IF k = 0 THEN 0 ELSE f[k - 1] + weights[k]]

LEMMA SumsExist ==
  ASSUME NEW w
  PROVE  \A n \in Nat : \E f : SumsUpTo(f, w, n)
  <1>. DEFINE S == {n \in Nat : \E f : SumsUpTo(f, w, n)}
  <1>1. 0 \in S
    <2>1. SumsUpTo([k \in 0 .. 0 |-> 0], w, 0)
      BY DEF SumsUpTo
    <2>. QED
      BY <2>1
  <1>2. ASSUME NEW n \in Nat, n \in S PROVE n + 1 \in S
    <2>1. PICK f : f = [k \in 0 .. n |-> IF k = 0 THEN 0 ELSE f[k - 1] + w[k]]
      BY <1>2 DEF SumsUpTo
    <2>. DEFINE g == [k \in 0 .. n + 1 |-> IF k = n + 1 THEN f[n] + w[n + 1] ELSE f[k]]
                h == [k \in 0 .. n + 1 |-> IF k = 0 THEN 0 ELSE g[k - 1] + w[k]]
    <2>2. ASSUME NEW k \in 0 .. n + 1 PROVE g[k] = h[k]
      <3>1. CASE k = n + 1
        BY <3>1
      <3>2. CASE k = 0
        BY <2>1, <3>2
      <3>3. CASE k \in 1 .. n
        <4>1. f[k] = f[k - 1] + w[k]
          BY <2>1, <3>3
        <4>2. g[k] = f[k] /\ g[k - 1] = f[k - 1]
          BY <3>3
        <4>. QED
          BY <3>3, <4>1, <4>2
      <3>. QED
        BY <3>1, <3>2, <3>3
    <2>3. g = h
      BY <2>2
    <2>4. SumsUpTo(g, w, n + 1)
      BY <2>3 DEF SumsUpTo
    <2>. QED
      BY <2>4
  <1>3. \A n \in Nat : n \in S
    <2>. HIDE DEF S
    <2>. QED
      BY <1>1, <1>2, Induction
  <1>. QED
    BY <1>3

LEMMA CumulativeSums ==
  ASSUME NEW w \in Seq(Nat)
  PROVE  /\ Cumulative(w) \in [0 .. Len(w) -> Nat]
         /\ Cumulative(w)[0] = 0
         /\ \A k \in 1 .. Len(w) : Cumulative(w)[k] = Cumulative(w)[k - 1] + w[k]
  <1>. DEFINE c == Cumulative(w)
  <1>1. SumsUpTo(c, w, Len(w))
    <2>1. \E f : SumsUpTo(f, w, Len(w))
      <3>1. Len(w) \in Nat
        OBVIOUS
      <3>. QED
        BY <3>1, SumsExist
    <2>2. c = CHOOSE f : SumsUpTo(f, w, Len(w))
      BY Zenon DEF Cumulative, SumsUpTo
    <2>. HIDE DEF c
    <2>. QED
      BY <2>1, <2>2
  <1>. HIDE DEF c
  <1>2. /\ c = [k \in 0 .. Len(w) |-> c[k]] 
        /\ c[0] = 0
        /\ \A k \in 1 .. Len(w) : c[k] = c[k - 1] + w[k]
    BY <1>1 DEF SumsUpTo
  <1>. DEFINE S == {m \in Nat : m <= Len(w) => c[m] \in Nat}
  <1>3. \A n \in Nat : n \in S
    <2>1. 0 \in S
      BY <1>2
    <2>2. ASSUME NEW n \in Nat, n \in S PROVE n + 1 \in S
      <3>1. CASE n + 1 <= Len(w)
        <4>1. n + 1 \in 1 .. Len(w) /\ (n + 1) - 1 = n /\ n <= Len(w) /\ w[n + 1] \in Nat
          BY <3>1
        <4>2. c[n + 1] = c[n] + w[n + 1] /\ c[n] \in Nat
          BY <1>2, <2>2, <4>1
        <4>. QED
          BY <4>1, <4>2
      <3>. QED
        BY <3>1
    <2>. HIDE DEF S
    <2>. QED
      BY <2>1, <2>2, Induction
  <1>4. c \in [0 .. Len(w) -> Nat]
    BY <1>2, <1>3
  <1>. QED
    BY <1>2, <1>4 DEF c

\* Words from which the generator reaches a word that is kept: the smallest set that has the
\* kept word and, with a word, those the generator leaves for it.
ClosedFor(count, k, T) ==
  k \in T /\ \A t \in Words : RngOutput[t] >= EndValid(count) /\ RngNext[t] \in T => t \in T

LeadsTo(count, s, k) == \A T \in SUBSET Words : ClosedFor(count, k, T) => s \in T

Keeps(count, from) ==
  from = [s \in Words |-> IF RngOutput[s] < EndValid(count) THEN s ELSE from[RngNext[s]]]

LEMMA FirstKeptExists ==
  ASSUME NEW count \in Nat \ {0}
  PROVE  \E from : Keeps(count, from)
  <1>. DEFINE Kept == {s \in Words : RngOutput[s] < EndValid(count)}
              Roots(s) == {k \in Kept : LeadsTo(count, s, k)}
              root(s)  == CHOOSE k : k \in Roots(s)
              from == [s \in Words |-> root(s)]
  <1>1. \A s \in Words : RngNext[s] \in Words /\ RngOutput[s] \in Nat
    BY RngAssumption
  <1>2. EndValid(count) \in Int
    BY WordAssumption DEF EndValid
  <1>3. ASSUME NEW s \in Kept PROVE Roots(s) = {s}
    <2>1. LeadsTo(count, s, s)
      BY DEF LeadsTo, ClosedFor
    <2>2. ASSUME NEW k \in Kept, LeadsTo(count, s, k), k # s PROVE FALSE
      <3>1. ClosedFor(count, k, Words \ {s})
        BY <1>1, <1>2, <2>2 DEF ClosedFor
      <3>. QED
        BY <2>2, <3>1 DEF LeadsTo
    <2>. QED
      BY <2>1, <2>2
  <1>4. ASSUME NEW s \in Words \ Kept, NEW k \in Kept
        PROVE  LeadsTo(count, s, k) <=> LeadsTo(count, RngNext[s], k)
    <2>1. RngOutput[s] >= EndValid(count) /\ RngNext[s] \in Words /\ s # k
      BY <1>1, <1>2
    <2>2. ASSUME LeadsTo(count, RngNext[s], k) PROVE LeadsTo(count, s, k)
      BY <2>1, <2>2 DEF LeadsTo, ClosedFor
    <2>3. ASSUME LeadsTo(count, s, k), ~LeadsTo(count, RngNext[s], k) PROVE FALSE
      <3>1. PICK T \in SUBSET Words : ClosedFor(count, k, T) /\ RngNext[s] \notin T
        BY <2>3 DEF LeadsTo
      <3>2. ClosedFor(count, k, T \ {s})
        BY <2>1, <3>1 DEF ClosedFor
      <3>. QED
        BY <2>3, <3>2 DEF LeadsTo
    <2>. QED
      BY <2>2, <2>3
  <1>5. \A s \in Words \ Kept : Roots(s) = Roots(RngNext[s])
    BY <1>4
  <1>. HIDE DEF Roots
  <1>6. \A s \in Words : root(s) = IF RngOutput[s] < EndValid(count) THEN s ELSE root(RngNext[s])
    BY <1>3, <1>5
  <1>. HIDE DEF root
  <1>7. \A s \in Words : from[s] = IF RngOutput[s] < EndValid(count) THEN s ELSE from[RngNext[s]]
    BY <1>1, <1>6
  <1>8. Keeps(count, from)
    <2>1. from = [s \in Words |-> from[s]]
      BY Zenon
    <2>. HIDE DEF from
    <2>. QED
      BY <1>7, <2>1 DEF Keeps
  <1>. QED
    BY <1>8

LEMMA FirstKeptIs ==
  ASSUME NEW count \in Nat \ {0}, NEW s \in Words
  PROVE  FirstKept(count)[s] = IF RngOutput[s] < EndValid(count) THEN s
                               ELSE FirstKept(count)[RngNext[s]]
  <1>1. FirstKept(count) = CHOOSE from : Keeps(count, from)
    BY Zenon DEF FirstKept, Keeps
  <1>2. Keeps(count, FirstKept(count))
    BY <1>1, FirstKeptExists
  <1>. QED
    BY <1>2 DEF Keeps

OpensUpTo(open, seed, odds, n) ==
  open = [k \in 0 .. n |-> IF k = 0 THEN [items |-> <<>>, state |-> seed]
                           ELSE OpenRoll(open[k - 1], odds.rolls[k], odds.groups)]

LEMMA OpenedExists ==
  ASSUME NEW seed, NEW odds
  PROVE  \A n \in Nat : \E f : OpensUpTo(f, seed, odds, n)
  <1>. DEFINE S == {n \in Nat : \E f : OpensUpTo(f, seed, odds, n)}
              start == [items |-> <<>>, state |-> seed]
  <1>1. 0 \in S
    <2>1. OpensUpTo([k \in 0 .. 0 |-> start], seed, odds, 0)
      BY DEF OpensUpTo
    <2>. QED
      BY <2>1
  <1>2. ASSUME NEW n \in Nat, n \in S PROVE n + 1 \in S
    <2>1. PICK f : OpensUpTo(f, seed, odds, n)
      BY <1>2
    <2>. DEFINE last == OpenRoll(f[n], odds.rolls[n + 1], odds.groups)
                g == [k \in 0 .. n + 1 |-> IF k = n + 1 THEN last ELSE f[k]]
                h == [k \in 0 .. n + 1 |-> IF k = 0 THEN start
                                           ELSE OpenRoll(g[k - 1], odds.rolls[k], odds.groups)]
    <2>2. ASSUME NEW k \in 0 .. n + 1 PROVE g[k] = h[k]
      <3>1. CASE k = n + 1
        <4>1. k # 0 /\ k - 1 \in 0 .. n + 1 /\ k - 1 # n + 1 /\ k - 1 = n
          BY <3>1
        <4>. QED
          BY <3>1, <4>1, Zenon
      <3>2. CASE k = 0
        BY <2>1, <3>2 DEF OpensUpTo
      <3>3. CASE k \in 1 .. n
        <4>1. /\ k # n + 1 /\ k # 0 /\ k \in 0 .. n
              /\ k - 1 \in 0 .. n + 1 /\ k - 1 # n + 1
          BY <3>3
        <4>2. f[k] = OpenRoll(f[k - 1], odds.rolls[k], odds.groups)
          BY <2>1, <4>1, Zenon DEF OpensUpTo
        <4>3. g[k] = f[k] /\ g[k - 1] = f[k - 1]
          BY <4>1, Zenon
        <4>. QED
          BY <4>1, <4>2, <4>3, Zenon
      <3>. QED
        BY <3>1, <3>2, <3>3
    <2>3. g = h
      <3>. HIDE DEF last
      <3>. QED
        BY <2>2, Zenon
    <2>4. OpensUpTo(g, seed, odds, n + 1)
      BY <2>3, Zenon DEF OpensUpTo
    <2>. QED
      BY <2>4
  <1>3. \A n \in Nat : n \in S
    <2>. HIDE DEF S
    <2>. QED
      BY <1>1, <1>2, Induction
  <1>. QED
    BY <1>3

LEMMA OpenedIs ==
  ASSUME NEW seed, NEW odds \in PartInfos
  PROVE  /\ Opened(seed, odds)[0] = [items |-> <<>>, state |-> seed]
         /\ \A k \in 1 .. Len(odds.rolls) :
              Opened(seed, odds)[k] = OpenRoll(Opened(seed, odds)[k - 1], odds.rolls[k], odds.groups)
  <1>1. Opened(seed, odds) = CHOOSE open : OpensUpTo(open, seed, odds, Len(odds.rolls))
    BY Zenon DEF Opened, OpensUpTo
  <1>2. Len(odds.rolls) \in Nat
    BY DEF PartInfos
  <1>3. OpensUpTo(Opened(seed, odds), seed, odds, Len(odds.rolls))
    BY <1>1, <1>2, OpenedExists
  <1>4. \A k \in 1 .. Len(odds.rolls) : k \in 0 .. Len(odds.rolls) /\ k # 0
    BY <1>2
  <1>5. 0 \in 0 .. Len(odds.rolls)
    BY <1>2
  <1>. QED
    BY <1>3, <1>4, <1>5, Zenon DEF OpensUpTo
-----------------------------------------------------------------------------
(***************************************************************************)
(* The choice of a group.  While the weights are added up, sum is one of   *)
(* their cumulative sums; the number drawn is below the total, and the     *)
(* scan has left behind only sums at or below it.  So the scan cannot      *)
(* reach the end, and stops at the first sum above the number.             *)
(***************************************************************************)
RollInv ==
  /\ \A n \in 1 .. roll - 1 : TotalWeight(info.rolls[n]) > 0
  /\ pc \in AfterRolls => roll = Len(info.rolls) + 1
  /\ pc = "SumWeights" => j <= Len(Weights) + 1 /\ sum = Cumulative(Weights)[j - 1]
  /\ pc \in InRoll \ {"SumWeights"} => sum # 0 /\ sum = TotalWeight(Weights)
  /\ pc = "SelectGroup" =>
       /\ j <= Len(Weights) + 1 /\ r < sum
       /\ cumulative = Cumulative(Weights)[j - 1]
       /\ \A k \in 1 .. j - 1 : Cumulative(Weights)[k] <= r
  /\ pc = "UseGroup" =>
       /\ groupIndex \in 1 .. Len(Weights)
       /\ groupIndex = SelectedGroup(Weights, r)

\* The weights of a roll in progress, and their sums.
LEMMA RollWeights ==
  ASSUME TypeInv, roll <= Len(info.rolls)
  PROVE  /\ roll \in 1 .. Len(info.rolls) /\ Len(Weights) \in Nat
         /\ Weights \in Seq(Nat)
         /\ \A k \in 1 .. Len(Weights) : Weights[k] \in Nat
         /\ \A k \in 0 .. Len(Weights) : Cumulative(Weights)[k] \in Nat
         /\ Cumulative(Weights)[0] = 0
         /\ \A k \in 1 .. Len(Weights) : Cumulative(Weights)[k] = Cumulative(Weights)[k - 1] + Weights[k]
  <1>1. info \in PartInfos /\ roll \in 1 .. Len(info.rolls)
    BY InfoFields DEF TypeInv, TypeOK
  <1>2. Weights \in Seq(Nat)
    BY <1>1 DEF PartInfos, Weights
  <1>3. Len(Weights) \in Nat /\ \A k \in 1 .. Len(Weights) : Weights[k] \in Nat
    BY <1>2
  <1>. QED
    BY <1>1, <1>2, <1>3, CumulativeSums

\* The first group whose cumulative weight exceeds the number is the selected one.
LEMMA FirstAbove ==
  ASSUME NEW w, NEW x \in Nat, Len(w) \in Nat, NEW g \in 1 .. Len(w),
         \A k \in 1 .. g - 1 : ~(x < Cumulative(w)[k]), x < Cumulative(w)[g]
  PROVE  SelectedGroup(w, x) = g
  <1>1. g \in GroupsAbove(w, x)
    BY DEF GroupsAbove
  <1>2. \A k \in GroupsAbove(w, x) : k \in Nat /\ g <= k
    BY DEF GroupsAbove
  <1>3. \A h \in GroupsAbove(w, x) : (\A k \in GroupsAbove(w, x) : h <= k) => h = g
    BY <1>1, <1>2
  <1>. QED
    BY <1>1, <1>2, <1>3 DEF SelectedGroup

LEMMA RollStep == TypeInv /\ RollInv /\ [Next]_vars => RollInv'
  <1>. SUFFICES ASSUME TypeInv, RollInv, [Next]_vars PROVE RollInv'
    OBVIOUS
  <1>1. /\ info \in PartInfos /\ roll \in 1 .. Len(info.rolls) + 1 /\ Len(info.rolls) \in Nat
        /\ pc \in InRoll => roll <= Len(info.rolls)
        /\ rng \in Words /\ r \in Nat /\ sum \in Nat /\ cumulative \in Nat /\ j \in Nat \ {0}
    BY InfoFields DEF TypeInv, TypeOK
  <1>2. \A n \in 1 .. roll - 1 : TotalWeight(info.rolls[n]) > 0
    BY DEF RollInv
  <1>3. CASE BeginRoll
    <2>1. CASE pc' = "SumWeights"
      <3>1. j' = 1 /\ sum' = 0 /\ Weights' = Weights /\ roll' = roll /\ info' = info /\ roll <= Len(info.rolls)
        BY <1>1, <1>3, <2>1 DEF BeginRoll, Goto, Weights
      <3>2. Len(Weights) \in Nat /\ Cumulative(Weights)[0] = 0
        BY <3>1, RollWeights
      <3>3. j' <= Len(Weights') + 1 /\ j' - 1 = 0
        BY <3>1, <3>2
      <3>. QED
        BY <1>2, <2>1, <3>1, <3>2, <3>3 DEF RollInv, InRoll, RollSteps, AfterRolls
    <2>2. CASE pc' # "SumWeights"
      <3>1. pc' = "GetMinted" /\ roll > Len(info.rolls) /\ roll' = roll /\ info' = info
        BY <1>3, <2>2 DEF BeginRoll, Goto
      <3>2. roll = Len(info.rolls) + 1
        BY <1>1, <3>1
      <3>. QED
        BY <1>2, <3>1, <3>2 DEF RollInv, InRoll, RollSteps, AfterRolls
    <2>. QED
      BY <2>1, <2>2
  <1>4. CASE SumWeights
    <2>1. /\ Weights' = Weights /\ roll' = roll /\ info' = info /\ pc = "SumWeights" /\ roll <= Len(info.rolls)
          /\ j <= Len(Weights) + 1 /\ sum = Cumulative(Weights)[j - 1]
      BY <1>1, <1>4 DEF SumWeights, Weights, RollInv, InRoll, RollSteps
    <2>2. /\ Len(Weights) \in Nat
          /\ \A k \in 1 .. Len(Weights) : Cumulative(Weights)[k] = Cumulative(Weights)[k - 1] + Weights[k]
      BY <2>1, RollWeights
    <2>3. CASE j <= Len(Weights)
      <3>1. pc' = "SumWeights" /\ j' = j + 1 /\ sum' = sum + Weights[j]
        BY <1>1, <1>4, <2>1, <2>2, <2>3 DEF SumWeights
      <3>2. j' - 1 = j /\ j \in 1 .. Len(Weights) /\ j' <= Len(Weights) + 1
        BY <1>1, <2>2, <2>3, <3>1
      <3>. QED
        BY <1>2, <2>1, <2>2, <3>1, <3>2 DEF RollInv, InRoll, RollSteps, AfterRolls
    <2>4. CASE j > Len(Weights)
      <3>1. /\ sum' = sum /\ j - 1 = Len(Weights)
            /\ (pc' = "DrawGroup" /\ sum # 0) \/ pc' = "Done"
        BY <1>1, <1>4, <2>1, <2>2, <2>4 DEF SumWeights, Goto, Die, Return
      <3>2. sum' = TotalWeight(Weights)
        BY <2>1, <3>1 DEF TotalWeight
      <3>. QED
        BY <1>2, <2>1, <3>1, <3>2 DEF RollInv, InRoll, RollSteps, AfterRolls
    <2>. QED
      BY <1>1, <2>2, <2>3, <2>4
  <1>5. CASE DrawGroup
    <2>1. /\ Weights' = Weights /\ roll' = roll /\ info' = info /\ pc = "DrawGroup" /\ roll <= Len(info.rolls)
          /\ j' = 1 /\ cumulative' = 0 /\ sum' = sum /\ sum \in Nat \ {0} /\ sum = TotalWeight(Weights)
      BY <1>1, <1>5 DEF DrawGroup, Weights, TypeInv, RollInv, InRoll, RollSteps
    <2>2. Len(Weights) \in Nat /\ Cumulative(Weights)[0] = 0
      BY <2>1, RollWeights
    <2>3. r' \in Nat /\ (pc' = "DrawGroup" \/ (pc' = "SelectGroup" /\ r' \in 0 .. sum - 1))
      BY <1>1, <1>5, <2>1, RandomTurn DEF DrawGroup
    <2>4. CASE pc' = "DrawGroup"
      BY <1>2, <2>1, <2>4 DEF RollInv, InRoll, RollSteps, AfterRolls
    <2>5. CASE pc' = "SelectGroup" /\ r' \in 0 .. sum - 1
      <3>1. r' < sum /\ j' - 1 = 0 /\ j' <= Len(Weights) + 1 /\ 1 .. j' - 1 = {}
        BY <2>1, <2>2, <2>3, <2>5
      <3>. QED
        BY <1>2, <2>1, <2>2, <2>5, <3>1 DEF RollInv, InRoll, RollSteps, AfterRolls
    <2>. QED
      BY <2>3, <2>4, <2>5
  <1>6. CASE SelectGroup
    <2>1. /\ Weights' = Weights /\ roll' = roll /\ info' = info /\ pc = "SelectGroup" /\ roll <= Len(info.rolls)
          /\ r' = r /\ sum' = sum /\ sum # 0 /\ sum = TotalWeight(Weights)
          /\ j <= Len(Weights) + 1 /\ r < sum /\ cumulative = Cumulative(Weights)[j - 1]
          /\ \A k \in 1 .. j - 1 : Cumulative(Weights)[k] <= r
      BY <1>1, <1>6 DEF SelectGroup, Weights, RollInv, InRoll, RollSteps
    <2>2. /\ Len(Weights) \in Nat
          /\ \A k \in 0 .. Len(Weights) : Cumulative(Weights)[k] \in Nat
          /\ \A k \in 1 .. Len(Weights) : Cumulative(Weights)[k] = Cumulative(Weights)[k - 1] + Weights[k]
      BY <2>1, RollWeights
    <2>3. CASE j <= Len(Weights)
      <3>1. j \in 1 .. Len(Weights) /\ cumulative' = Cumulative(Weights)[j] /\ cumulative' \in Nat
        <4>1. cumulative' = cumulative + Weights[j] /\ j \in 1 .. Len(Weights)
          BY <1>1, <1>6, <2>2, <2>3 DEF SelectGroup
        <4>. QED
          BY <2>1, <2>2, <4>1
      <3>2. CASE r < cumulative'
        <4>1. groupIndex' = j /\ pc' \in {"UseGroup", "Done"}
          BY <1>1, <1>6, <2>2, <2>3, <3>1, <3>2 DEF SelectGroup, Check, Goto, Return
        <4>2. SelectedGroup(Weights, r) = j
          <5>1. \A k \in 1 .. j - 1 : ~(r < Cumulative(Weights)[k])
            BY <1>1, <2>1, <2>2, <3>1
          <5>. QED
            BY <1>1, <2>2, <3>1, <3>2, <5>1, FirstAbove
        <4>. QED
          BY <1>2, <2>1, <3>1, <4>1, <4>2 DEF RollInv, InRoll, RollSteps, AfterRolls
      <3>3. CASE ~(r < cumulative')
        <4>1. pc' = "SelectGroup" /\ j' = j + 1
          BY <1>1, <1>6, <2>1, <2>2, <2>3, <3>1, <3>3 DEF SelectGroup, Check, Goto, Return
        <4>2. j' - 1 = j /\ j' <= Len(Weights) + 1
          BY <2>2, <3>1, <4>1
        <4>3. \A k \in 1 .. j : Cumulative(Weights)[k] <= r
          BY <1>1, <2>1, <3>1, <3>3
        <4>. QED
          BY <1>2, <2>1, <3>1, <4>1, <4>2, <4>3 DEF RollInv, InRoll, RollSteps, AfterRolls
      <3>. QED
        BY <3>2, <3>3
    <2>4. CASE j > Len(Weights)
      <3>1. pc' = "Done"
        BY <1>6, <2>4 DEF SelectGroup, Return
      <3>. QED
        BY <1>2, <2>1, <3>1 DEF RollInv, InRoll, RollSteps, AfterRolls
    <2>. QED
      BY <1>1, <2>2, <2>3, <2>4
  <1>7. CASE UseGroup \/ DrawItem
    <2>1. /\ info' = info /\ sum' = sum /\ roll <= Len(info.rolls) /\ sum # 0 /\ sum = TotalWeight(Weights)
          /\ \/ roll' = roll /\ pc' \in {"DrawItem", "Done"}
             \/ roll' = roll + 1 /\ pc' = "BeginRoll"
      BY <1>1, <1>7
      DEF UseGroup, DrawItem, RandomIndex, NextRoll, Goto, Die, Return, RollInv, InRoll, RollSteps, sumVars
    <2>2. TotalWeight(Weights) > 0
      BY <1>1, <2>1
    <2>3. \A n \in 1 .. roll' - 1 : n = roll \/ n \in 1 .. roll - 1
      BY <1>1, <2>1
    <2>4. \A n \in 1 .. roll' - 1 : TotalWeight(info.rolls[n]) > 0
      BY <1>2, <2>1, <2>2, <2>3 DEF Weights
    <2>5. roll' = roll => Weights' = Weights
      BY <2>1 DEF Weights
    <2>. QED
      BY <2>1, <2>4, <2>5 DEF RollInv, InRoll, RollSteps, AfterRolls
  <1>8. CASE GetPartInfo
    <2>1. roll' = 1 /\ pc' \in {"BeginRoll", "Done"}
      BY <1>8 DEF GetPartInfo, Goto, Return, Die, TypeInv, BeforeRolls, Steps, RollSteps, AfterRolls
    <2>. QED
      BY <2>1 DEF RollInv, InRoll, RollSteps, AfterRolls
  <1>9. ASSUME UNCHANGED <<info, rollVars>>,
               pc' \in BeforeRolls \cup {"Done"} \/ (pc \in AfterRolls /\ pc' \in AfterRolls) \/ pc' = pc
        PROVE  RollInv'
    BY <1>9
    DEF RollInv, Weights, rollVars, sumVars, InRoll, RollSteps, AfterRolls, BeforeRolls, Steps
  <1>10. ASSUME Audit, ~(BeginRoll \/ SumWeights \/ DrawGroup \/ SelectGroup \/ UseGroup \/ DrawItem),
                ~GetPartInfo
         PROVE  /\ UNCHANGED <<info, rollVars>>
                /\ pc' \in BeforeRolls \cup {"Done"} \/ (pc \in AfterRolls /\ pc' \in AfterRolls)
    <2>1. CASE GetMinted \/ Compare
      BY <2>1, MintedTurn
      DEF GetMinted, Compare, Return, AfterRolls
    <2>2. CASE ~(GetMinted \/ Compare)
      BY <1>10, <2>2
      DEF Audit, GetTransaction, ScanEvent, EndScan, GetBag, DecodeBag, CheckRam, CheckRandomSeed,
          CheckCrateSecret, CheckTxSeed, CheckFinalSeed, Check, Goto, Return, Die,
          BeforeRolls, Steps, RollSteps, AfterRolls
    <2>. QED
      BY <2>1, <2>2
  <1>11. CASE UNCHANGED vars
    BY <1>9, <1>11 DEF vars
  <1>. QED
    BY <1>3, <1>4, <1>5, <1>6, <1>7, <1>8, <1>9, <1>10, <1>11 DEF Next, Exit

LEMMA RollAlways == Spec => []RollInv
  <1>1. Init => RollInv
    BY DEF Init, RollInv, InRoll, RollSteps, AfterRolls
  <1>. QED
    BY <1>1, RollStep, TypeAlways, PTL DEF Spec

\* In a scan, j is the index of a weight: the last cumulative sum is above the number drawn.
LEMMA GroupFound == TypeInv /\ RollInv => SomeGroupSelected
  <1>. SUFFICES ASSUME TypeInv, RollInv, pc = "SelectGroup" PROVE j <= Len(Weights)
    BY DEF SomeGroupSelected
  <1>1. /\ roll <= Len(info.rolls) /\ j \in Nat \ {0} /\ r \in Nat /\ sum \in Nat
        /\ j <= Len(Weights) + 1 /\ r < sum /\ sum = Cumulative(Weights)[Len(Weights)]
        /\ \A k \in 1 .. j - 1 : Cumulative(Weights)[k] <= r
    BY DEF TypeInv, TypeOK, InRoll, RollSteps, RollInv, TotalWeight
  <1>2. Len(Weights) \in Nat /\ Cumulative(Weights)[0] = 0
    BY <1>1, RollWeights
  <1>3. ASSUME j = Len(Weights) + 1 PROVE FALSE
    <2>1. CASE Len(Weights) = 0
      BY <1>1, <1>2, <2>1
    <2>2. CASE Len(Weights) # 0
      BY <1>1, <1>2, <1>3, <2>2
    <2>. QED
      BY <2>1, <2>2
  <1>. QED
    BY <1>1, <1>2, <1>3

\* The scan of the weights always finds a group: Audit.h:199 cannot fire (SomeGroupSelected),
\* for any weights whose sum is not zero and any random word.
THEOREM GroupAlwaysFound == Spec => []SomeGroupSelected
  BY GroupFound, RollAlways, TypeAlways, PTL
-----------------------------------------------------------------------------
(***************************************************************************)
(* The items follow the odds.  Before is what the reference semantics has  *)
(* produced when the roll in progress begins; the words drawn since then   *)
(* are those it skips on the way to the first word it keeps.               *)
(***************************************************************************)
Odds   == Opened(bag.ram.finalSeed, info)
Before == Odds[roll - 1]
Drawn  == Bounded(Before.state, TotalWeight(Weights))
Chosen == info.groups[SelectedGroup(Weights, Drawn.index)]

OddsInv ==
  /\ pc \in BeforeRolls => itemsProduced = <<>>
  /\ WellFormed(info) =>
       /\ pc \in RollSteps \cup AfterRolls =>
            Before = [items |-> itemsProduced, state |-> Before.state]
       /\ pc \in {"BeginRoll", "SumWeights"} \cup AfterRolls => rng = Before.state
       /\ pc = "DrawGroup" => FirstKept(sum)[rng] = FirstKept(sum)[Before.state]
       /\ pc \in {"SelectGroup", "UseGroup"} => Drawn = [index |-> r, state |-> rng]
       /\ pc = "DrawItem" =>
            /\ group = Chosen
            /\ FirstKept(Len(group))[rng] = FirstKept(Len(group))[Drawn.state]

\* One turn of RandomIndex skips a word that the reference semantics skips, or keeps the
\* first word that it keeps.
LEMMA RandomDraw ==
  ASSUME NEW count \in Nat \ {0}, rng \in Words, NEW start,
         FirstKept(count)[rng] = FirstKept(count)[start],
         NEW step, pc # step, RandomIndex(count, step)
  PROVE  \/ /\ pc' = pc
            /\ FirstKept(count)[rng'] = FirstKept(count)[start]
         \/ /\ pc' = step
            /\ Bounded(start, count) = [index |-> r', state |-> rng']
  <1>1. RngOutput[rng] \in Int /\ EndValid(count) \in Int
    BY RngAssumption, WordAssumption DEF EndValid
  <1>2. CASE RngOutput[rng] < EndValid(count)
    <2>1. FirstKept(count)[start] = rng
      BY <1>2, FirstKeptIs
    <2>2. pc' = step /\ r' = RngOutput[rng] % count /\ rng' = RngNext[rng]
      BY <1>1, <1>2 DEF RandomIndex
    <2>. QED
      BY <2>1, <2>2 DEF Bounded
  <1>3. CASE ~(RngOutput[rng] < EndValid(count))
    <2>1. FirstKept(count)[rng] = FirstKept(count)[RngNext[rng]]
      BY <1>3, FirstKeptIs
    <2>2. pc' = pc /\ rng' = RngNext[rng]
      BY <1>1, <1>3 DEF RandomIndex
    <2>. QED
      BY <2>1, <2>2
  <1>. QED
    BY <1>2, <1>3

\* A roll that ends gives what OpenRoll gives.
LEMMA RollEnds ==
  ASSUME TypeInv, roll <= Len(info.rolls), UNCHANGED <<bag, info>>, roll' = roll + 1,
         OpenRoll(Before, Weights, info.groups) = [items |-> itemsProduced', state |-> rng']
  PROVE  Before' = [items |-> itemsProduced', state |-> rng']
  <1>1. info \in PartInfos /\ roll \in 1 .. Len(info.rolls) /\ roll' - 1 = roll
    BY RollWeights DEF TypeInv, TypeOK
  <1>2. Odds[roll] = OpenRoll(Odds[roll - 1], info.rolls[roll], info.groups)
    <2>. DEFINE opened == Opened(bag.ram.finalSeed, info)
    <2>1. \A k \in 1 .. Len(info.rolls) : opened[k] = OpenRoll(opened[k - 1], info.rolls[k], info.groups)
      BY <1>1, OpenedIs, Zenon
    <2>2. opened[roll] = OpenRoll(opened[roll - 1], info.rolls[roll], info.groups)
      <3>. HIDE DEF opened
      <3>. QED BY <1>1, <2>1, Zenon
    <2>. QED
      BY <2>2, Zenon DEF Odds
  <1>3. Before' = Odds[roll]
    BY <1>1 DEF Before, Odds
  <1>. QED
    BY <1>2, <1>3 DEF Before, Weights

LEMMA OddsStep == TypeInv /\ RollInv /\ OddsInv /\ [Next]_vars => OddsInv'
  <1>. SUFFICES ASSUME TypeInv, RollInv, OddsInv, [Next]_vars PROVE OddsInv'
    OBVIOUS
  <1>1. /\ info \in PartInfos /\ rng \in Words /\ sum \in Nat /\ r \in Nat
        /\ group \in Seq(Items \cup {0}) /\ pc \in Steps
        /\ pc \in InRoll => roll <= Len(info.rolls)
    BY DEF TypeInv, TypeOK
  <1>2. CASE GetPartInfo
    <2>1. pc' = "Done" \/ (pc' = "BeginRoll" /\ rng' = bag'.ram.finalSeed /\ itemsProduced' = <<>> /\ roll' = 1)
      BY <1>2
      DEF GetPartInfo, Goto, Return, Die, OddsInv, TypeInv, BeforeRolls, Steps, RollSteps, AfterRolls
    <2>2. info' \in PartInfos
      BY <1>2, TypeGetPartInfo DEF TypeInv, TypeOK
    <2>3. Opened(bag'.ram.finalSeed, info')[0] = [items |-> <<>>, state |-> bag'.ram.finalSeed]
      BY <2>2, OpenedIs
    <2>4. roll' = 1 => Before' = [items |-> <<>>, state |-> bag'.ram.finalSeed]
      BY <2>3 DEF Before, Odds
    <2>. QED
      BY <2>1, <2>4 DEF OddsInv, BeforeRolls, Steps, RollSteps, AfterRolls
  <1>3. ASSUME UNCHANGED <<bag, info, itemsProduced>>, UNCHANGED roll
        PROVE  Before' = Before /\ Drawn' = Drawn /\ Chosen' = Chosen /\ WellFormed(info') = WellFormed(info)
    BY <1>3 DEF Before, Odds, Drawn, Chosen, Weights
  <1>4. CASE BeginRoll \/ SumWeights
    <2>1. /\ pc \in {"BeginRoll", "SumWeights"} /\ UNCHANGED <<bag, info, itemsProduced, roll, rng>>
          /\ pc' \in {"SumWeights", "GetMinted", "DrawGroup", "Done"}
      BY <1>4 DEF BeginRoll, SumWeights, Goto, Die, Return
    <2>. QED
      BY <1>3, <2>1 DEF OddsInv, BeforeRolls, Steps, RollSteps, AfterRolls
  <1>5. CASE DrawGroup
    <2>1. /\ pc = "DrawGroup" /\ UNCHANGED <<bag, info, itemsProduced, roll, sum>>
          /\ RandomIndex(sum, "SelectGroup")
      BY <1>5 DEF DrawGroup
    <2>2. sum \in Nat \ {0} /\ sum = TotalWeight(Weights)
      BY <1>1, <2>1 DEF RollInv, InRoll, RollSteps
    <2>3. ASSUME FirstKept(sum)[rng] = FirstKept(sum)[Before.state]
          PROVE  \/ pc' = "DrawGroup" /\ FirstKept(sum)[rng'] = FirstKept(sum)[Before.state]
                 \/ pc' = "SelectGroup" /\ Drawn = [index |-> r', state |-> rng']
      BY <1>1, <2>1, <2>2, <2>3, RandomDraw DEF Drawn
    <2>4. pc' \in {"DrawGroup", "SelectGroup"}
      BY <2>1 DEF RandomIndex
    <2>. QED
      BY <1>3, <2>1, <2>3, <2>4 DEF OddsInv, BeforeRolls, Steps, RollSteps, AfterRolls
  <1>6. CASE SelectGroup
    <2>1. /\ pc = "SelectGroup" /\ UNCHANGED <<bag, info, itemsProduced, roll, rng, r>>
          /\ pc' \in {"SelectGroup", "UseGroup", "Done"}
      BY <1>6 DEF SelectGroup, Check, Goto, Return
    <2>. QED
      BY <1>3, <2>1 DEF OddsInv, BeforeRolls, Steps, RollSteps, AfterRolls
  <1>7. CASE UseGroup
    <2>1. /\ pc = "UseGroup" /\ UNCHANGED <<bag, info, itemsProduced, rng>> /\ roll <= Len(info.rolls)
          /\ groupIndex \in 1 .. Len(Weights) /\ groupIndex = SelectedGroup(Weights, r)
          /\ \/ pc' = "Done"
             \/ /\ group' \in GroupsAt(groupIndex)
                /\ \/ group' = <<>> /\ pc' = "BeginRoll" /\ roll' = roll + 1
                   \/ group' # <<>> /\ pc' = "DrawItem" /\ roll' = roll
      BY <1>1, <1>7 DEF UseGroup, NextRoll, Goto, Die, Return, RollInv, InRoll, RollSteps
    <2>2. ASSUME WellFormed(info), pc' # "Done" PROVE group' = Chosen
      <3>1. Drawn.index = r
        BY <2>1, <2>2 DEF OddsInv
      <3>2. Len(Weights) <= Len(info.groups) /\ Len(Weights) \in Nat /\ Len(info.groups) \in Nat
        BY <1>1, <2>1, <2>2, RollWeights, InfoFields DEF WellFormed, Weights
      <3>3. groupIndex <= Len(info.groups)
        BY <2>1, <3>2
      <3>. QED
        BY <2>1, <2>2, <3>1, <3>3 DEF GroupsAt, Chosen
    <2>3. ASSUME WellFormed(info), pc' = "BeginRoll"
          PROVE  Before' = [items |-> itemsProduced', state |-> rng']
      <3>1. group' = Chosen /\ group' = <<>> /\ roll' = roll + 1
        BY <2>1, <2>2, <2>3
      <3>2. Drawn.state = rng /\ Before = [items |-> itemsProduced, state |-> Before.state]
        BY <2>1, <2>3 DEF OddsInv, RollSteps
      <3>3. OpenRoll(Before, Weights, info.groups) = [Before EXCEPT !.state = rng]
        BY <3>1, <3>2 DEF OpenRoll, Chosen, Drawn
      <3>4. [Before EXCEPT !.state = rng] = [items |-> itemsProduced, state |-> rng]
        BY <3>2
      <3>. QED
        BY <2>1, <3>1, <3>3, <3>4, RollEnds
    <2>4. CASE pc' = "BeginRoll"
      BY <2>1, <2>3, <2>4 DEF OddsInv, BeforeRolls, Steps, RollSteps, AfterRolls
    <2>5. CASE pc' = "DrawItem"
      <3>1. UNCHANGED roll
        BY <2>1, <2>5
      <3>2. WellFormed(info) => Drawn.state = rng /\ group' = Chosen
        BY <2>1, <2>2, <2>5 DEF OddsInv
      <3>3. WellFormed(info) => Before = [items |-> itemsProduced, state |-> Before.state]
        BY <2>1 DEF OddsInv, RollSteps
      <3>. QED
        BY <1>3, <2>1, <2>5, <3>1, <3>2, <3>3 DEF OddsInv, BeforeRolls, Steps, RollSteps, AfterRolls
    <2>6. CASE pc' = "Done"
      BY <2>6 DEF OddsInv, BeforeRolls, Steps, RollSteps, AfterRolls
    <2>. QED
      BY <2>1, <2>4, <2>5, <2>6
  <1>8. CASE DrawItem
    <2>1. /\ pc = "DrawItem" /\ UNCHANGED <<bag, info, group>> /\ roll <= Len(info.rolls)
          /\ RandomIndex(Len(group), "BeginRoll")
          /\ \/ /\ pc' = "BeginRoll" /\ itemsProduced' = Append(itemsProduced, group[r' + 1])
                /\ roll' = roll + 1
             \/ pc' = "DrawItem" /\ UNCHANGED <<itemsProduced, roll>>
      BY <1>1, <1>8 DEF DrawItem, RandomIndex, InRoll, RollSteps
    <2>2. Len(group) \in Nat \ {0} /\ group # <<>>
      BY <1>1, <2>1 DEF TypeInv
    <2>3. ASSUME WellFormed(info)
          PROVE  /\ group = Chosen /\ Before = [items |-> itemsProduced, state |-> Before.state]
                 /\ \/ pc' = "DrawItem" /\ FirstKept(Len(group))[rng'] = FirstKept(Len(group))[Drawn.state]
                    \/ /\ pc' = "BeginRoll"
                       /\ Bounded(Drawn.state, Len(group)) = [index |-> r', state |-> rng']
      <3>1. /\ group = Chosen /\ Before = [items |-> itemsProduced, state |-> Before.state]
            /\ FirstKept(Len(group))[rng] = FirstKept(Len(group))[Drawn.state]
        BY <2>1, <2>3 DEF OddsInv, RollSteps
      <3>. QED
        BY <1>1, <2>1, <2>2, <3>1, RandomDraw
    <2>4. CASE pc' = "BeginRoll"
      <3>1. ASSUME WellFormed(info) PROVE Before' = [items |-> itemsProduced', state |-> rng']
        <4>1. /\ group = Chosen /\ Before.items = itemsProduced
              /\ Bounded(Drawn.state, Len(group)) = [index |-> r', state |-> rng']
          BY <2>3, <2>4, <3>1
        <4>2. OpenRoll(Before, Weights, info.groups) =
                [items |-> Append(Before.items, group[r' + 1]), state |-> rng']
          BY <2>2, <4>1 DEF OpenRoll, Chosen, Drawn
        <4>. QED
          BY <2>1, <2>4, <4>1, <4>2, RollEnds
      <3>. QED
        BY <2>1, <2>4, <3>1 DEF OddsInv, BeforeRolls, Steps, RollSteps, AfterRolls
    <2>5. CASE pc' = "DrawItem"
      <3>1. UNCHANGED <<itemsProduced, roll>>
        BY <2>1, <2>5
      <3>. QED
        BY <1>3, <2>1, <2>3, <2>5, <3>1 DEF OddsInv, BeforeRolls, Steps, RollSteps, AfterRolls
    <2>. QED
      BY <2>1, <2>4, <2>5
  <1>9. ASSUME UNCHANGED <<info, rollVars>>, UNCHANGED bag,
               pc' = "Done" \/ (pc \in AfterRolls /\ pc' \in AfterRolls) \/ pc' = pc
        PROVE  OddsInv'
    <2>1. UNCHANGED <<rng, roll, sum, r, group, itemsProduced>>
      BY <1>9 DEF rollVars, sumVars
    <2>. QED
      BY <1>3, <1>9, <2>1 DEF OddsInv, BeforeRolls, Steps, RollSteps, AfterRolls
  <1>10. ASSUME UNCHANGED rollVars, pc \in BeforeRolls, pc' \in BeforeRolls
         PROVE  OddsInv'
    BY <1>10 DEF OddsInv, rollVars, BeforeRolls, Steps, RollSteps, AfterRolls
  <1>11. ASSUME Audit, ~(BeginRoll \/ SumWeights \/ DrawGroup \/ SelectGroup \/ UseGroup \/ DrawItem),
                ~GetPartInfo
         PROVE  /\ UNCHANGED <<info, rollVars>>
                /\ \/ pc' = "Done" /\ (pc \in AfterRolls => UNCHANGED bag)
                   \/ pc \in AfterRolls /\ pc' \in AfterRolls /\ UNCHANGED bag
                   \/ pc \in BeforeRolls /\ pc' \in BeforeRolls
    <2>1. CASE GetMinted \/ Compare
      BY <2>1, MintedTurn
      DEF GetMinted, Compare, Return, AfterRolls
    <2>2. CASE ~(GetMinted \/ Compare)
      BY <1>11, <2>2
      DEF Audit, GetTransaction, ScanEvent, EndScan, GetBag, DecodeBag, CheckRam, CheckRandomSeed,
          CheckCrateSecret, CheckTxSeed, CheckFinalSeed, Check, Goto, Return, Die,
          BeforeRolls, Steps, RollSteps, AfterRolls
    <2>. QED
      BY <2>1, <2>2
  <1>12. ASSUME pc' = "Done" PROVE OddsInv'
    BY <1>12 DEF OddsInv, BeforeRolls, Steps, RollSteps, AfterRolls
  <1>13. CASE UNCHANGED vars
    BY <1>9, <1>13 DEF vars
  <1>. QED
    BY <1>2, <1>4, <1>5, <1>6, <1>7, <1>8, <1>9, <1>10, <1>11, <1>12, <1>13 DEF Next, Exit

LEMMA OddsAlways == Spec => []OddsInv
  <1>1. Init => OddsInv
    BY DEF Init, OddsInv, BeforeRolls, Steps, RollSteps, AfterRolls
  <1>. QED
    BY <1>1, OddsStep, RollAlways, TypeAlways, PTL DEF Spec

\* For every generator, every seed and all well-formed odds: the items the tool produces are, roll
\* by roll, those the odds give, and it has used as many words of the generator as they take, in
\* any pattern of rejected words (RollsFollowOdds; Audit.h:172-214, random.h:35-51).
THEOREM ItemsFollowOdds == Spec => []RollsFollowOdds
  <1>1. OddsInv => RollsFollowOdds
    <2>. SUFFICES ASSUME OddsInv, pc \in {"BeginRoll", "GetMinted"}, WellFormed(info)
                  PROVE  [items |-> itemsProduced, state |-> rng] = Before
      BY DEF RollsFollowOdds, Before, Odds
    <2>. QED
      BY DEF OddsInv, RollSteps, AfterRolls
  <1>. QED
    BY <1>1, OddsAlways, PTL
=============================================================================
