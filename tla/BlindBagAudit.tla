--------------------------- MODULE BlindBagAudit ---------------------------
(***************************************************************************)
(* AuditBoxTx of Audit.h, as a machine that takes one step per fetch, per  *)
(* early return and per random word.  Every fetch may be answered by the   *)
(* ledger, by a transport error, by an RPC error or by a reply in which    *)
(* members are missing.                                                    *)
(*                                                                         *)
(* main.cpp maps PHANTASMA_EXCEPTION to DebugBreak(): where the SDK raises *)
(* one, the process dies unless a debugger continues it.  "Crash" is the   *)
(* verdict of a process that died.  A transport error, a missing array and *)
(* a missing boolean raise none: they only set err.                        *)
(***************************************************************************)
EXTENDS BlindBag

CONSTANTS
  Worlds0,       \* the worlds considered
  StrayGroups    \* what a read past the end of info.groups may yield

ASSUME WorldsAssumption == Worlds0 \subseteq Worlds /\ StrayGroups \subseteq Seq(Items)

VARIABLES
  world, debugger,           \* the environment, fixed
  faulty,                    \* history: a reply was not the ledger's
  pc, verdict,
  err,                       \* the PhantasmaError shared by all calls
  tx,                        \* the transaction as received
  evt, numBurnt, nftId, nftIdsMinted,  \* the scan of its events, evt the next
  bag,                       \* ROM and RAM of the burnt token
  info,                      \* the parsed part_info
  rng,                       \* the generator's state
  roll, j, sum, cumulative,  \* the roll in progress: next weight, sums of weights
  r, groupIndex, group,      \* the number drawn, the group it selects
  itemsProduced, itemsMinted

envVars  == <<world, debugger>>
scanVars == <<evt, numBurnt, nftId, nftIdsMinted>>
txVars   == <<tx, scanVars>>
sumVars  == <<j, sum, cumulative>>
rollVars == <<rng, roll, sumVars, r, groupIndex, group, itemsProduced>>
vars == <<envVars, faulty, pc, verdict, err, txVars, bag, info, rollVars, itemsMinted>>

Errors  == {"None", "HttpError", "RpcError", "InvalidJSON"}
Results == {"Error", "Unsuitable", "Indeterminate", "Mismatch", "Match"}

Steps == {"GetTransaction", "ScanEvents", "GetBag", "DecodeBag", "CheckRam",
          "CheckRandomSeed", "CheckCrateSecret", "CheckTxSeed", "CheckFinalSeed",
          "GetPartInfo", "BeginRoll", "SumWeights", "DrawGroup", "SelectGroup", "UseGroup",
          "DrawItem", "GetMinted", "Compare", "Done"}

EmptyTx   == [events |-> <<>>, payload |-> Unparsable]
EmptyInfo == [groups |-> <<>>, rolls |-> <<>>]

\* A TokenData whose rom and ram are empty strings: neither decodes.
EmptyToken ==
  [rom |-> [type |-> "Undecodable", raises |-> TRUE, itemId |-> 0, randomSeed |-> 0,
            secretHash |-> CHOOSE d \in Digests : TRUE],
   ram |-> [long |-> FALSE, raises |-> TRUE, crateSeed |-> CHOOSE s \in Seeds : TRUE,
            randomSeed |-> 0, finalSeed |-> 0, txSeed |-> NullHash]]

Init ==
  /\ world \in Worlds0 /\ debugger \in BOOLEAN
  /\ faulty = FALSE /\ pc = "GetTransaction" /\ verdict = "Pending" /\ err = "None"
  /\ tx = EmptyTx /\ evt = 1 /\ numBurnt = 0 /\ nftId = 0 /\ nftIdsMinted = <<>>
  /\ bag = EmptyToken /\ info = EmptyInfo
  /\ rng = 0 /\ roll = 1 /\ j = 1 /\ sum = 0 /\ cumulative = 0
  /\ r = 0 /\ groupIndex = 0 /\ group = <<>>
  /\ itemsProduced = <<>> /\ itemsMinted = <<>>
-----------------------------------------------------------------------------
Return(v) == pc' = "Done" /\ verdict' = v

Goto(step) == pc' = step /\ UNCHANGED verdict

\* Mutant of Check: the verdict is stored, and the function goes on.
CheckNoReturn(ok, step, v) == IF ok THEN Goto(step) ELSE pc' = step /\ verdict' = v

\* Go on if the check passes, else return v.
Check(ok, step, v) == IF ok THEN Goto(step) ELSE Return(v)

\* An unhandled DebugBreak, or a failed assertion, or memory that is not the program's.
Die == Return("Crash")

Ledger    == UNCHANGED faulty
Fault(e)  == faulty' = TRUE /\ err' = e

NoEvents == [world.tx EXCEPT !.events = <<>>]

\* The transaction with the data of one event missing.
Garbled(i) ==
  [world.tx EXCEPT !.events[i] = [@ EXCEPT !.symbol = "", !.data = "Malformed"]]

\* The RPC checks and most JSON checks raise PHANTASMA_EXCEPTION before they set the error
\* code; a reply without the array of events sets it and nothing else.
GetTransaction ==
  /\ pc = "GetTransaction"
  /\ \/ Ledger /\ tx' = world.tx /\ Goto("ScanEvents") /\ UNCHANGED err
     \/ Fault("HttpError") /\ tx' = EmptyTx /\ Goto("ScanEvents")
     \/ debugger /\ Fault("RpcError") /\ tx' = EmptyTx /\ Goto("ScanEvents")
     \/ Fault("InvalidJSON") /\ tx' = NoEvents /\ Goto("ScanEvents")
     \/ /\ debugger /\ Fault("InvalidJSON") /\ Goto("ScanEvents")
        /\ tx' \in {world.tx, [world.tx EXCEPT !.payload = Unparsable]}
                  \cup {Garbled(i) : i \in 1 .. Len(world.tx.events)}
     \/ ~debugger /\ faulty' = TRUE /\ Die /\ UNCHANGED <<err, tx>>
  /\ UNCHANGED <<envVars, scanVars, bag, info, rollVars, itemsMinted>>

\* Decoding the event's data ends the process.
Fatal(e) ==
  /\ HoldsToken(e)
  /\ e.data = "Oversized" \/ (e.data = "Malformed" /\ ~debugger)

\* The data are decoded before their symbol is looked at.
UseEvent(e) ==
  /\ numBurnt' = IF IsBurn(e) THEN numBurnt + 1 ELSE numBurnt
  /\ nftId' = IF IsBurn(e) THEN e.id ELSE nftId
  /\ nftIdsMinted' = IF IsMint(e) THEN Append(nftIdsMinted, e.id) ELSE nftIdsMinted
  /\ evt' = evt + 1

\* err is not looked at here: a transaction that did not arrive has no events.
ScanEvent ==
  /\ pc = "ScanEvents" /\ evt <= Len(tx.events)
  /\ IF Fatal(tx.events[evt])
       THEN Die /\ UNCHANGED scanVars
       ELSE UseEvent(tx.events[evt]) /\ UNCHANGED <<pc, verdict>>
  /\ UNCHANGED <<envVars, faulty, err, tx, bag, info, rollVars, itemsMinted>>

EndScan ==
  /\ pc = "ScanEvents" /\ evt > Len(tx.events)
  /\ \/ (nftId = 0 \/ nftIdsMinted = <<>>) /\ Return("Unsuitable")
     \/ nftId # 0 /\ nftIdsMinted # <<>> /\ Check(numBurnt <= 1, "GetBag", "Error")
  /\ UNCHANGED <<envVars, faulty, err, txVars, bag, info, rollVars, itemsMinted>>

\* With an error left by an earlier call the reply is not even parsed.  A reply in which only
\* forSale is missing raises nothing.
GetBag ==
  /\ pc = "GetBag"
  /\ \/ err = "None" /\ Ledger /\ bag' = world.tokens[nftId] /\ Goto("DecodeBag") /\ UNCHANGED err
     \/ /\ err = "None" /\ \E e \in {"HttpError", "InvalidJSON"} : Fault(e)
        /\ Return("Indeterminate") /\ UNCHANGED bag
     \/ /\ err = "None" /\ debugger /\ Fault("RpcError")
        /\ Return("Indeterminate") /\ UNCHANGED bag
     \/ err = "None" /\ ~debugger /\ faulty' = TRUE /\ Die /\ UNCHANGED <<err, bag>>
     \/ err # "None" /\ Return("Indeterminate") /\ UNCHANGED <<faulty, err, bag>>
  /\ UNCHANGED <<envVars, txVars, info, rollVars, itemsMinted>>

\* A crate's secret always decodes to CrateSecret::LENGTH bytes, so the size test passes.
DecodeBag ==
  /\ pc = "DecodeBag"
  /\ IF bag.rom.raises /\ ~debugger
       THEN Die
       ELSE Check(bag.rom.type = "Crate", "CheckRam", "Unsuitable")
  /\ UNCHANGED <<envVars, faulty, err, txVars, bag, info, rollVars, itemsMinted>>

CheckRam ==
  /\ pc = "CheckRam"
  /\ IF bag.ram.raises /\ ~debugger
       THEN Die
       ELSE Check(bag.ram.long, "CheckRandomSeed", "Error")
  /\ UNCHANGED <<envVars, faulty, err, txVars, bag, info, rollVars, itemsMinted>>

CheckRandomSeed ==
  /\ pc = "CheckRandomSeed"
  /\ Check(bag.rom.randomSeed = bag.ram.randomSeed, "CheckCrateSecret", "Mismatch")
  /\ UNCHANGED <<envVars, faulty, err, txVars, bag, info, rollVars, itemsMinted>>

CheckCrateSecret ==
  /\ pc = "CheckCrateSecret"
  /\ Check(Sha256[<<bag.ram.crateSeed, bag.rom.randomSeed>>] = bag.rom.secretHash,
           "CheckTxSeed", "Mismatch")
  /\ UNCHANGED <<envVars, faulty, err, txVars, bag, info, rollVars, itemsMinted>>

\* Mutant of CheckTxSeed: the payload is parsed and not compared.
CheckTxSeedForgotten ==
  /\ pc = "CheckTxSeed"
  /\ IF tx.payload = Unparsable /\ ~debugger THEN Die ELSE Goto("CheckFinalSeed")
  /\ UNCHANGED <<envVars, faulty, err, txVars, bag, info, rollVars, itemsMinted>>

CheckTxSeed ==
  /\ pc = "CheckTxSeed"
  /\ IF tx.payload = Unparsable /\ ~debugger
       THEN Die
       ELSE Check(bag.ram.txSeed = ParseHash(tx.payload), "CheckFinalSeed", "Mismatch")
  /\ UNCHANGED <<envVars, faulty, err, txVars, bag, info, rollVars, itemsMinted>>

CheckFinalSeed ==
  /\ pc = "CheckFinalSeed"
  /\ Check(bag.ram.finalSeed = FinalSeedOf(bag.ram), "GetPartInfo", "Mismatch")
  /\ UNCHANGED <<envVars, faulty, err, txVars, bag, info, rollVars, itemsMinted>>

HasZeroItem(i) == \E g \in 1 .. Len(i.groups) : \E n \in 1 .. Len(i.groups[g]) :
                     i.groups[g][n] = 0

\* The web site answers with its part_info, not at all, or with something else: a page
\* without the arrays breaks in the JSON parser, one with ill-typed entries does not.
GetPartInfo ==
  /\ pc = "GetPartInfo"
  /\ \/ /\ Ledger /\ ~HasZeroItem(world.info)
        /\ info' = world.info /\ rng' = bag.ram.finalSeed /\ Goto("BeginRoll")
     \/ /\ Ledger /\ HasZeroItem(world.info) /\ Return("Error") /\ UNCHANGED <<info, rng>>
     \/ faulty' = TRUE /\ Return("Indeterminate") /\ UNCHANGED <<info, rng>>
     \/ faulty' = TRUE /\ Return("Error") /\ UNCHANGED <<info, rng>>
     \/ ~debugger /\ faulty' = TRUE /\ Die /\ UNCHANGED <<info, rng>>
  /\ UNCHANGED <<envVars, err, txVars, bag, roll, sumVars, r, groupIndex, group,
                 itemsProduced, itemsMinted>>
-----------------------------------------------------------------------------
\* The loop head: all rolls done, or the weights of the next one to add up.
BeginRoll ==
  /\ pc = "BeginRoll"
  /\ \/ roll > Len(info.rolls) /\ Goto("GetMinted") /\ UNCHANGED <<j, sum>>
     \/ roll <= Len(info.rolls) /\ Goto("SumWeights") /\ j' = 1 /\ sum' = 0
  /\ UNCHANGED <<envVars, faulty, err, txVars, bag, info, rng, roll, cumulative, r,
                 groupIndex, group, itemsProduced, itemsMinted>>

Weights == info.rolls[roll]

\* The sum is asserted nonzero; a release build returns instead.
SumWeights ==
  /\ pc = "SumWeights"
  /\ \/ /\ j <= Len(Weights)
        /\ j' = j + 1 /\ sum' = sum + Weights[j] /\ UNCHANGED <<pc, verdict>>
     \/ /\ j > Len(Weights) /\ UNCHANGED <<j, sum>>
        /\ \/ sum = 0 /\ (Die \/ Return("Error"))
           \/ sum # 0 /\ Goto("DrawGroup")
  /\ UNCHANGED <<envVars, faulty, err, txVars, bag, info, rng, roll, cumulative, r,
                 groupIndex, group, itemsProduced, itemsMinted>>

\* Mutants of RandomIndex: no word is rejected; the word is not reduced; a rejected word is
\* looked at again.
RandomIndexBiased(count, step) ==
  rng' = RngNext[rng] /\ r' = RngOutput[rng] % count /\ pc' = step

RandomIndexUnreduced(count, step) ==
  rng' = RngNext[rng] /\ r' = RngOutput[rng] /\ pc' = step

RandomIndexStuck(count, step) ==
  IF RngOutput[rng] >= EndValid(count)
    THEN UNCHANGED <<rng, r, pc>>
    ELSE rng' = RngNext[rng] /\ r' = RngOutput[rng] % count /\ pc' = step

\* One turn of RandomIndex's do-while: take a word; keep it, reduced, unless it is rejected.
RandomIndex(count, step) ==
  /\ rng' = RngNext[rng]
  /\ \/ /\ RngOutput[rng] >= EndValid(count)
        /\ UNCHANGED <<r, pc>>
     \/ /\ RngOutput[rng] < EndValid(count)
        /\ r' = RngOutput[rng] % count
        /\ pc' = step

DrawGroup ==
  /\ pc = "DrawGroup"
  /\ RandomIndex(sum, "SelectGroup")
  /\ j' = 1 /\ cumulative' = 0
  /\ UNCHANGED <<envVars, faulty, verdict, err, txVars, bag, info, roll, sum, groupIndex, group,
                 itemsProduced, itemsMinted>>

\* groupIndex counts from 1 here: "groupIndex > size" of the code lets size + 1 pass.
GroupInRange(g) == g <= Len(info.groups) + 1

\* The scan stops at the first weight that takes the running total above r; running off the
\* end is an Error, and asserted not to happen.
SelectGroup ==
  /\ pc = "SelectGroup"
  /\ IF j > Len(Weights)
       THEN Return("Error") /\ UNCHANGED <<j, cumulative, groupIndex>>
       ELSE /\ cumulative' = cumulative + Weights[j]
            /\ \/ /\ r < cumulative'
                  /\ groupIndex' = j /\ Check(GroupInRange(j), "UseGroup", "Error")
                  /\ UNCHANGED j
               \/ r >= cumulative' /\ j' = j + 1 /\ UNCHANGED <<pc, verdict, groupIndex>>
  /\ UNCHANGED <<envVars, faulty, err, txVars, bag, info, rng, roll, sum, r, group,
                 itemsProduced, itemsMinted>>

\* info.groups[groupIndex]; one past the end is whatever memory holds there.
GroupsAt(g) == IF g <= Len(info.groups) THEN {info.groups[g]} ELSE StrayGroups

NextRoll == roll' = roll + 1 /\ Goto("BeginRoll")

UseGroup ==
  /\ pc = "UseGroup"
  /\ \/ /\ group' \in GroupsAt(groupIndex)
        /\ IF group' = <<>> THEN NextRoll ELSE Goto("DrawItem") /\ UNCHANGED roll
     \/ groupIndex > Len(info.groups) /\ Die /\ UNCHANGED <<group, roll>>
  /\ UNCHANGED <<envVars, faulty, err, txVars, bag, info, rng, sumVars, r, groupIndex,
                 itemsProduced, itemsMinted>>

DrawItem ==
  /\ pc = "DrawItem"
  /\ RandomIndex(Len(group), "BeginRoll")
  /\ IF pc' = "BeginRoll"
       THEN itemsProduced' = Append(itemsProduced, group[r' + 1]) /\ roll' = roll + 1
       ELSE UNCHANGED <<itemsProduced, roll>>
  /\ UNCHANGED <<envVars, faulty, verdict, err, txVars, bag, info, sumVars, groupIndex, group,
                 itemsMinted>>
-----------------------------------------------------------------------------
Decodes(token) == token.rom.type \in ItemTypes

\* Mutant of DecodeMinted: leave the loop, not the function.
DecodeMintedBreak(token) ==
  IF Decodes(token)
    THEN itemsMinted' = Append(itemsMinted, token.rom.itemId) /\ Goto("GetMinted")
    ELSE UNCHANGED itemsMinted /\ Goto("Compare")

\* Use the data of a minted token.
DecodeMinted(token) ==
  IF Decodes(token)
    THEN itemsMinted' = Append(itemsMinted, token.rom.itemId) /\ Goto("GetMinted")
    ELSE UNCHANGED itemsMinted /\ Return("Error")

\* Decode it first: err is not looked at, and an empty ROM raises.
UseMinted(token) ==
  IF token.rom.raises /\ ~debugger THEN Die /\ UNCHANGED itemsMinted ELSE DecodeMinted(token)

NextMinted == world.tokens[nftIdsMinted[Len(itemsMinted) + 1]]

GetMinted ==
  /\ pc = "GetMinted"
  /\ \/ /\ Len(itemsMinted) = Len(nftIdsMinted)
        /\ Goto("Compare") /\ UNCHANGED <<faulty, err, itemsMinted>>
     \/ /\ Len(itemsMinted) < Len(nftIdsMinted)
        /\ \/ err = "None" /\ Ledger /\ UNCHANGED err /\ UseMinted(NextMinted)
           \/ err = "None" /\ Fault("InvalidJSON") /\ UseMinted(NextMinted)
           \/ err = "None" /\ Fault("HttpError") /\ UseMinted(EmptyToken)
           \/ /\ err = "None" /\ debugger /\ \E e \in {"RpcError", "InvalidJSON"} : Fault(e)
              /\ UseMinted(EmptyToken)
           \/ err # "None" /\ UNCHANGED <<faulty, err>> /\ UseMinted(EmptyToken)
           \/ /\ err = "None" /\ ~debugger /\ faulty' = TRUE /\ Die
              /\ UNCHANGED <<err, itemsMinted>>
  /\ UNCHANGED <<envVars, txVars, bag, info, rollVars>>

Compare ==
  /\ pc = "Compare"
  /\ Return(IF itemsMinted = itemsProduced THEN "Match" ELSE "Mismatch")
  /\ UNCHANGED <<envVars, faulty, err, txVars, bag, info, rollVars, itemsMinted>>

Audit ==
  \/ GetTransaction \/ ScanEvent \/ EndScan \/ GetBag \/ DecodeBag \/ CheckRam
  \/ CheckRandomSeed \/ CheckCrateSecret \/ CheckTxSeed \/ CheckFinalSeed
  \/ GetPartInfo \/ BeginRoll \/ SumWeights \/ DrawGroup \/ SelectGroup \/ UseGroup \/ DrawItem
  \/ GetMinted \/ Compare

\* main prints the verdict and exits.
Exit == pc = "Done" /\ UNCHANGED vars

Next == Audit \/ Exit

Spec == Init /\ [][Next]_vars

\* Nothing but the process itself can stop it between two calls, and curl returns.
FairSpec == Spec /\ WF_vars(Audit)
-----------------------------------------------------------------------------
TypeOK ==
  /\ world \in Worlds /\ debugger \in BOOLEAN /\ faulty \in BOOLEAN
  /\ pc \in Steps /\ verdict \in Results \cup {"Pending", "Crash"} /\ err \in Errors
  /\ (pc = "Done") = (verdict # "Pending")
  /\ tx \in Transactions /\ nftId \in Ids /\ nftIdsMinted \in Seq(Ids)
  /\ evt \in 1 .. Len(tx.events) + 1 /\ numBurnt \in Nat
  /\ bag \in Tokens /\ info \in PartInfos
  /\ rng \in Words /\ roll \in 1 .. Len(info.rolls) + 1
  /\ j \in Nat \ {0} /\ sum \in Nat /\ cumulative \in Nat /\ r \in Nat
  /\ groupIndex \in Nat /\ group \in Seq(Items \cup {0})
  /\ itemsProduced \in Seq(Items \cup {0}) /\ itemsMinted \in Seq(Words)
  /\ Len(itemsMinted) <= Len(nftIdsMinted)

\* A Match rests on the ledger and on nothing else: the transaction burnt one bag, a crate;
\* every seed that crate publishes is the committed one; and the list that was compared is,
\* in order, what the ledger says of every token the transaction minted, even when a reply
\* failed on the way and left err set (Audit.h:23-106, 217-234).
MatchRestsOnLedger ==
  verdict = "Match" =>
    /\ OnlyBurn(nftId, world.tx.events) /\ nftId # 0
    /\ world.tokens[nftId].rom.type = "Crate"
    /\ SeedsKept(world.tokens[nftId], world.tx.payload)
    /\ ListsMints(nftIdsMinted, world.tx.events)
    /\ itemsMinted = [k \in 1 .. Len(nftIdsMinted) |-> world.tokens[nftIdsMinted[k]].rom.itemId]
    /\ itemsMinted = itemsProduced

\* Between two rolls the items produced and the generator's state are those the published
\* odds give: no word is skipped, used twice or drawn for an empty group (Audit.h:172-214,
\* random.h:35-51), for odds in which every roll selects a listed group.
RollsFollowOdds ==
  pc \in {"BeginRoll", "GetMinted"} /\ WellFormed(info) =>
    [items |-> itemsProduced, state |-> rng] = Opened(bag.ram.finalSeed, info)[roll - 1]

\* The assertion of Audit.h:199: the scan of the weights finds a group before it runs off
\* the end, because the number drawn is below their total.
SomeGroupSelected ==
  pc = "SelectGroup" => j <= Len(Weights)

\* The access at Audit.h:205 is to a group the web site lists.
GroupIndexInBounds ==
  pc = "UseGroup" => groupIndex \in 1 .. Len(info.groups)

\* main.cpp:71 prints "Unsuitable transaction": then the transaction opened no crate.
UnsuitableIsTrue ==
  verdict = "Unsuitable" => ~IsOpening(world) \/ ~BagIsCrate(world)

\* The verdict is the one the contract allows for this world and these replies: no transport
\* or RPC failure is reported as a Mismatch, and a fair opening read without failures is a
\* Match.
Contract == INSTANCE AuditContract
ImplementsContract == Contract!Spec

\* The audit ends: rejected random words do not go on for ever (random.h:45-48).
Termination == <>(pc = "Done")
=============================================================================
