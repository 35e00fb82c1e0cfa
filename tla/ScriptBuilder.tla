--------------------------- MODULE ScriptBuilder ---------------------------
(***************************************************************************)
(* phantasma/VM/scriptbuilder.h and the scripts of goati_nft.h that mint   *)
(* an NFT with a counter.                                                  *)
(*                                                                         *)
(* Each Emit... member is a request: a record of what its caller asks for. *)
(* EmitPrimitive says what a request does to the members of the class, and *)
(* the functions above the Emit... members are sequences of requests.      *)
(*                                                                         *)
(* Left out: EmitVarBytes and EmitRaw, whose caller writes the bytes of    *)
(* instructions itself.                                                    *)
(***************************************************************************)
EXTENDS VirtualMachine, SequencesExt

CONSTANTS
    Labels,
    Primitives, \* the requests a caller may make
    Calls,      \* the calls a caller may make: see ContractCall and after
    Nfts,       \* the NFTs read, written and minted: records of a symbol, an id,
                \* two addresses, ROM and RAM, and of registers to use
    MaxWeight   \* bound on the members called: an Emit... weighs 2, a call 3

VARIABLES
    writer,          \* the bytes written
    _jumpLocations,  \* label of each place to be patched
    _labelLocations, \* place of each label
    requested,       \* the requests made, in order; for the properties
    before,          \* how many before the last member called; for the properties
    wanted,          \* the calls the script should make; for the properties
    weight

vars == <<writer, _jumpLocations, _labelLocations, requested, before, wanted, weight>>

(***************************************************************************)
(* Requests.                                                               *)
(***************************************************************************)
Request(form, op, operands, data, length, label) ==
    [form |-> form, op |-> op, operands |-> operands, data |-> data,
     length |-> length, label |-> label]

Emit(op, operands) == Request("Plain", op, operands, <<>>, 0, "")

EmitPush(reg)          == Emit("PUSH", <<reg>>)
EmitPop(reg)           == Emit("POP", <<reg>>)
EmitInc(reg)           == Emit("INC", <<reg>>)
EmitCast(src, dst, type) == Emit("CAST", <<src, dst, TypeCode[type]>>)
Emit2Arg(op, src, dst) == Emit(op, <<src, dst>>)
Emit3Arg(op, a, b, dst) == Emit(op, <<a, b, dst>>)

EmitLength(op, src, dst, length) == Request("Length", op, <<src, dst>>, <<>>, length, "")

EmitLoad(reg, value) ==
    Request("Load", "LOAD", <<reg, TypeCode[value.type]>>, value.bytes, 0, "")

EmitThrow(data)  == Request("Throw", "THROW", <<>>, data, 0, "")
EmitLabel(label) == Request("Label", "NOP", <<>>, <<>>, 0, label)

EmitJump(op, label, reg) ==
    Request("Jump", op, IF op = "JMP" THEN <<>> ELSE <<reg>>, <<>>, 0, label)
EmitCall(label, regCount)           == Request("Call", "CALL", <<regCount>>, <<>>, 0, label)
EmitConditionalJump(op, src, label) == Request("Condition", op, <<src>>, <<>>, 0, label)

\* What the members can be asked: an operation of the form, its operands, and
\* only what belongs to the form.  A length is an int, shorter than 8 bytes.
Operations ==
    [Plain |-> Known \ (WithLength \cup WithData \cup WithPlace), Label |-> {"NOP"},
     Length |-> WithLength, Load |-> {"LOAD"}, Throw |-> {"THROW"},
     Jump |-> {"JMP", "JMPIF", "JMPNOT"}, Condition |-> {"JMPIF", "JMPNOT"}, Call |-> {"CALL"}]

\* A request that reports an error and leaves a NOP.
Refused(r) ==
    \/ r.form = "Load" /\ Len(r.data) >= Values(2)
    \/ r.form = "Jump" /\ r.op \notin {"JMP", "JMPIF", "JMPNOT"}
    \/ r.form = "Condition" /\ r.op \notin {"JMPIF", "JMPNOT"}
    \/ r.form = "Call" /\ r.operands[1] \notin 1 .. MaxRegisterCount

Requests ==
    {r \in [form : DOMAIN Operations, op : Opcode, operands : Seq(Nat), data : Seq(Byte),
            length : Int, label : Labels \cup {""}] :
        /\ ~Refused(r) => /\ r.op \in Operations[r.form]
                          /\ Len(r.operands) = OperandCount(r.op)
        /\ r.form \notin {"Load", "Throw"} => r.data = <<>>
        /\ IF r.form = "Length" THEN r.length < Values(8) ELSE r.length = 0}

\* An argument is a scalar, or an array of scalars and arrays of scalars.
Scalars   == [type : DOMAIN TypeCode, bytes : Seq(Byte), entries : {{}}]
Arrays(S) == [type : {"Array"}, items : Seq(S)]
Arguments == Scalars \cup Arrays(Scalars \cup Arrays(Scalars))

ASSUME RequestsAssumption ==
    /\ Primitives \subseteq Requests
    /\ Calls \subseteq [contract : Names \cup {""}, method : Names, args : Seq(Arguments)]
    /\ Nfts \subseteq [symbol : Scalars, id : Scalars, from : Scalars, to : Scalars,
                       rom : Scalars, ram : Scalars, rom_reg : Nat, ram_reg : Nat]
    /\ {"Runtime.ReadToken", "Runtime.WriteToken", "Runtime.MintToken"} \subseteq Names

(***************************************************************************)
(* What a request does to the members of the class.                        *)
(***************************************************************************)
Jumps(r) == ~Refused(r) /\ r.form \in {"Jump", "Condition", "Call"}
Marks(r) == r.form = "Label"

Start(r) == <<Code[r.op]>> \o r.operands

Written(r) ==
    IF Refused(r) THEN <<Code["NOP"]>>
    ELSE Start(r) \o
         CASE r.form \in {"Plain", "Label"}  -> <<>>
           [] r.form = "Length"              -> WriteVarInt(r.length)
           [] r.form \in {"Load", "Throw"}   -> WriteByteArray(r.data)
           [] r.form \in {"Jump", "Call", "Condition"} -> <<0, 0>>

WrittenAll(requests) == FlattenSeq([k \in DOMAIN requests |-> Written(requests[k])])

\* EmitJump notes the place when it has come to it, EmitCall and
\* EmitConditionalJump before they write.
PlaceReached(r) == Len(writer) + Len(Start(r))

PlaceAhead == Len(writer) + 2

JumpPlace(r) == IF r.form = "Jump" THEN PlaceReached(r) ELSE PlaceAhead

\* Mutant: the label is the place of its NOP.
LabelPlaceBefore(r) == Len(writer)

LabelPlace(r) == Len(writer) + Len(Start(r))

\* A 16-bit place for each jump; a label that was never emitted is at 0.
Resolved(label) ==
    IF label \in DOMAIN _labelLocations THEN _labelLocations[label] % Values(2) ELSE 0

ToScript ==
    [i \in DOMAIN writer |->
        IF i - 1 \in DOMAIN _jumpLocations THEN Resolved(_jumpLocations[i - 1]) % Base
        ELSE IF i - 2 \in DOMAIN _jumpLocations THEN Resolved(_jumpLocations[i - 2]) \div Base
        ELSE writer[i]]

\* map[key] = value.
Assigned(map, key, value) ==
    [k \in DOMAIN map \cup {key} |-> IF k = key THEN value ELSE map[k]]

\* Looking a label up in the map adds it, at 0.
LookedUp == {_jumpLocations[place] : place \in DOMAIN _jumpLocations}

(***************************************************************************)
(* Calls of the chain.                                                     *)
(***************************************************************************)
Text(name) == Scalar("String", Utf8[name])

\* An array is a Struct given by its elements.
ArrayOf(items) == [type |-> "Array", items |-> items]

LoadScalar(reg, arg) == <<EmitLoad(reg, arg)>>

\* Mutant: a register further.
TempKeyFurther(reg) == reg + 3

TempVal(reg) == reg + 1
TempKey(reg) == reg + 2

\* loads are the requests that load each element.
LoadArray(reg, loads) ==
    <<EmitCast(reg, reg, "None")>> \o
    FlattenSeq([j \in DOMAIN loads |->
        loads[j]
            \o LoadScalar(TempKey(reg), Scalar("Number", Signed(j - 1)))
            \o <<Emit3Arg("PUT", TempVal(reg), reg, TempKey(reg))>>])

LoadFlat(reg, arg) ==
    IF arg.type = "Array"
    THEN LoadArray(reg, [j \in DOMAIN arg.items |-> LoadScalar(TempVal(reg), arg.items[j])])
    ELSE LoadScalar(reg, arg)

\* Arrays of arrays, and no deeper.
LoadIntoReg(reg, arg) ==
    IF arg.type = "Array"
    THEN LoadArray(reg, [j \in DOMAIN arg.items |-> LoadFlat(TempVal(reg), arg.items[j])])
    ELSE LoadScalar(reg, arg)

InsertMethodArg(arg) == LoadIntoReg(0, arg) \o <<EmitPush(0)>>

\* Mutant: the first argument is pushed first.
InsertMethodArgsInOrder(args) == FlattenSeq([k \in DOMAIN args |-> InsertMethodArg(args[k])])

InsertMethodArgs(args) ==
    FlattenSeq([k \in DOMAIN args |-> InsertMethodArg(args[Len(args) + 1 - k])])

EmitExtCall(method, reg) == LoadScalar(reg, Text(method)) \o <<Emit("EXTCALL", <<reg>>)>>

CallInterop(method, args) == InsertMethodArgs(args) \o EmitExtCall(method, 0)

CallContract(contract, method, args) ==
    InsertMethodArgs(args) \o LoadScalar(0, Text(method)) \o <<EmitPush(0)>>
        \o LoadScalar(0, Text(contract)) \o <<Emit2Arg("CTX", 0, 1), Emit("SWITCH", <<1>>)>>

MintTokenContentsFromRegisters(symbol, from, target, rom_reg, ram_reg) ==
    <<EmitPush(ram_reg), EmitPush(rom_reg)>>
        \o CallInterop("Runtime.MintToken", <<from, target, symbol>>)

ReadTokenToRegister(symbol, nftId, dst_reg) ==
    CallInterop("Runtime.ReadToken", <<symbol, nftId>>) \o <<EmitPop(dst_reg)>>

WriteTokenFromRegister(symbol, nftId, src_reg) ==
    <<EmitPush(src_reg)>> \o InsertMethodArgs(<<symbol, nftId>>)
        \o EmitExtCall("Runtime.WriteToken", 0)

IncrementRAM(symbol, nftId, reg) ==
    ReadTokenToRegister(symbol, nftId, reg)
        \o <<EmitCast(reg, reg, "Number"), EmitInc(reg), EmitCast(reg, reg, "Bytes")>>
        \o WriteTokenFromRegister(symbol, nftId, reg)

MintTokenIncrementingId(nftId, symbol, from, to, rom, ram) ==
    IncrementRAM(symbol, nftId, 1)
        \o LoadScalar(2, rom) \o <<Emit3Arg("CAT", 2, 1, 2)>> \o LoadScalar(0, ram)
        \o MintTokenContentsFromRegisters(symbol, from, to, 2, 0)

\* What a caller asks of CallContract and CallInterop.
ContractCall(contract, method, args) ==
    [contract |-> contract, method |-> method, args |-> args]
InteropCall(method, args) == ContractCall("", method, args)

AllowGas(from, to, price, limit) == ContractCall("gas", "AllowGas", <<from, to, price, limit>>)
SpendGas(address)                == ContractCall("gas", "SpendGas", <<address>>)
MintTokens(symbol, from, target, amount) ==
    InteropCall("Runtime.MintTokens", <<from, target, symbol, amount>>)
MintToken(symbol, from, target, rom, ram) ==
    InteropCall("Runtime.MintToken", <<from, target, symbol, rom, ram>>)
BurnTokens(from, symbol, amount) == InteropCall("Runtime.BurnTokens", <<from, symbol, amount>>)
BurnToken(from, symbol, nftID)   == InteropCall("Runtime.BurnToken", <<from, symbol, nftID>>)
TransferTokens(symbol, from, to, amount) ==
    InteropCall("Runtime.TransferTokens", <<from, to, symbol, amount>>)
TransferBalance(symbol, from, to) ==
    InteropCall("Runtime.TransferBalance", <<from, to, symbol>>)
TransferToken(symbol, from, to, tokenId) ==
    InteropCall("Runtime.TransferToken", <<from, to, symbol, tokenId>>)
WriteToken(symbol, id, ram) == InteropCall("Runtime.WriteToken", <<symbol, id, ram>>)

CallRequests(c) ==
    IF c.contract = "" THEN CallInterop(c.method, c.args)
    ELSE CallContract(c.contract, c.method, c.args)

(***************************************************************************)
(* Callers for whom a script makes the calls they asked for.  Names have   *)
(* bytes of their own and methods take the arguments they are given;       *)
(* nothing a call loads is too long; an array in an array needs registers  *)
(* up to 3.  A result of Runtime.ReadToken is popped at once, so it is not *)
(* called alone.  Beside the calls a caller loads and copies registers,    *)
(* marks places, and does not write calls of its own.                      *)
(***************************************************************************)
Loadable(requests) == \A k \in DOMAIN requests : ~Refused(requests[k])

\* Operations that are performed and that only calls need.
OfCalls == {"RET", "PUSH", "POP", "CAST", "INC", "CAT", "PUT", "CTX", "SWITCH", "EXTCALL"}

Beside(r) ==
    /\ r.op \notin OfCalls
    /\ r.op \in {"LOAD", "MOVE", "COPY"} =>
         \A k \in 1 .. RegisterCount(r.op) : r.operands[k] \in Registers

ASSUME CallersAssumption ==
    /\ 0 .. 3 \subseteq Registers /\ "" \notin Names
    /\ \A m, n \in Names : Utf8[m] = Utf8[n] => m = n
    /\ Arity["Runtime.ReadToken"] = 2 /\ Arity["Runtime.WriteToken"] = 3 /\ Arity["Runtime.MintToken"] = 5
    /\ \A c \in Calls :
        /\ Loadable(CallRequests(c)) /\ Len(c.args) = Arity[c.method]
        /\ c.contract = "" => c.method # "Runtime.ReadToken"
    /\ \A n \in Nfts :
        /\ {n.rom_reg, n.ram_reg} \subseteq Registers /\ n.rom.type = "Bytes"
        /\ Loadable(ReadTokenToRegister(n.symbol, n.id, n.rom_reg))
        /\ Loadable(WriteTokenFromRegister(n.symbol, n.id, n.rom_reg))
        /\ Loadable(MintTokenContentsFromRegisters(n.symbol, n.from, n.to, n.rom_reg, n.ram_reg))
        /\ Loadable(MintTokenIncrementingId(n.id, n.symbol, n.from, n.to, n.rom, n.ram))
    /\ \A r \in Primitives : Refused(r) \/ Beside(r)

(***************************************************************************)
(* The machine the script so far leaves behind.                            *)
(***************************************************************************)
Listing == Disassembly(ToScript)

MachineAfter(listing) == IF StraightLine(listing) THEN Run(listing) ELSE Machine

Now == MachineAfter(Listing)

\* How an argument arrives; an array without elements as nothing.
FlatValue(arg) ==
    IF arg.type # "Array" THEN arg
    ELSE IF arg.items = <<>> THEN Nothing
    ELSE [type |-> "Struct", bytes |-> <<>>,
          entries |-> {<<Signed(j - 1), arg.items[j]>> : j \in DOMAIN arg.items}]

ValueOf(arg) ==
    IF arg.type # "Array" THEN arg
    ELSE FlatValue(ArrayOf([j \in DOMAIN arg.items |-> FlatValue(arg.items[j])]))

Arrives(c) == [c EXCEPT !.args = [k \in DOMAIN c.args |-> ValueOf(c.args[k])]]

(***************************************************************************)
(* Actions.                                                                *)
(***************************************************************************)
Init ==
    /\ writer = <<>>
    /\ _jumpLocations = [place \in {} |-> ""]
    /\ _labelLocations = [label \in {} |-> 0]
    /\ requested = <<>> /\ before = 0 /\ wanted = <<>>
    /\ weight = 0

MayAdd(n) == weight + n <= MaxWeight /\ weight' = weight + n /\ before' = Len(requested)

EmitPrimitive(r) ==
    /\ MayAdd(2)
    /\ writer' = writer \o Written(r)
    /\ _jumpLocations' = IF Jumps(r) THEN Assigned(_jumpLocations, JumpPlace(r), r.label)
                         ELSE _jumpLocations
    /\ _labelLocations' = IF Marks(r) THEN Assigned(_labelLocations, r.label, LabelPlace(r))
                          ELSE _labelLocations
    /\ requested' = Append(requested, r)
    /\ UNCHANGED wanted

\* Requests without labels and jumps, as those of the calls are.
Step(requests, calls) ==
    /\ MayAdd(3)
    /\ writer' = writer \o WrittenAll(requests)
    /\ requested' = requested \o requests
    /\ wanted' = wanted \o calls
    /\ UNCHANGED <<_jumpLocations, _labelLocations>>

Call(c) == Step(CallRequests(c), <<Arrives(c)>>)

Reads(symbol, id, reg) ==
    Step(ReadTokenToRegister(symbol, id, reg), <<InteropCall("Runtime.ReadToken", <<symbol, id>>)>>)

Writes(symbol, id, reg) ==
    Step(WriteTokenFromRegister(symbol, id, reg), <<WriteToken(symbol, id, Now.regs[reg])>>)

Mints(symbol, from, to, rom_reg, ram_reg) ==
    Step(MintTokenContentsFromRegisters(symbol, from, to, rom_reg, ram_reg),
         <<MintToken(symbol, from, to, Now.regs[rom_reg], Now.regs[ram_reg])>>)

\* The counter in the RAM of nftId is incremented and ends the ROM.
CountedMint(nftId, symbol, from, to, rom, ram, counter) ==
    <<InteropCall("Runtime.ReadToken", <<symbol, nftId>>),
      WriteToken(symbol, nftId, Scalar("Bytes", counter)),
      MintToken(symbol, from, to, Scalar("Bytes", rom.bytes \o counter), ram)>>

Incremented(bytes) == Signed(Number(bytes, 0, Len(bytes)) + 1)

MintsIncrementing(nftId, symbol, from, to, rom, ram) ==
    Step(MintTokenIncrementingId(nftId, symbol, from, to, rom, ram),
         CountedMint(nftId, symbol, from, to, rom, ram, Incremented(Stored(Now, nftId.bytes))))

\* With EndScript the caller is done.
EndScript ==
    /\ weight < MaxWeight /\ weight' = MaxWeight /\ before' = Len(requested)
    /\ writer' = writer \o Written(Emit("RET", <<>>))
    /\ _labelLocations' = [label \in DOMAIN _labelLocations \cup LookedUp |->
                             IF label \in DOMAIN _labelLocations THEN _labelLocations[label] ELSE 0]
    /\ requested' = Append(requested, Emit("RET", <<>>))
    /\ UNCHANGED <<_jumpLocations, wanted>>

Next ==
    \/ \E r \in Primitives : EmitPrimitive(r)
    \/ \E c \in Calls : Call(c)
    \/ \E n \in Nfts : Reads(n.symbol, n.id, n.rom_reg)
    \/ \E n \in Nfts : Writes(n.symbol, n.id, n.rom_reg)
    \/ \E n \in Nfts : Mints(n.symbol, n.from, n.to, n.rom_reg, n.ram_reg)
    \/ \E n \in Nfts : MintsIncrementing(n.id, n.symbol, n.from, n.to, n.rom, n.ram)
    \/ EndScript

Spec == Init /\ [][Next]_vars

(***************************************************************************)
(* Properties.                                                             *)
(***************************************************************************)
\* EmitLeft and EmitRight report a negative length and then leave it out; and
\* the place of a label must fit its 16 bits.
Readable == (\A k \in DOMAIN requested : requested[k].length >= 0) /\ Len(writer) < Values(2)

\* Where the jumps to a label should go: after its last NOP.
PlaceOf(label, listing) ==
    LET at == {k \in DOMAIN requested : requested[k].form = "Label" /\ requested[k].label = label}
    IN  IF at = {} THEN 0 ELSE listing[CHOOSE k \in at : \A l \in at : l <= k].next

Means(i, r, listing) ==
    IF Refused(r) THEN i.op = "NOP"
    ELSE /\ i.op = r.op /\ i.operands = r.operands
         /\ i.data = r.data /\ i.length = r.length
         /\ i.place = IF r.op \in WithPlace THEN PlaceOf(r.label, listing) ELSE -1

MeansAll(listing) ==
    /\ Len(listing) = Len(requested)
    /\ \A k \in DOMAIN listing : Means(listing[k], requested[k], listing)

\* A machine that reads the script finds the instructions asked for, one for
\* one, with their operands and data, and every jump leads behind its label,
\* whether it was emitted before or after and however long the data between.
ScriptReadsBack == Readable => MeansAll(Listing)

Performed == {"NOP", "RET", "LOAD", "MOVE", "COPY", "PUSH", "POP", "CAST", "INC", "CAT", "PUT",
              "CTX", "SWITCH", "EXTCALL"}

MakesTheCalls(m) == m.calls = wanted /\ m.stack = <<>> /\ ~m.fault

\* Run, a script of calls makes these calls in this order, each with its
\* arguments in their places and with what the registers held, also the minting
\* of an NFT that reads, increments, writes and appends a counter on the way;
\* and it leaves nothing on the stack.
CallsAreWanted ==
    (\A k \in DOMAIN requested : requested[k].op \in Performed) =>
        MakesTheCalls(MachineAfter(Listing))

\* How deep the arrays of an argument are.
Depth(value) ==
    IF value.entries = {} THEN 0
    ELSE IF \A e \in value.entries : e[2].entries = {} THEN 1 ELSE 2

\* The registers a call may overwrite: 0, the one after it for a contract, the
\* two adjacent ones for an array and one more for arrays in an array.
Overwritten(c) ==
    {0} \cup (IF c.contract = "" THEN {} ELSE {1})
        \cup UNION {IF Depth(v) = 0 THEN {} ELSE 0 .. Depth(v) + 1 : v \in {c.args[k] : k \in DOMAIN c.args}}

KeepsRegisters(c, first, last) == \A r \in Registers \ Overwritten(c) : last.regs[r] = first.regs[r]

KeepsAcross(c, listing) ==
    KeepsRegisters(c, MachineAfter(SubSeq(listing, 1, before)), MachineAfter(listing))

\* The registers a caller may rely on over a call, which MintTokenIncrementingId
\* does with its counter and its ROM.
CallsKeepRegisters ==
    Readable =>
        \A c \in Calls : SubSeq(requested, before + 1, Len(requested)) = CallRequests(c) =>
            KeepsAcross(Arrives(c), Listing)
=============================================================================
