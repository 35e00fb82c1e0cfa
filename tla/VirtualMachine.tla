--------------------------- MODULE VirtualMachine ---------------------------
(***************************************************************************)
(* The reader of the scripts: the virtual machine of a node, which is not  *)
(* in the repository.  What it takes for granted of a script is what       *)
(* scriptbuilder.h writes: VM/Opcodes.h for the codes, the Emit... members *)
(* for the operands, the comments of goati_nft.h for the effects.          *)
(*                                                                         *)
(* Opcodes are kept apart from the other bytes, so that Base may be small. *)
(***************************************************************************)
EXTENDS BinaryWriter

CONSTANTS
    Registers,  \* the registers the instances look at
    Names,      \* of methods and contracts
    Utf8,       \* the bytes of each name
    Arity       \* the number of parameters of each method

ASSUME NamesAssumption == Utf8 \in [Names -> Seq(Byte)] /\ Arity \in [Names -> Nat]

Opcodes ==
    <<"NOP", "MOVE", "COPY", "PUSH", "POP", "SWAP", "CALL", "EXTCALL", "JMP", "JMPIF",
      "JMPNOT", "RET", "THROW", "LOAD", "CAST", "CAT", "SUBSTR", "LEFT", "RIGHT", "SIZE",
      "COUNT", "NOT", "AND", "OR", "XOR", "EQUAL", "LT", "GT", "LTE", "GTE", "INC", "DEC",
      "SIGN", "NEGATE", "ABS", "ADD", "SUB", "MUL", "DIV", "MOD", "SHL", "SHR", "MIN",
      "MAX", "THIS", "CTX", "SWITCH", "PUT", "GET">>

Opcode == {Opcodes[i] : i \in DOMAIN Opcodes}

Code == [op \in Opcode |-> Base + (CHOOSE i \in DOMAIN Opcodes : Opcodes[i] = op) - 1]

VMTypes == <<"None", "Struct", "Bytes", "Number", "String", "Timestamp", "Bool", "Enum", "Object">>

TypeCode == [type \in {VMTypes[i] : i \in DOMAIN VMTypes} |->
                (CHOOSE i \in DOMAIN VMTypes : VMTypes[i] = type) - 1]

MaxRegisterCount == 32

(***************************************************************************)
(* Reading a script.                                                       *)
(***************************************************************************)
\* Cells are numbered from 0; there is nothing past the end.
Cell(script, p) == IF p < Len(script) THEN script[p + 1] ELSE 0

Number(script, p, w) ==
    LET sum[i \in 0 .. w] == IF i = 0 THEN 0
                             ELSE sum[i - 1] + Cell(script, p + i - 1) * Values(i - 1)
    IN  sum[w]

VarInt(script, p) ==
    LET header == Cell(script, p)
        Wide(w) == [value |-> Number(script, p + 1, w), next |-> p + 1 + w]
    IN  IF header = Header16 THEN Wide(2)
        ELSE IF header = Header32 THEN Wide(4)
        ELSE IF header = Header64 THEN Wide(8)
        ELSE [value |-> header, next |-> p + 1]

\* The operands of an instruction: a number of single bytes, and then nothing,
\* a length, counted data or the place of a label.
Bare     == {"NOP", "RET"}
Unary    == {"PUSH", "POP", "EXTCALL", "INC", "DEC", "SWITCH", "JMPIF", "JMPNOT", "CALL"}
Binary   == {"MOVE", "COPY", "SIZE", "COUNT", "NOT", "SIGN", "NEGATE", "ABS", "CTX",
             "LOAD", "LEFT", "RIGHT"}
Ternary  == {"CAST", "CAT", "AND", "OR", "XOR", "EQUAL", "LT", "LTE", "GT", "GTE", "PUT"}
WithLength == {"LEFT", "RIGHT"}
WithData   == {"LOAD", "THROW"}
WithPlace  == {"JMP", "JMPIF", "JMPNOT", "CALL"}

OperandCount(op) == IF op \in Ternary THEN 3 ELSE IF op \in Binary THEN 2
                    ELSE IF op \in Unary THEN 1 ELSE 0

Known == Bare \cup Unary \cup Binary \cup Ternary \cup WithData \cup WithPlace

\* place is -1 for an instruction without one.
Instruction(op, operands, data, length, place, next) ==
    [op |-> op, operands |-> operands, data |-> data, length |-> length,
     place |-> place, next |-> next]

Garbage == Instruction("garbage", <<>>, <<>>, 0, -1, 0)

Decoded(script, op, p, operands) ==
    LET count == VarInt(script, p)
    IN  IF op \in WithLength
        THEN Instruction(op, operands, <<>>, count.value, -1, count.next)
        ELSE IF op \in WithPlace
        THEN Instruction(op, operands, <<>>, 0, Number(script, p, 2), p + 2)
        ELSE IF op \in WithData /\ count.next + count.value <= Len(script)
        THEN Instruction(op, operands,
                         SubSeq(script, count.next + 1, count.next + count.value), 0, -1,
                         count.next + count.value)
        ELSE IF op \in WithData THEN Garbage
        ELSE Instruction(op, operands, <<>>, 0, -1, p)

DecodedAt(script, p) ==
    LET ops == {op \in Known : Code[op] = Cell(script, p)}
        op  == CHOOSE op \in ops : TRUE
        n   == OperandCount(op)
    IN  IF ops = {} THEN Garbage
        ELSE Decoded(script, op, p + 1 + n, [i \in 1 .. n |-> Cell(script, p + i)])

\* The instructions one after another, up to the first that is none or is cut.
Disassembly(script) ==
    LET Rest(i, listing) ==
            IF i.op = "garbage" \/ i.next > Len(script) THEN <<Garbage>>
            ELSE <<i>> \o listing[i.next]
        listing[p \in 0 .. Len(script)] ==
            IF p = Len(script) THEN <<>> ELSE Rest(DecodedAt(script, p), listing)
    IN  listing[0]

(***************************************************************************)
(* Running a script without jumps.                                         *)
(***************************************************************************)
\* A value is a scalar with its bytes or a Struct with its entries.
Scalar(type, bytes) == [type |-> type, bytes |-> bytes, entries |-> {}]
Nothing == Scalar("None", <<>>)

\* A number as bytes: the digits, and a byte for the sign.
Signed(n) ==
    LET width == CHOOSE w \in 0 .. n : n < Values(w) /\ \A v \in 0 .. w - 1 : n >= Values(v)
    IN  LittleEndian(n, width) \o <<0>>

Machine == [regs |-> [r \in Registers |-> Nothing], stack |-> <<>>, calls |-> <<>>,
            ram |-> [id \in {} |-> <<>>], fault |-> FALSE]

Faulted(m) == [m EXCEPT !.fault = TRUE]

Set(m, r, value) == [m EXCEPT !.regs[r] = value]

Pop(m, n) == [m EXCEPT !.stack = SubSeq(m.stack, n + 1, Len(m.stack))]

Stored(m, id) == IF id \in DOMAIN m.ram THEN m.ram[id] ELSE Signed(0)

\* A call takes its arguments off the stack, the first one on top.
Called(m, contract, method, args) ==
    [Pop(m, Len(args)) EXCEPT !.calls = Append(m.calls,
        [contract |-> contract, method |-> method, args |-> args])]

Interop(m, method, args) ==
    LET called == Called(m, "", method, args)
    IN  IF method = "Runtime.ReadToken"
        THEN [called EXCEPT !.stack = <<Scalar("Bytes", Stored(m, args[2].bytes))>> \o called.stack]
        ELSE IF method = "Runtime.WriteToken"
        THEN [called EXCEPT !.ram = [id \in DOMAIN m.ram \cup {args[2].bytes} |->
                 IF id = args[2].bytes THEN args[3].bytes ELSE m.ram[id]]]
        ELSE called

\* The method a String names, "" for none or too few arguments.
MethodOf(value, stack) ==
    LET named == {n \in Names : value = Scalar("String", Utf8[n]) /\ Arity[n] <= Len(stack)}
    IN  IF named = {} THEN "" ELSE CHOOSE n \in named : TRUE

RegisterCount(op) == IF op = "CAST" THEN 2 ELSE IF op = "LOAD" THEN 1 ELSE OperandCount(op)

TypeOf(code) == IF code < Len(VMTypes) THEN VMTypes[code + 1] ELSE "None"

Effect(m, i) ==
    LET Reg(k) == m.regs[i.operands[k]]
        name   == IF i.op = "EXTCALL" THEN MethodOf(Reg(1), m.stack)
                  ELSE MethodOf(Head(m.stack), Tail(m.stack))
    IN  CASE i.op \in {"NOP", "RET"} -> m
          [] i.op = "LOAD" -> Set(m, i.operands[1], Scalar(TypeOf(i.operands[2]), i.data))
          [] i.op \in {"MOVE", "COPY"} -> Set(m, i.operands[2], Reg(1))
          [] i.op = "PUSH" -> [m EXCEPT !.stack = <<Reg(1)>> \o m.stack]
          [] i.op = "POP" /\ m.stack # <<>> -> Pop(Set(m, i.operands[1], Head(m.stack)), 1)
          [] i.op = "CAST" -> Set(m, i.operands[2],
                IF TypeOf(i.operands[3]) = "None" THEN Nothing
                ELSE Scalar(TypeOf(i.operands[3]), Reg(1).bytes))
          [] i.op = "INC" /\ Reg(1).type = "Number" ->
                Set(m, i.operands[1],
                    Scalar("Number", Signed(Number(Reg(1).bytes, 0, Len(Reg(1).bytes)) + 1)))
          [] i.op = "CAT" /\ Reg(1).type = "Bytes" /\ Reg(2).type = "Bytes" ->
                Set(m, i.operands[3], Scalar("Bytes", Reg(1).bytes \o Reg(2).bytes))
          [] i.op = "PUT" /\ Reg(2).type \in {"None", "Struct"} /\ Reg(3).type = "Number" ->
                Set(m, i.operands[2],
                    [type |-> "Struct", bytes |-> <<>>,
                     entries |-> Reg(2).entries \cup {<<Reg(3).bytes, Reg(1)>>}])
          [] i.op = "CTX" /\ Reg(1).type = "String" ->
                Set(m, i.operands[2], Scalar("Object", Reg(1).bytes))
          [] i.op = "EXTCALL" /\ name # "" ->
                Interop(m, name, SubSeq(m.stack, 1, Arity[name]))
          [] i.op = "SWITCH" /\ Reg(1).type = "Object" /\ m.stack # <<>> /\ name # "" ->
                Called(Pop(m, 1), CHOOSE c \in Names : Utf8[c] = Reg(1).bytes, name,
                       SubSeq(m.stack, 2, Arity[name] + 1))
          [] OTHER -> Faulted(m)

Executed(m, i) ==
    IF \A k \in 1 .. RegisterCount(i.op) : i.operands[k] \in Registers
    THEN Effect(m, i) ELSE Faulted(m)

\* The machine after the instructions of a listing.
Run(listing) ==
    LET after[k \in 0 .. Len(listing)] ==
            IF k = 0 THEN Machine ELSE Executed(after[k - 1], listing[k])
    IN  after[Len(listing)]

StraightLine(listing) == \A k \in DOMAIN listing : listing[k].op \notin WithPlace \cup {"garbage"}
=============================================================================
