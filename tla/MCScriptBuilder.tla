-------------------------- MODULE MCScriptBuilder --------------------------
(***************************************************************************)
(* ScriptBuilder with bytes of eight values: lengths from 5 on take a      *)
(* header, places have two digits, and data of 64 bytes are too long.      *)
(***************************************************************************)
EXTENDS ScriptBuilder

MCArity == ("AllowGas" :> 4) @@ ("SpendGas" :> 1) @@ ("gas" :> 0)
    @@ ("Runtime.MintTokens" :> 4) @@ ("Runtime.MintToken" :> 5) @@ ("Runtime.BurnTokens" :> 3)
    @@ ("Runtime.BurnToken" :> 3) @@ ("Runtime.TransferTokens" :> 4)
    @@ ("Runtime.TransferBalance" :> 3) @@ ("Runtime.TransferToken" :> 4)
    @@ ("Runtime.ReadToken" :> 2) @@ ("Runtime.WriteToken" :> 3) @@ ("Custom" :> 2)

MCNames == DOMAIN MCArity

MCUtf8 == ("AllowGas" :> <<1>>) @@ ("SpendGas" :> <<2>>) @@ ("gas" :> <<3>>)
    @@ ("Runtime.MintTokens" :> <<4>>) @@ ("Runtime.MintToken" :> <<5>>)
    @@ ("Runtime.BurnTokens" :> <<6>>) @@ ("Runtime.BurnToken" :> <<7>>)
    @@ ("Runtime.TransferTokens" :> <<1, 1>>) @@ ("Runtime.TransferBalance" :> <<1, 2>>)
    @@ ("Runtime.TransferToken" :> <<1, 3>>) @@ ("Runtime.ReadToken" :> <<1, 4>>)
    @@ ("Runtime.WriteToken" :> <<1, 5>>) @@ ("Custom" :> <<1, 6>>)

Bytes(b)  == Scalar("Bytes", b)
Amount(n) == Scalar("Number", Signed(n))

Ann  == Bytes(<<1>>)
Bob  == Bytes(<<2>>)
Soul == Scalar("String", <<3>>)
Rom  == Bytes(<<4, 4>>)
Ram  == Bytes(<<>>)

Nft(rom_reg, ram_reg) ==
    [symbol |-> Soul, id |-> Amount(6), from |-> Ann, to |-> Bob, rom |-> Rom, ram |-> Ram,
     rom_reg |-> rom_reg, ram_reg |-> ram_reg]

\* Registers the calls use themselves, and one they do not.
MCNfts == {Nft(1, 0), Nft(0, 1), Nft(2, 4)}

Zeros(n) == [i \in 1 .. n |-> 0]

\* One request of each form and number of operands, data around the lengths at
\* which its prefix grows and at the limit, and requests that are refused.
MCPrimitives ==
    {EmitLoad(1, Bytes(<<>>)), EmitLoad(2, Scalar("String", <<1, 2, 3, 4>>)),
     EmitLoad(1, Bytes(<<1, 2, 3, 4, 5>>)), EmitLoad(0, Bytes(Zeros(64))),
     EmitLoad(3, Scalar("Bool", <<1>>)),
     Emit2Arg("MOVE", 1, 2), Emit3Arg("GT", 1, 2, 3), EmitThrow(<<7, 6, 5, 4, 3>>),
     EmitLength("LEFT", 1, 2, 4), EmitLength("RIGHT", 1, 2, 5), EmitLength("LEFT", 1, 2, -1)}
    \cup {EmitLabel(l) : l \in Labels}
    \cup {EmitJump("JMP", l, 0) : l \in Labels}
    \cup {EmitJump("JMPIF", "loop", 2), EmitJump("RET", "loop", 2),
          EmitCall("end", 4), EmitCall("loop", 0), EmitCall("loop", 33),
          EmitConditionalJump("JMPNOT", 1, "end"), EmitConditionalJump("JMP", 1, "end")}

MCCalls ==
    {AllowGas(Ann, Bob, Amount(1), Amount(9)), SpendGas(Ann),
     MintTokens(Soul, Ann, Bob, Amount(2)), BurnTokens(Ann, Soul, Amount(0)),
     MintToken(Soul, Ann, Bob, Rom, Ram), BurnToken(Ann, Soul, Amount(6)),
     TransferTokens(Soul, Ann, Bob, Amount(7)), TransferToken(Soul, Ann, Bob, Amount(6)),
     TransferBalance(Soul, Ann, Bob), WriteToken(Soul, Amount(6), Bytes(<<6, 0>>)),
     InteropCall("Custom", <<ArrayOf(<<Ann, Bob>>), Soul>>),
     InteropCall("Custom", <<Bob, ArrayOf(<<ArrayOf(<<Soul>>), ArrayOf(<<>>), ArrayOf(<<Ann, Bob>>)>>)>>),
     ContractCall("gas", "Custom", <<ArrayOf(<<>>), ArrayOf(<<Amount(1)>>)>>)}
=============================================================================
