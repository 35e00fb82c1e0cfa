----------------------------- MODULE MCTxEvents -----------------------------
(***************************************************************************)
(* TxEvents on two addresses and three amounts: the same amount on two     *)
(* chains and a second token.  One other event of each kind that           *)
(* GetTxDescription tells apart, and one that looks like a transfer        *)
(* except for its kind.                                                    *)
(***************************************************************************)
EXTENDS TxEvents

Data(symbol, value, chain) == [symbol |-> symbol, value |-> value, chainName |-> chain]

Soul     == Data("SOUL", 5, "main")
SideSoul == Data("SOUL", 5, "side")
Kcal     == Data("KCAL", 0, "main")

MCDatas == {Soul, SideSoul, Kcal}

MCOthers == {<<"TokenClaim", "ann", Kcal>>, <<"TokenStake", "bob", Kcal>>,
             <<"TokenMint", "ann", Soul>>, <<"AddressRegister", "bob", Kcal>>,
             <<"Custom", "bob", Soul>>}

\* Everything; what the shorter forms of the two functions ask by default.
MCFilters == {<<Null, Null, Null>>, <<"SOUL", "KCAL", "main">>}
=============================================================================
