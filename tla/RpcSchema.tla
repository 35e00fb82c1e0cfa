----------------------------- MODULE RpcSchema -----------------------------
(***************************************************************************)
(* What the RPC client of phantasma/PhantasmaAPI.h reads and asks: the     *)
(* fields of every structure a call returns, one record per Deserialize    *)
(* function, and every call, with its parameters and its result, one       *)
(* definition per Make...Request and Parse...Response pair.  The           *)
(* structures no call returns (Dapp, SendRawTx, Channel, Error,            *)
(* Authorization, WalletBalance, WalletAccount, Invocation) are left out.  *)
(***************************************************************************)
EXTENDS Integers, Sequences

\* What is read: one value or an array of them; the second part is a scalar
\* or the name of a structure.
One(of)  == [shape |-> "one", of |-> of]
Many(of) == [shape |-> "many", of |-> of]
Page(of) == [shape |-> "page", of |-> of]

Str     == One("string")
U32     == One("uint32")
I32     == One("int32")
Flag    == One("bool")
View    == One("value")
Strings == Many("string")
Scalars == {"string", "uint32", "int32", "bool", "value"}

Balance == [chain |-> Str, amount |-> Str, symbol |-> Str, decimals |-> U32,
            ids |-> Strings]
Interop == [local |-> Str, external |-> Str]
Platform == [platform |-> Str, chain |-> Str, fuel |-> Str,
             tokens |-> Strings, interop |-> Many("Interop")]
Governance == [name |-> Str, value |-> Str]
Organization == [id |-> Str, name |-> Str, members |-> Strings]
Nexus == [name |-> Str, platforms |-> Many("Platform"),
          tokens |-> Many("Token"), chains |-> Many("Chain"),
          governance |-> Many("Governance"), organizations |-> Strings,
          ses |-> Many("Leaderboard")]
Stake == [amount |-> Str, time |-> U32, unclaimed |-> Str]
Account == [address |-> Str, name |-> Str, stakes |-> One("Stake"),
            stake |-> Str, unclaimed |-> Str, relay |-> Str,
            validator |-> Str, balances |-> Many("Balance"), txs |-> Strings]
Leaderboard == [address |-> Str, value |-> Str]
Chain == [name |-> Str, address |-> Str, parent |-> Str, height |-> U32,
          organization |-> Str, contracts |-> Strings, dapps |-> Strings]
Event == [address |-> Str, contract |-> Str, kind |-> Str, data |-> Str]
Oracle == [url |-> Str, content |-> Str]
Transaction == [hash |-> Str, chainAddress |-> Str, timestamp |-> U32,
                blockHeight |-> I32, blockHash |-> Str, script |-> Str,
                payload |-> Str, events |-> Many("Event"), result |-> Str,
                fee |-> Str]
AccountTransactions == [address |-> Str, txs |-> Many("Transaction")]
Paginated == [page |-> U32, pageSize |-> U32, total |-> U32,
              totalPages |-> U32, result |-> View]
Block == [hash |-> Str, previousHash |-> Str, timestamp |-> U32,
          height |-> U32, chainAddress |-> Str, protocol |-> U32,
          txs |-> Many("Transaction"), validatorAddress |-> Str,
          reward |-> Str, events |-> Many("Event"),
          oracles |-> Many("Oracle")]
Token == [symbol |-> Str, name |-> Str, decimals |-> I32,
          currentSupply |-> Str, maxSupply |-> Str, platform |-> Str,
          hash |-> Str, flags |-> Str]
TokenData == [ID |-> Str, chainName |-> Str, ownerAddress |-> Str,
              ram |-> Str, rom |-> Str, forSale |-> Flag]
Auction == [creatorAddress |-> Str, chainAddress |-> Str, startDate |-> U32,
            endDate |-> U32, baseSymbol |-> Str, quoteSymbol |-> Str,
            tokenId |-> Str, price |-> Str, rom |-> Str, ram |-> Str]
Script == [events |-> Many("Event"), result |-> Str, results |-> Strings,
           oracles |-> Many("Oracle")]
Archive == [hash |-> Str, size |-> U32, flags |-> Str, key |-> Str,
            blockCount |-> I32, metadata |-> Strings]
ABIParameter == [name |-> Str, type |-> Str]
ABIMethod == [name |-> Str, returnType |-> Str,
              parameters |-> Many("ABIParameter")]
ABIContract == [name |-> Str, methods |-> Many("ABIMethod")]
Receipt == [nexus |-> Str, channel |-> Str, index |-> Str, timestamp |-> U32,
            sender |-> Str, receiver |-> Str, script |-> Str]
Peer == [url |-> Str, version |-> Str, flags |-> Str, fee |-> Str,
         pow |-> U32]
Validator == [address |-> Str, type |-> Str]
Swap == [sourcePlatform |-> Str, sourceChain |-> Str, sourceHash |-> Str,
         sourceAddress |-> Str, destinationPlatform |-> Str,
         destinationChain |-> Str, destinationHash |-> Str,
         destinationAddress |-> Str, symbol |-> Str, value |-> Str]

Structs == [Balance |-> Balance, Interop |-> Interop, Platform |-> Platform,
    Governance |-> Governance, Organization |-> Organization,
    Nexus |-> Nexus, Stake |-> Stake, Account |-> Account,
    Leaderboard |-> Leaderboard, Chain |-> Chain, Event |-> Event,
    Oracle |-> Oracle, Transaction |-> Transaction,
    AccountTransactions |-> AccountTransactions, Paginated |-> Paginated,
    Block |-> Block, Token |-> Token, TokenData |-> TokenData,
    Auction |-> Auction, Script |-> Script, Archive |-> Archive,
    ABIParameter |-> ABIParameter, ABIMethod |-> ABIMethod,
    ABIContract |-> ABIContract, Receipt |-> Receipt, Peer |-> Peer,
    Validator |-> Validator, Swap |-> Swap]

\* A call: the method it names, how AddArray writes each parameter, and the
\* result it parses.
Text   == "text"     \* a const char*, written between quotes
Number == "number"   \* an Int32 or UInt32, written bare
Call(method, params, result) ==
    [method |-> method, params |-> params, result |-> result]

GetAccount == Call("getAccount", <<Text>>, One("Account"))
LookUpName == Call("lookUpName", <<Text>>, One("string"))
GetBlockHeight == Call("getBlockHeight", <<Text>>, One("int32"))
GetBlockTransactionCountByHash ==
    Call("getBlockTransactionCountByHash", <<Text>>, One("int32"))
GetBlockByHash == Call("getBlockByHash", <<Text>>, One("Block"))
GetRawBlockByHash == Call("getRawBlockByHash", <<Text>>, One("string"))
GetBlockByHeight == Call("getBlockByHeight", <<Text, Number>>, One("Block"))
GetRawBlockByHeight ==
    Call("getRawBlockByHeight", <<Text, Number>>, One("string"))
GetTransactionByBlockHashAndIndex ==
    Call("getTransactionByBlockHashAndIndex", <<Text, Number>>, One("Transaction"))
GetAddressTransactions ==
    Call("getAddressTransactions", <<Text, Number, Number>>, One("AccountTransactions"))
GetAddressTransactionCount ==
    Call("getAddressTransactionCount", <<Text, Text>>, One("int32"))
SendRawTransaction == Call("sendRawTransaction", <<Text>>, One("string"))
InvokeRawScript == Call("invokeRawScript", <<Text, Text>>, One("Script"))
GetTransaction == Call("getTransaction", <<Text>>, One("Transaction"))
CancelTransaction == Call("cancelTransaction", <<Text>>, One("string"))
GetChains == Call("getChains", <<>>, Many("Chain"))
GetNexus == Call("getNexus", <<>>, One("Nexus"))
GetOrganization == Call("getOrganization", <<Text>>, One("Organization"))
GetTokens == Call("getTokens", <<>>, Many("Token"))
GetToken == Call("getToken", <<Text>>, One("Token"))
GetTokenData == Call("getTokenData", <<Text, Text>>, One("TokenData"))
GetTokenBalance ==
    Call("getTokenBalance", <<Text, Text, Text>>, One("Balance"))
GetAuctionsCount == Call("getAuctionsCount", <<Text, Text>>, One("int32"))
GetAuctions ==
    Call("getAuctions", <<Text, Text, Number, Number>>, Page("Auction"))
GetAuction == Call("getAuction", <<Text, Text, Text>>, One("Auction"))
GetArchive == Call("getArchive", <<Text>>, One("Archive"))
WriteArchive == Call("writeArchive", <<Text, Number, Text>>, One("bool"))
GetABI == Call("getABI", <<Text, Text>>, One("ABIContract"))
GetPeers == Call("getPeers", <<>>, Many("Peer"))
RelaySend == Call("relaySend", <<Text>>, One("bool"))
RelayReceive == Call("relayReceive", <<Text>>, Many("Receipt"))
GetEvents == Call("getEvents", <<Text>>, Many("Event"))
GetPlatforms == Call("getPlatforms", <<>>, Many("Platform"))
GetValidators == Call("getValidators", <<>>, Many("Validator"))
SettleSwap == Call("settleSwap", <<Text, Text, Text>>, One("string"))
GetSwapsForAddress == Call("getSwapsForAddress", <<Text>>, Many("Swap"))

Calls == {GetAccount, LookUpName, GetBlockHeight,
    GetBlockTransactionCountByHash, GetBlockByHash, GetRawBlockByHash,
    GetBlockByHeight, GetRawBlockByHeight,
    GetTransactionByBlockHashAndIndex, GetAddressTransactions,
    GetAddressTransactionCount, SendRawTransaction, InvokeRawScript,
    GetTransaction, CancelTransaction, GetChains, GetNexus, GetOrganization,
    GetTokens, GetToken, GetTokenData, GetTokenBalance, GetAuctionsCount,
    GetAuctions, GetAuction, GetArchive, WriteArchive, GetABI, GetPeers,
    RelaySend, RelayReceive, GetEvents, GetPlatforms, GetValidators,
    SettleSwap, GetSwapsForAddress}

=============================================================================
